-------------------------- MODULE Services_proofs --------------------------
(***************************************************************************)
(* Proofs about plugin packages, plugin configuration, digests and         *)
(* research, logins through directories and the start of the service, for  *)
(* any numbers of distributions, connections, jobs, event types, days,     *)
(* directories, logins, processes and restarts.                            *)
(*                                                                         *)
(* The ledger, the directories and the jobs agree because a change of a    *)
(* distribution has it to itself (Apart): one job or one removal at a time *)
(* claims it, and what the row says and what lies below plugin_dir differ  *)
(* only in the steps of that claim.                                        *)
(*                                                                         *)
(* A day is digested once because the trigger fires once a day and the job *)
(* it starts takes it away; a type is not searched while a result is fresh *)
(* because the targets of a cycle are different types, so that keeping one *)
(* result makes none of the others fresh.                                  *)
(*                                                                         *)
(* Processes that start on one database migrate it one at a time, because  *)
(* the holder of the lock alone changes it, and what it has read of it is  *)
(* still so when it changes it.                                            *)
(*                                                                         *)
(* A session of a directory is on its present terms because a version      *)
(* names one configuration, and the login that has compared the version    *)
(* under the lock has the configuration that is saved.                     *)
(*                                                                         *)
(* What a collector uses was tested because whoever holds the gate finds   *)
(* at its end what it read, and an edit has its connection to itself.      *)
(***************************************************************************)
EXTENDS MCServices, RemoteLogCursor_proofs, ChatRequests_proofs, FiniteSetTheorems, SequenceTheorems, TLAPS

\* What the row of a distribution may hold.
PackageRows == [status : {"installing", "installed", "failed"}, version : 0 .. LastVersion]

\* Job j changes distribution d, by the name asked for or the name found.
Claims(j, d) == task[j].pc # "idle" /\ d \in {task[j].dist, task[j].actual}

TaskShapes ==
    [pc : {"idle", "checked", "staging", "validating", "placing", "placed", "failed"},
     dist : Dists \cup {NoPackage}, actual : Dists \cup {NoPackage}, version : 0 .. LastVersion]

Shapes ==
    /\ PackagesTypeOK
    /\ ledger \in [Dists -> {NoPackage} \cup PackageRows]
    /\ dirs \in [Dists -> SUBSET PackageVersions]

\* A job knows what it was asked for, and once it has unpacked the package
\* what that names itself.
JobsInformed ==
    \A j \in Jobs :
        /\ task[j].pc # "idle" => task[j].dist \in Dists
        /\ task[j].pc \in {"validating", "placing", "placed"} =>
               task[j].actual \in Dists /\ task[j].version \in PackageVersions

\* Nobody changes a distribution that somebody else is changing.
OneAtATime ==
    \A d \in Dists, j \in Jobs : Claims(j, d) =>
        /\ d \notin removing
        /\ \A k \in Jobs : Claims(k, d) => k = j

\* Between the two steps of _replace_directory the place is free, and after
\* them it is taken.
PlaceTaken ==
    \A j \in Jobs :
        /\ task[j].pc = "placing" => task[j].version \notin dirs[task[j].actual]
        /\ task[j].pc = "placed" => task[j].version \in dirs[task[j].actual]

\* A staging directory is its job's, or was left by a change that was cut.
StagedKnown ==
    \A s \in staged :
        s.dist \in cut \/ /\ s.job \in Jobs
                          /\ task[s.job].pc \in {"validating", "placing"}
                          /\ task[s.job].actual = s.dist

\* A row and the directories agree, or who is changing them has not finished.
RowTrue(d) ==
    /\ Has(d, "installed") =>
          \/ ledger[d].version \in dirs[d]
          \/ d \in removing
          \/ \E j \in Jobs : /\ task[j].pc = "placing" /\ task[j].actual = d
                             /\ task[j].version = ledger[d].version
    /\ Has(d, "installing") =>
          \E j \in Jobs : task[j].pc \notin {"idle", "checked"} /\ task[j].dist = d
    /\ ledger[d] = NoPackage =>
          dirs[d] = {} \/ \E j \in Jobs : task[j].pc = "placed" /\ task[j].actual = d
RowsTrue == \A d \in Dists : d \in cut \/ RowTrue(d)

\* Between the two steps of a removal the files are gone.
FilesGone == \A d \in removing : dirs[d] = {}

PackagesInv ==
    /\ Shapes /\ JobsInformed /\ OneAtATime /\ PlaceTaken /\ StagedKnown
    /\ FilesGone /\ RowsTrue

-----------------------------------------------------------------------------
\* At first nothing is recorded and nothing is there.
LEMMA PackagesInv_Init == PackagesInit => PackagesInv
  <1> USE PackagesAssumption
  <1> SUFFICES ASSUME PackagesInit PROVE PackagesInv
    OBVIOUS
  <1>1. Shapes
    BY DEF PackagesInit, Shapes, PackagesTypeOK, IdleTask, PackageRows
  <1>2. JobsInformed /\ OneAtATime /\ PlaceTaken /\ StagedKnown /\ FilesGone
    BY DEF PackagesInit, JobsInformed, OneAtATime, PlaceTaken, StagedKnown, FilesGone,
           Claims, IdleTask
  <1>3. RowsTrue
    BY DEF PackagesInit, RowsTrue, RowTrue, Has
  <1> QED BY <1>1, <1>2, <1>3 DEF PackagesInv

\* A task of its shape, with its fields.
LEMMA Task_Shape ==
    ASSUME Shapes, NEW j \in Jobs
    PROVE  /\ task[j].pc \in {"idle", "checked", "staging", "validating", "placing",
                              "placed", "failed"}
           /\ task[j].dist \in Dists \cup {NoPackage}
           /\ task[j].actual \in Dists \cup {NoPackage}
           /\ task[j].version \in 0 .. LastVersion
  BY DEF Shapes, PackagesTypeOK

\* What the invariant says is the property.
LEMMA PackagesInv_Accounted == PackagesInv => PackagesAccounted
  <1> USE PackagesAssumption
  <1> SUFFICES ASSUME PackagesInv PROVE PackagesAccounted
    OBVIOUS
  <1>1. ASSUME NEW d \in Dists, ~ Changing(d), d \notin cut
        PROVE  /\ d \notin removing
               /\ \A j \in Jobs : ~ Claims(j, d)
               /\ \A s \in staged : s.dist # d
    <2>1. d \notin removing /\ \A j \in Jobs : ~ Claims(j, d)
      BY <1>1 DEF Changing, Claims
    <2>2. ASSUME NEW s \in staged, s.dist = d PROVE FALSE
      BY <1>1, <2>1, <2>2 DEF PackagesInv, StagedKnown, Claims
    <2> QED BY <2>1, <2>2
  <1>2. InstalledIsWhole
    BY <1>1 DEF InstalledIsWhole, PackagesInv, RowsTrue, RowTrue, Claims
  <1>3. InstallingHasJob
    BY DEF InstallingHasJob, PackagesInv, RowsTrue, RowTrue
  <1>4. FoundIsRecorded
    <2> SUFFICES ASSUME NEW d \in Dists, ~ Changing(d), d \notin cut
                 PROVE  /\ Has(d, "installed") /\ dirs[d] \subseteq {ledger[d].version} =>
                              Discovered(d) = {ledger[d].version}
                        /\ ledger[d] = NoPackage => Discovered(d) = {}
      BY DEF FoundIsRecorded
    <2>1. SearchPath(d) = {[staging |-> FALSE, version |-> v] : v \in dirs[d]}
      BY <1>1 DEF SearchPath
    <2>2. ASSUME ledger[d] = NoPackage PROVE Discovered(d) = {}
      <3>1. dirs[d] = {}
        BY <1>1, <2>2 DEF PackagesInv, RowsTrue, RowTrue, Claims
      <3> QED BY <2>1, <3>1 DEF Discovered
    <2>3. ASSUME Has(d, "installed"), dirs[d] \subseteq {ledger[d].version}
          PROVE  Discovered(d) = {ledger[d].version}
      <3> PICK v : v = ledger[d].version
        OBVIOUS
      <3>1. dirs[d] = {v}
        BY <1>2, <2>3 DEF InstalledIsWhole
      <3>2. v \in PackageVersions
        BY <3>1 DEF PackagesInv, Shapes
      <3> PICK p : p = [staging |-> FALSE, version |-> v]
        OBVIOUS
      <3>3. SearchPath(d) = {p}
        BY <2>1, <3>1
      <3>4. FirstOnPath(p, p) /\ p.version = v
        BY <3>2 DEF FirstOnPath, PackageVersions
      <3> QED BY <3>3, <3>4 DEF Discovered
    <2> QED BY <2>2, <2>3
  <1> QED BY <1>2, <1>3, <1>4 DEF PackagesAccounted

-----------------------------------------------------------------------------
\* A request finds nobody else at its distribution.
LEMMA Check_Keeps ==
    ASSUME PackagesInv, NEW j \in Jobs, NEW d \in Dists, Apart, CheckInstall(j, d) PROVE PackagesInv'
  <1> USE PackagesAssumption DEF PackagesInv, CheckInstall, Changing
  <1>1. Shapes'
    <2> USE DEF Shapes, PackagesTypeOK
    <2>1. ledger' \in [Dists -> {NoPackage} \cup PackageRows]
      BY DEF PackageRows
    <2>2. dirs' \in [Dists -> SUBSET PackageVersions]
      BY DEF JobsInformed
    <2>3. staged' \subseteq [job : Jobs \cup {NoPackage}, dist : Dists, version : PackageVersions]
      OBVIOUS
    <2>4. task' \in [Jobs -> TaskShapes]
      <3> PICK i : i = IdleTask
        OBVIOUS
      <3> PICK t : t = [i EXCEPT !.pc = "checked", !.dist = d]
        OBVIOUS
      <3>1. i \in TaskShapes
        BY DEF TaskShapes, IdleTask
      <3>2. t \in TaskShapes
        BY <3>1 DEF TaskShapes
      <3>3. task' = [task EXCEPT ![j] = t]
        OBVIOUS
      <3> QED BY <3>2, <3>3 DEF TaskShapes
    <2>5. uploads' \subseteq [job : Jobs, process : Processes]
      OBVIOUS
    <2>6. /\ removing' \cup cut' \subseteq Dists
          /\ process' \in Processes /\ restarts' \in 0 .. MaxRestarts
      OBVIOUS
    <2> QED BY <2>1, <2>2, <2>3, <2>4, <2>5, <2>6 DEF TaskShapes, PackageRows
  <1>2. JobsInformed'
    BY Task_Shape DEF JobsInformed, Shapes, PackagesTypeOK, IdleTask
  <1>3. OneAtATime'
    BY Task_Shape DEF OneAtATime, Claims, Shapes, PackagesTypeOK, IdleTask
  <1>4. PlaceTaken'
    BY Task_Shape DEF PlaceTaken, OneAtATime, Claims, JobsInformed, Shapes, PackagesTypeOK, IdleTask
  <1>5. StagedKnown'
    BY Task_Shape DEF StagedKnown, OneAtATime, Claims, JobsInformed, Shapes, PackagesTypeOK, IdleTask
  <1>6. FilesGone'
    BY Task_Shape DEF FilesGone, OneAtATime, Claims, JobsInformed, Shapes, PackagesTypeOK, IdleTask
  <1>7. RowsTrue'
    BY Task_Shape DEF RowsTrue, RowTrue, Has, PackageRows, PlaceTaken, FilesGone, OneAtATime,
       Claims, JobsInformed, Shapes, PackagesTypeOK, IdleTask
  <1> QED BY <1>1, <1>2, <1>3, <1>4, <1>5, <1>6, <1>7

\* The row that is written is the job's.
LEMMA Queue_Keeps ==
    ASSUME PackagesInv, NEW j \in Jobs, QueueInstall(j) PROVE PackagesInv'
  <1> USE PackagesAssumption DEF PackagesInv, QueueInstall, Goes
  <1>1. Shapes'
    <2> USE DEF Shapes, PackagesTypeOK
    <2>1. ledger' \in [Dists -> {NoPackage} \cup PackageRows]
      <3> PICK d : d = task[j].dist
        OBVIOUS
      <3> PICK row : row = LedgerRow("installing", IF ledger[d] = NoPackage THEN 0
                                              ELSE ledger[d].version)
        OBVIOUS
      <3>1. d \in Dists
        BY DEF JobsInformed
      <3>2. row \in PackageRows
        <4>1. ledger[d] = NoPackage \/ ledger[d].version \in 0 .. LastVersion
          BY <3>1 DEF PackageRows
        <4> QED BY <4>1 DEF LedgerRow, PackageRows
      <3>3. ledger' = [ledger EXCEPT ![d] = row]
        OBVIOUS
      <3>4. ledger \in [Dists -> {NoPackage} \cup PackageRows]
        OBVIOUS
      <3> HIDE DEF Shapes, PackagesTypeOK, PackagesInv
      <3> QED BY <3>1, <3>2, <3>3, <3>4
    <2>2. dirs' \in [Dists -> SUBSET PackageVersions]
      BY DEF JobsInformed
    <2>3. staged' \subseteq [job : Jobs \cup {NoPackage}, dist : Dists, version : PackageVersions]
      OBVIOUS
    <2>4. task' \in [Jobs -> TaskShapes]
      BY DEF TaskShapes, PackageVersions
    <2>5. uploads' \subseteq [job : Jobs, process : Processes]
      OBVIOUS
    <2>6. /\ removing' \cup cut' \subseteq Dists
          /\ process' \in Processes /\ restarts' \in 0 .. MaxRestarts
      OBVIOUS
    <2> QED BY <2>1, <2>2, <2>3, <2>4, <2>5, <2>6 DEF TaskShapes, PackageRows
  <1>2. JobsInformed'
    BY Task_Shape DEF JobsInformed, Shapes, PackagesTypeOK
  <1>3. OneAtATime'
    BY Task_Shape DEF OneAtATime, Claims, Shapes, PackagesTypeOK
  <1>4. PlaceTaken'
    BY Task_Shape DEF PlaceTaken, OneAtATime, Claims, JobsInformed, Shapes, PackagesTypeOK
  <1>5. StagedKnown'
    BY Task_Shape DEF StagedKnown, OneAtATime, Claims, JobsInformed, Shapes, PackagesTypeOK
  <1>6. FilesGone'
    BY Task_Shape DEF FilesGone, OneAtATime, Claims, JobsInformed, Shapes, PackagesTypeOK
  <1>7. RowsTrue'
    BY Task_Shape DEF RowsTrue, RowTrue, Has, PackageRows, PlaceTaken, FilesGone, OneAtATime,
       Claims, JobsInformed, Shapes, PackagesTypeOK, LedgerRow
  <1> QED BY <1>1, <1>2, <1>3, <1>4, <1>5, <1>6, <1>7

\* A request that fails has changed nothing.
LEMMA Unqueued_Keeps ==
    ASSUME PackagesInv, NEW j \in Jobs, RequestFails(j) PROVE PackagesInv'
  <1> USE PackagesAssumption DEF PackagesInv, RequestFails, EndJob
  <1>1. Shapes'
    <2> USE DEF Shapes, PackagesTypeOK
    <2>1. ledger' \in [Dists -> {NoPackage} \cup PackageRows]
      BY DEF PackageRows
    <2>2. dirs' \in [Dists -> SUBSET PackageVersions]
      BY DEF JobsInformed
    <2>3. staged' \subseteq [job : Jobs \cup {NoPackage}, dist : Dists, version : PackageVersions]
      OBVIOUS
    <2>4. task' \in [Jobs -> TaskShapes]
      BY DEF TaskShapes, PackageVersions, IdleTask
    <2>5. uploads' \subseteq [job : Jobs, process : Processes]
      OBVIOUS
    <2>6. /\ removing' \cup cut' \subseteq Dists
          /\ process' \in Processes /\ restarts' \in 0 .. MaxRestarts
      BY Task_Shape
    <2> QED BY <2>1, <2>2, <2>3, <2>4, <2>5, <2>6 DEF TaskShapes, PackageRows
  <1>2. JobsInformed'
    BY Task_Shape DEF JobsInformed, Shapes, PackagesTypeOK, IdleTask
  <1>3. OneAtATime'
    BY Task_Shape DEF OneAtATime, Claims, Shapes, PackagesTypeOK, IdleTask
  <1>4. PlaceTaken'
    BY Task_Shape DEF PlaceTaken, OneAtATime, Claims, JobsInformed, Shapes, PackagesTypeOK, IdleTask
  <1>5. StagedKnown'
    BY Task_Shape DEF StagedKnown, OneAtATime, Claims, JobsInformed, Shapes, PackagesTypeOK, IdleTask
  <1>6. FilesGone'
    BY Task_Shape DEF FilesGone, OneAtATime, Claims, JobsInformed, Shapes, PackagesTypeOK, IdleTask
  <1>7. RowsTrue'
    BY Task_Shape DEF RowsTrue, RowTrue, Has, PackageRows, PlaceTaken, FilesGone, OneAtATime,
       Claims, JobsInformed, Shapes, PackagesTypeOK, IdleTask
  <1> QED BY <1>1, <1>2, <1>3, <1>4, <1>5, <1>6, <1>7

\* A package that names itself otherwise finds nobody at that name.
LEMMA Unpacked_Keeps ==
    ASSUME PackagesInv, NEW j \in Jobs, NEW actual \in Dists, NEW version \in PackageVersions, Apart, Unpacked(j, actual, version) PROVE PackagesInv'
  <1> USE PackagesAssumption DEF PackagesInv, Unpacked, Changing
  <1>1. Shapes'
    <2> USE DEF Shapes, PackagesTypeOK
    <2>1. ledger' \in [Dists -> {NoPackage} \cup PackageRows]
      BY DEF PackageRows
    <2>2. dirs' \in [Dists -> SUBSET PackageVersions]
      BY DEF JobsInformed
    <2>3. staged' \subseteq [job : Jobs \cup {NoPackage}, dist : Dists, version : PackageVersions]
      OBVIOUS
    <2>4. task' \in [Jobs -> TaskShapes]
      <3> PICK s : s = task[j]
        OBVIOUS
      <3> PICK t : t = [s EXCEPT !.pc = "validating", !.actual = actual, !.version = version]
        OBVIOUS
      <3>1. s \in TaskShapes
        BY DEF TaskShapes
      <3>2. version \in 0 .. LastVersion
        BY DEF PackageVersions
      <3>3. t = [pc |-> "validating", dist |-> s.dist, actual |-> actual, version |-> version]
        BY <3>1 DEF TaskShapes
      <3>4. t \in TaskShapes
        BY <3>1, <3>2, <3>3 DEF TaskShapes
      <3>5. task' = [task EXCEPT ![j] = t]
        BY <3>1 DEF TaskShapes
      <3> QED BY <3>4, <3>5 DEF TaskShapes
    <2>5. uploads' \subseteq [job : Jobs, process : Processes]
      OBVIOUS
    <2>6. /\ removing' \cup cut' \subseteq Dists
          /\ process' \in Processes /\ restarts' \in 0 .. MaxRestarts
      OBVIOUS
    <2> QED BY <2>1, <2>2, <2>3, <2>4, <2>5, <2>6 DEF TaskShapes, PackageRows
  <1>2. JobsInformed'
    BY Task_Shape DEF JobsInformed, Shapes, PackagesTypeOK
  <1>3. OneAtATime'
    BY Task_Shape DEF OneAtATime, Claims, Shapes, PackagesTypeOK
  <1>4. PlaceTaken'
    BY Task_Shape DEF PlaceTaken, OneAtATime, Claims, JobsInformed, Shapes, PackagesTypeOK
  <1>5. StagedKnown'
    BY Task_Shape DEF StagedKnown, OneAtATime, Claims, JobsInformed, Shapes, PackagesTypeOK
  <1>6. FilesGone'
    BY Task_Shape DEF FilesGone, OneAtATime, Claims, JobsInformed, Shapes, PackagesTypeOK
  <1>7. RowsTrue'
    BY SMTT(30), Task_Shape DEF RowsTrue, RowTrue, Has, PackageRows, PlaceTaken, FilesGone, OneAtATime,
       Claims, JobsInformed, Shapes, PackagesTypeOK
  <1> QED BY <1>1, <1>2, <1>3, <1>4, <1>5, <1>6, <1>7

\* An installation that fails takes its staging directory with it, or what it has
\* left, and the directory it has taken away, are cut.
LEMMA Fails_Keeps ==
    ASSUME PackagesInv, NEW j \in Jobs, InstallFails(j) PROVE PackagesInv'
  <1> USE PackagesAssumption DEF PackagesInv, Goes
  <1> PICK d : d = task[j].actual
    OBVIOUS
  <1> PICK v : v = task[j].version
    OBVIOUS
  <1>0. PICK left \in BOOLEAN, torn \in BOOLEAN :
            /\ torn => task[j].pc = "validating" /\ v \in dirs[d]
            /\ staged' = {s \in staged : s.job # j} \cup
                   {[s EXCEPT !.job = NoPackage] : s \in {x \in staged : left /\ x.job = j}}
            /\ dirs' = IF torn THEN [dirs EXCEPT ![d] = @ \ {v}] ELSE dirs
            /\ cut' = cut \cup {x \in {d} \ {NoPackage} :
                           \/ left \/ torn
                           \/ task[j].pc = "placing" /\ ledger[x] = LedgerRow("installed", v)}
    BY DEF InstallFails
  <1>00. /\ task[j].pc \in {"staging", "validating", "placing"}
         /\ task' = [task EXCEPT ![j].pc = "failed"]
         /\ UNCHANGED <<ledger, uploads, removing, process, restarts>>
    BY DEF InstallFails
  <1>1. Shapes'
    <2> USE DEF Shapes, PackagesTypeOK
    <2>1. ledger' \in [Dists -> {NoPackage} \cup PackageRows]
      BY <1>0, <1>00 DEF PackageRows
    <2>2. dirs' \in [Dists -> SUBSET PackageVersions]
      BY <1>0, <1>00 DEF JobsInformed
    <2>3. staged' \subseteq [job : Jobs \cup {NoPackage}, dist : Dists, version : PackageVersions]
      BY <1>0, <1>00
    <2>4. task' \in [Jobs -> TaskShapes]
      BY <1>0, <1>00 DEF TaskShapes, PackageVersions
    <2>5. uploads' \subseteq [job : Jobs, process : Processes]
      BY <1>0, <1>00
    <2>6. /\ removing' \cup cut' \subseteq Dists
          /\ process' \in Processes /\ restarts' \in 0 .. MaxRestarts
      BY <1>0, <1>00
    <2> QED BY <2>1, <2>2, <2>3, <2>4, <2>5, <2>6 DEF TaskShapes, PackageRows
  <1>2. JobsInformed'
    BY <1>0, <1>00, Task_Shape DEF JobsInformed, Shapes, PackagesTypeOK
  <1>3. OneAtATime'
    BY <1>0, <1>00, Task_Shape DEF OneAtATime, Claims, Shapes, PackagesTypeOK
  <1>4. PlaceTaken'
    BY <1>0, <1>00, Task_Shape DEF PlaceTaken, OneAtATime, Claims, JobsInformed, Shapes, PackagesTypeOK
  <1>5. StagedKnown'
    BY <1>0, <1>00, Task_Shape DEF StagedKnown, OneAtATime, Claims, JobsInformed, Shapes, PackagesTypeOK
  <1>6. FilesGone'
    BY <1>0, <1>00, Task_Shape DEF FilesGone, OneAtATime, Claims, JobsInformed, Shapes, PackagesTypeOK
  <1>7. RowsTrue'
    <2> SUFFICES ASSUME NEW x \in Dists, x \notin cut' PROVE RowTrue(x)'
      BY DEF RowsTrue
    <2>1. x \notin cut /\ RowTrue(x)
      BY <1>0 DEF RowsTrue
    <2>2. x = d => /\ ~ torn
                   /\ ~ (task[j].pc = "placing" /\ ledger[x] = LedgerRow("installed", v))
      BY <1>0, PackagesAssumption
    <2>3. ledger' = ledger /\ removing' = removing /\ dirs'[x] = dirs[x]
      BY <1>0, <1>00, <2>2
    <2>4. \A k \in Jobs : /\ task'[k].dist = task[k].dist /\ task'[k].actual = task[k].actual
                          /\ task'[k].version = task[k].version
                          /\ k # j => task'[k].pc = task[k].pc
      BY <1>00 DEF Shapes, PackagesTypeOK
    <2>5. task'[j].pc = "failed"
      BY <1>00 DEF Shapes, PackagesTypeOK
    <2>6. Has(x, "installed") => \/ ledger[x].version \in dirs[x]
                                 \/ x \in removing
                                 \/ \E k \in Jobs : /\ task'[k].pc = "placing" /\ task'[k].actual = x
                                                   /\ task'[k].version = ledger[x].version
      <3> SUFFICES ASSUME Has(x, "installed"), ledger[x].version \notin dirs[x], x \notin removing
                   PROVE  \E k \in Jobs : /\ task'[k].pc = "placing" /\ task'[k].actual = x
                                         /\ task'[k].version = ledger[x].version
        OBVIOUS
      <3>1. PICK k \in Jobs : /\ task[k].pc = "placing" /\ task[k].actual = x
                              /\ task[k].version = ledger[x].version
        BY <2>1 DEF RowTrue
      <3>2. CASE k = j
        <4>1. ledger[x] = LedgerRow("installed", v)
          BY <3>1, <3>2 DEF Has, LedgerRow, Shapes, PackageRows
        <4> QED BY <2>2, <3>1, <3>2, <4>1
      <3>3. CASE k # j
        BY <2>4, <3>1, <3>3
      <3> QED BY <3>2, <3>3
    <2>7. Has(x, "installing") => \E k \in Jobs : task'[k].pc \notin {"idle", "checked"} /\ task'[k].dist = x
      BY <2>1, <2>4, <2>5 DEF RowTrue
    <2>8. ledger[x] = NoPackage => dirs[x] = {} \/ \E k \in Jobs : task'[k].pc = "placed" /\ task'[k].actual = x
      BY <1>00, <2>1, <2>4 DEF RowTrue
    <2> QED BY <2>3, <2>6, <2>7, <2>8 DEF RowTrue, Has
  <1> QED BY <1>1, <1>2, <1>3, <1>4, <1>5, <1>6, <1>7

\* The old directory goes.
LEMMA Clear_Keeps ==
    ASSUME PackagesInv, NEW j \in Jobs, ClearFinal(j) PROVE PackagesInv'
  <1> USE PackagesAssumption DEF PackagesInv, ClearFinal, Goes
  <1>1. Shapes'
    <2> USE DEF Shapes, PackagesTypeOK
    <2>1. ledger' \in [Dists -> {NoPackage} \cup PackageRows]
      BY DEF PackageRows
    <2>2. dirs' \in [Dists -> SUBSET PackageVersions]
      BY DEF JobsInformed
    <2>3. staged' \subseteq [job : Jobs \cup {NoPackage}, dist : Dists, version : PackageVersions]
      OBVIOUS
    <2>4. task' \in [Jobs -> TaskShapes]
      BY DEF TaskShapes, PackageVersions
    <2>5. uploads' \subseteq [job : Jobs, process : Processes]
      OBVIOUS
    <2>6. /\ removing' \cup cut' \subseteq Dists
          /\ process' \in Processes /\ restarts' \in 0 .. MaxRestarts
      OBVIOUS
    <2> QED BY <2>1, <2>2, <2>3, <2>4, <2>5, <2>6 DEF TaskShapes, PackageRows
  <1>2. JobsInformed'
    BY Task_Shape DEF JobsInformed, Shapes, PackagesTypeOK
  <1>3. OneAtATime'
    BY Task_Shape DEF OneAtATime, Claims, Shapes, PackagesTypeOK
  <1>4. PlaceTaken'
    BY Task_Shape DEF PlaceTaken, OneAtATime, Claims, JobsInformed, Shapes, PackagesTypeOK
  <1>5. StagedKnown'
    BY Task_Shape DEF StagedKnown, OneAtATime, Claims, JobsInformed, Shapes, PackagesTypeOK
  <1>6. FilesGone'
    BY Task_Shape DEF FilesGone, OneAtATime, Claims, JobsInformed, Shapes, PackagesTypeOK
  <1>7. RowsTrue'
    BY Task_Shape DEF RowsTrue, RowTrue, Has, PackageRows, PlaceTaken, FilesGone, OneAtATime,
       Claims, JobsInformed, Shapes, PackagesTypeOK
  <1> QED BY <1>1, <1>2, <1>3, <1>4, <1>5, <1>6, <1>7

\* The new directory takes its name.
LEMMA Place_Keeps ==
    ASSUME PackagesInv, NEW j \in Jobs, Place(j) PROVE PackagesInv'
  <1> USE PackagesAssumption DEF PackagesInv, Place, Goes
  <1>1. Shapes'
    <2> USE DEF Shapes, PackagesTypeOK
    <2>1. ledger' \in [Dists -> {NoPackage} \cup PackageRows]
      BY DEF PackageRows
    <2>2. dirs' \in [Dists -> SUBSET PackageVersions]
      BY DEF JobsInformed
    <2>3. staged' \subseteq [job : Jobs \cup {NoPackage}, dist : Dists, version : PackageVersions]
      OBVIOUS
    <2>4. task' \in [Jobs -> TaskShapes]
      BY DEF TaskShapes, PackageVersions
    <2>5. uploads' \subseteq [job : Jobs, process : Processes]
      OBVIOUS
    <2>6. /\ removing' \cup cut' \subseteq Dists
          /\ process' \in Processes /\ restarts' \in 0 .. MaxRestarts
      OBVIOUS
    <2> QED BY <2>1, <2>2, <2>3, <2>4, <2>5, <2>6 DEF TaskShapes, PackageRows
  <1>2. JobsInformed'
    BY Task_Shape DEF JobsInformed, Shapes, PackagesTypeOK
  <1>3. OneAtATime'
    BY Task_Shape DEF OneAtATime, Claims, Shapes, PackagesTypeOK
  <1>4. PlaceTaken'
    BY Task_Shape DEF PlaceTaken, OneAtATime, Claims, JobsInformed, Shapes, PackagesTypeOK
  <1>5. StagedKnown'
    BY Task_Shape DEF StagedKnown, OneAtATime, Claims, JobsInformed, Shapes, PackagesTypeOK
  <1>6. FilesGone'
    BY Task_Shape DEF FilesGone, OneAtATime, Claims, JobsInformed, Shapes, PackagesTypeOK
  <1>7. RowsTrue'
    BY Task_Shape DEF RowsTrue, RowTrue, Has, PackageRows, PlaceTaken, FilesGone, OneAtATime,
       Claims, JobsInformed, Shapes, PackagesTypeOK
  <1> QED BY <1>1, <1>2, <1>3, <1>4, <1>5, <1>6, <1>7

\* The row says that it failed.
LEMMA Failure_Keeps ==
    ASSUME PackagesInv, NEW j \in Jobs, RecordFailure(j) PROVE PackagesInv'
  <1> USE PackagesAssumption DEF PackagesInv, RecordFailure, EndJob
  <1>1. Shapes'
    <2> USE DEF Shapes, PackagesTypeOK
    <2>1. ledger' \in [Dists -> {NoPackage} \cup PackageRows]
      <3> PICK d : d = task[j].dist
        OBVIOUS
      <3> PICK row : row = LedgerRow("failed", IF ledger[d] = NoPackage THEN 0
                                              ELSE ledger[d].version)
        OBVIOUS
      <3>1. d \in Dists
        BY DEF JobsInformed
      <3>2. row \in PackageRows
        <4>1. ledger[d] = NoPackage \/ ledger[d].version \in 0 .. LastVersion
          BY <3>1 DEF PackageRows
        <4> QED BY <4>1 DEF LedgerRow, PackageRows
      <3>3. ledger' = [ledger EXCEPT ![d] = row]
        OBVIOUS
      <3>4. ledger \in [Dists -> {NoPackage} \cup PackageRows]
        OBVIOUS
      <3> HIDE DEF Shapes, PackagesTypeOK, PackagesInv
      <3> QED BY <3>1, <3>2, <3>3, <3>4
    <2>2. dirs' \in [Dists -> SUBSET PackageVersions]
      BY DEF JobsInformed
    <2>3. staged' \subseteq [job : Jobs \cup {NoPackage}, dist : Dists, version : PackageVersions]
      OBVIOUS
    <2>4. task' \in [Jobs -> TaskShapes]
      BY DEF TaskShapes, PackageVersions, IdleTask
    <2>5. uploads' \subseteq [job : Jobs, process : Processes]
      OBVIOUS
    <2>6. /\ removing' \cup cut' \subseteq Dists
          /\ process' \in Processes /\ restarts' \in 0 .. MaxRestarts
      OBVIOUS
    <2> QED BY <2>1, <2>2, <2>3, <2>4, <2>5, <2>6 DEF TaskShapes, PackageRows
  <1>2. JobsInformed'
    BY Task_Shape DEF JobsInformed, Shapes, PackagesTypeOK, IdleTask
  <1>3. OneAtATime'
    BY Task_Shape DEF OneAtATime, Claims, Shapes, PackagesTypeOK, IdleTask
  <1>4. PlaceTaken'
    BY Task_Shape DEF PlaceTaken, OneAtATime, Claims, JobsInformed, Shapes, PackagesTypeOK, IdleTask
  <1>5. StagedKnown'
    BY Task_Shape DEF StagedKnown, OneAtATime, Claims, JobsInformed, Shapes, PackagesTypeOK, IdleTask
  <1>6. FilesGone'
    BY Task_Shape DEF FilesGone, OneAtATime, Claims, JobsInformed, Shapes, PackagesTypeOK, IdleTask
  <1>7. RowsTrue'
    BY Task_Shape DEF RowsTrue, RowTrue, Has, PackageRows, PlaceTaken, FilesGone, OneAtATime,
       Claims, JobsInformed, Shapes, PackagesTypeOK, IdleTask, LedgerRow
  <1> QED BY <1>1, <1>2, <1>3, <1>4, <1>5, <1>6, <1>7

\* The row says what was placed.
LEMMA Success_Keeps ==
    ASSUME PackagesInv, NEW j \in Jobs, RecordSuccess(j) PROVE PackagesInv'
  <1> USE PackagesAssumption DEF PackagesInv, RecordSuccess, EndJob
  <1>1. Shapes'
    <2> USE DEF Shapes, PackagesTypeOK
    <2>1. ledger' \in [Dists -> {NoPackage} \cup PackageRows]
      BY Task_Shape DEF PackageRows, LedgerRow
    <2>2. dirs' \in [Dists -> SUBSET PackageVersions]
      BY DEF JobsInformed
    <2>3. staged' \subseteq [job : Jobs \cup {NoPackage}, dist : Dists, version : PackageVersions]
      OBVIOUS
    <2>4. task' \in [Jobs -> TaskShapes]
      BY DEF TaskShapes, PackageVersions, IdleTask
    <2>5. uploads' \subseteq [job : Jobs, process : Processes]
      OBVIOUS
    <2>6. /\ removing' \cup cut' \subseteq Dists
          /\ process' \in Processes /\ restarts' \in 0 .. MaxRestarts
      BY DEF JobsInformed
    <2> QED BY <2>1, <2>2, <2>3, <2>4, <2>5, <2>6 DEF TaskShapes, PackageRows
  <1>2. JobsInformed'
    BY Task_Shape DEF JobsInformed, Shapes, PackagesTypeOK, IdleTask
  <1>3. OneAtATime'
    BY Task_Shape DEF OneAtATime, Claims, Shapes, PackagesTypeOK, IdleTask
  <1>4. PlaceTaken'
    BY Task_Shape DEF PlaceTaken, OneAtATime, Claims, JobsInformed, Shapes, PackagesTypeOK, IdleTask
  <1>5. StagedKnown'
    BY Task_Shape DEF StagedKnown, OneAtATime, Claims, JobsInformed, Shapes, PackagesTypeOK, IdleTask
  <1>6. FilesGone'
    BY Task_Shape DEF FilesGone, OneAtATime, Claims, JobsInformed, Shapes, PackagesTypeOK, IdleTask
  <1>7. RowsTrue'
    <2> PICK t : t = task[j]
      OBVIOUS
    <2>1. /\ t.pc = "placed" /\ t.dist \in Dists /\ t.actual \in Dists
          /\ t.version \in PackageVersions /\ t.version \in dirs[t.actual]
          /\ UNCHANGED <<dirs, removing>> /\ cut \subseteq cut'
      BY DEF JobsInformed, PlaceTaken
    <2>2. \A k \in Jobs : task'[k] = IF k = j THEN IdleTask ELSE task[k]
      BY DEF Shapes, PackagesTypeOK
    <2>3. \A x \in Dists : ledger'[x] = IF x = t.actual THEN LedgerRow("installed", t.version)
                                        ELSE IF x = t.dist THEN NoPackage ELSE ledger[x]
      OBVIOUS
    <2> SUFFICES ASSUME NEW x \in Dists, x \notin cut' PROVE RowTrue(x)'
      BY DEF RowsTrue
    <2>4. CASE x = t.actual
      <3>1. ledger'[x] = LedgerRow("installed", t.version)
        BY <2>3, <2>4
      <3>2. ledger'[x] # NoPackage
        BY <2>1, <3>1 DEF LedgerRow, PackageVersions
      <3> QED BY <2>1, <2>4, <3>1, <3>2 DEF RowTrue, Has, LedgerRow
    <2>5. CASE x # t.actual /\ x = t.dist
      <3>1. ledger'[x] = NoPackage /\ dirs[x] = {}
        BY <2>3, <2>5
      <3> QED BY <2>1, <3>1 DEF RowTrue, Has
    <2>6. CASE x # t.actual /\ x # t.dist
      <3>1. ledger'[x] = ledger[x] /\ RowTrue(x)
        BY <2>1, <2>3, <2>6 DEF RowsTrue
      <3>2. \A k \in Jobs : k = j \/ task'[k] = task[k]
        BY <2>2
      <3>3. Has(x, "installing")' => \E k \in Jobs : task'[k].pc \notin {"idle", "checked"} /\ task'[k].dist = x
        BY <2>6, <3>1, <3>2 DEF RowTrue, Has
      <3>4. ledger'[x] = NoPackage => dirs'[x] = {} \/ \E k \in Jobs : task'[k].pc = "placed" /\ task'[k].actual = x
        BY <2>1, <2>6, <3>1, <3>2 DEF RowTrue
      <3>5. Has(x, "installed")' => \/ ledger'[x].version \in dirs'[x]
                                   \/ x \in removing'
                                   \/ \E k \in Jobs : /\ task'[k].pc = "placing" /\ task'[k].actual = x
                                                     /\ task'[k].version = ledger'[x].version
        BY <2>1, <2>6, <3>1, <3>2 DEF RowTrue, Has
      <3> QED BY <3>3, <3>4, <3>5 DEF RowTrue
    <2> QED BY <2>4, <2>5, <2>6
  <1> QED BY <1>1, <1>2, <1>3, <1>4, <1>5, <1>6, <1>7

\* A change whose end is not recorded is cut.
LEMMA Lost_Keeps ==
    ASSUME PackagesInv, NEW j \in Jobs, RecordLost(j) PROVE PackagesInv'
  <1> USE PackagesAssumption DEF PackagesInv, RecordLost, EndJob
  <1>1. Shapes'
    <2> USE DEF Shapes, PackagesTypeOK
    <2>1. ledger' \in [Dists -> {NoPackage} \cup PackageRows]
      BY DEF PackageRows
    <2>2. dirs' \in [Dists -> SUBSET PackageVersions]
      BY DEF JobsInformed
    <2>3. staged' \subseteq [job : Jobs \cup {NoPackage}, dist : Dists, version : PackageVersions]
      OBVIOUS
    <2>4. task' \in [Jobs -> TaskShapes]
      BY DEF TaskShapes, PackageVersions, IdleTask
    <2>5. uploads' \subseteq [job : Jobs, process : Processes]
      OBVIOUS
    <2>6. /\ removing' \cup cut' \subseteq Dists
          /\ process' \in Processes /\ restarts' \in 0 .. MaxRestarts
      BY Task_Shape
    <2> QED BY <2>1, <2>2, <2>3, <2>4, <2>5, <2>6 DEF TaskShapes, PackageRows
  <1>2. JobsInformed'
    BY Task_Shape DEF JobsInformed, Shapes, PackagesTypeOK, IdleTask
  <1>3. OneAtATime'
    BY Task_Shape DEF OneAtATime, Claims, Shapes, PackagesTypeOK, IdleTask
  <1>4. PlaceTaken'
    BY Task_Shape DEF PlaceTaken, OneAtATime, Claims, JobsInformed, Shapes, PackagesTypeOK, IdleTask
  <1>5. StagedKnown'
    BY Task_Shape DEF StagedKnown, OneAtATime, Claims, JobsInformed, Shapes, PackagesTypeOK, IdleTask
  <1>6. FilesGone'
    BY Task_Shape DEF FilesGone, OneAtATime, Claims, JobsInformed, Shapes, PackagesTypeOK, IdleTask
  <1>7. RowsTrue'
    BY Task_Shape DEF RowsTrue, RowTrue, Has, PackageRows, PlaceTaken, FilesGone, OneAtATime,
       Claims, JobsInformed, Shapes, PackagesTypeOK, IdleTask
  <1> QED BY <1>1, <1>2, <1>3, <1>4, <1>5, <1>6, <1>7

\* The files of a distribution that nobody changes go.
LEMMA RemoveFiles_Keeps ==
    ASSUME PackagesInv, NEW d \in Dists, Apart, RemoveFiles(d) PROVE PackagesInv'
  <1> USE PackagesAssumption DEF PackagesInv, RemoveFiles, Changing
  <1>1. Shapes'
    <2> USE DEF Shapes, PackagesTypeOK
    <2>1. ledger' \in [Dists -> {NoPackage} \cup PackageRows]
      BY DEF PackageRows
    <2>2. dirs' \in [Dists -> SUBSET PackageVersions]
      BY DEF JobsInformed
    <2>3. staged' \subseteq [job : Jobs \cup {NoPackage}, dist : Dists, version : PackageVersions]
      OBVIOUS
    <2>4. task' \in [Jobs -> TaskShapes]
      BY DEF TaskShapes, PackageVersions
    <2>5. uploads' \subseteq [job : Jobs, process : Processes]
      OBVIOUS
    <2>6. /\ removing' \cup cut' \subseteq Dists
          /\ process' \in Processes /\ restarts' \in 0 .. MaxRestarts
      OBVIOUS
    <2> QED BY <2>1, <2>2, <2>3, <2>4, <2>5, <2>6 DEF TaskShapes, PackageRows
  <1>2. JobsInformed'
    BY Task_Shape DEF JobsInformed, Shapes, PackagesTypeOK
  <1>3. OneAtATime'
    BY Task_Shape DEF OneAtATime, Claims, Shapes, PackagesTypeOK
  <1>4. PlaceTaken'
    BY Task_Shape DEF PlaceTaken, OneAtATime, Claims, JobsInformed, Shapes, PackagesTypeOK
  <1>5. StagedKnown'
    BY Task_Shape DEF StagedKnown, OneAtATime, Claims, JobsInformed, Shapes, PackagesTypeOK
  <1>6. FilesGone'
    BY Task_Shape DEF FilesGone, OneAtATime, Claims, JobsInformed, Shapes, PackagesTypeOK
  <1>7. RowsTrue'
    BY Task_Shape DEF RowsTrue, RowTrue, Has, PackageRows, PlaceTaken, FilesGone, OneAtATime,
       Claims, JobsInformed, Shapes, PackagesTypeOK
  <1> QED BY <1>1, <1>2, <1>3, <1>4, <1>5, <1>6, <1>7

\* What is left of a distribution whose removal stops is cut.
LEMMA RemoveFilesStops_Keeps ==
    ASSUME PackagesInv, NEW d \in Dists, Apart, RemoveFilesStops(d) PROVE PackagesInv'
  <1> USE PackagesAssumption DEF PackagesInv, RemoveFilesStops, Changing
  <1>1. Shapes'
    <2> USE DEF Shapes, PackagesTypeOK
    <2>1. ledger' \in [Dists -> {NoPackage} \cup PackageRows]
      BY DEF PackageRows
    <2>2. dirs' \in [Dists -> SUBSET PackageVersions]
      BY DEF JobsInformed
    <2>3. staged' \subseteq [job : Jobs \cup {NoPackage}, dist : Dists, version : PackageVersions]
      OBVIOUS
    <2>4. task' \in [Jobs -> TaskShapes]
      BY DEF TaskShapes, PackageVersions
    <2>5. uploads' \subseteq [job : Jobs, process : Processes]
      OBVIOUS
    <2>6. /\ removing' \cup cut' \subseteq Dists
          /\ process' \in Processes /\ restarts' \in 0 .. MaxRestarts
      OBVIOUS
    <2> QED BY <2>1, <2>2, <2>3, <2>4, <2>5, <2>6 DEF TaskShapes, PackageRows
  <1>2. JobsInformed'
    BY Task_Shape DEF JobsInformed, Shapes, PackagesTypeOK
  <1>3. OneAtATime'
    BY Task_Shape DEF OneAtATime, Claims, Shapes, PackagesTypeOK
  <1>4. PlaceTaken'
    BY Task_Shape DEF PlaceTaken, OneAtATime, Claims, JobsInformed, Shapes, PackagesTypeOK
  <1>5. StagedKnown'
    BY Task_Shape DEF StagedKnown, OneAtATime, Claims, JobsInformed, Shapes, PackagesTypeOK
  <1>6. FilesGone'
    BY Task_Shape DEF FilesGone, OneAtATime, Claims, JobsInformed, Shapes, PackagesTypeOK
  <1>7. RowsTrue'
    BY Task_Shape DEF RowsTrue, RowTrue, Has, PackageRows, PlaceTaken, FilesGone, OneAtATime,
       Claims, JobsInformed, Shapes, PackagesTypeOK
  <1> QED BY <1>1, <1>2, <1>3, <1>4, <1>5, <1>6, <1>7

\* The row follows the files.
LEMMA RemoveRow_Keeps ==
    ASSUME PackagesInv, NEW d \in Dists, RemoveRow(d) PROVE PackagesInv'
  <1> USE PackagesAssumption DEF PackagesInv, RemoveRow
  <1>1. Shapes'
    <2> USE DEF Shapes, PackagesTypeOK
    <2>1. ledger' \in [Dists -> {NoPackage} \cup PackageRows]
      BY DEF PackageRows
    <2>2. dirs' \in [Dists -> SUBSET PackageVersions]
      BY DEF JobsInformed
    <2>3. staged' \subseteq [job : Jobs \cup {NoPackage}, dist : Dists, version : PackageVersions]
      OBVIOUS
    <2>4. task' \in [Jobs -> TaskShapes]
      BY DEF TaskShapes, PackageVersions
    <2>5. uploads' \subseteq [job : Jobs, process : Processes]
      OBVIOUS
    <2>6. /\ removing' \cup cut' \subseteq Dists
          /\ process' \in Processes /\ restarts' \in 0 .. MaxRestarts
      OBVIOUS
    <2> QED BY <2>1, <2>2, <2>3, <2>4, <2>5, <2>6 DEF TaskShapes, PackageRows
  <1>2. JobsInformed'
    BY Task_Shape DEF JobsInformed, Shapes, PackagesTypeOK
  <1>3. OneAtATime'
    BY Task_Shape DEF OneAtATime, Claims, Shapes, PackagesTypeOK
  <1>4. PlaceTaken'
    BY Task_Shape DEF PlaceTaken, OneAtATime, Claims, JobsInformed, Shapes, PackagesTypeOK
  <1>5. StagedKnown'
    BY Task_Shape DEF StagedKnown, OneAtATime, Claims, JobsInformed, Shapes, PackagesTypeOK
  <1>6. FilesGone'
    BY Task_Shape DEF FilesGone, OneAtATime, Claims, JobsInformed, Shapes, PackagesTypeOK
  <1>7. RowsTrue'
    BY Task_Shape DEF RowsTrue, RowTrue, Has, PackageRows, PlaceTaken, FilesGone, OneAtATime,
       Claims, JobsInformed, Shapes, PackagesTypeOK
  <1> QED BY <1>1, <1>2, <1>3, <1>4, <1>5, <1>6, <1>7

\* A row that stays without its files is cut.
LEMMA RemoveFails_Keeps ==
    ASSUME PackagesInv, NEW d \in Dists, RemoveFails(d) PROVE PackagesInv'
  <1> USE PackagesAssumption DEF PackagesInv, RemoveFails
  <1>1. Shapes'
    <2> USE DEF Shapes, PackagesTypeOK
    <2>1. ledger' \in [Dists -> {NoPackage} \cup PackageRows]
      BY DEF PackageRows
    <2>2. dirs' \in [Dists -> SUBSET PackageVersions]
      BY DEF JobsInformed
    <2>3. staged' \subseteq [job : Jobs \cup {NoPackage}, dist : Dists, version : PackageVersions]
      OBVIOUS
    <2>4. task' \in [Jobs -> TaskShapes]
      BY DEF TaskShapes, PackageVersions
    <2>5. uploads' \subseteq [job : Jobs, process : Processes]
      OBVIOUS
    <2>6. /\ removing' \cup cut' \subseteq Dists
          /\ process' \in Processes /\ restarts' \in 0 .. MaxRestarts
      OBVIOUS
    <2> QED BY <2>1, <2>2, <2>3, <2>4, <2>5, <2>6 DEF TaskShapes, PackageRows
  <1>2. JobsInformed'
    BY Task_Shape DEF JobsInformed, Shapes, PackagesTypeOK
  <1>3. OneAtATime'
    BY Task_Shape DEF OneAtATime, Claims, Shapes, PackagesTypeOK
  <1>4. PlaceTaken'
    BY Task_Shape DEF PlaceTaken, OneAtATime, Claims, JobsInformed, Shapes, PackagesTypeOK
  <1>5. StagedKnown'
    BY Task_Shape DEF StagedKnown, OneAtATime, Claims, JobsInformed, Shapes, PackagesTypeOK
  <1>6. FilesGone'
    BY Task_Shape DEF FilesGone, OneAtATime, Claims, JobsInformed, Shapes, PackagesTypeOK
  <1>7. RowsTrue'
    BY Task_Shape DEF RowsTrue, RowTrue, Has, PackageRows, PlaceTaken, FilesGone, OneAtATime,
       Claims, JobsInformed, Shapes, PackagesTypeOK
  <1> QED BY <1>1, <1>2, <1>3, <1>4, <1>5, <1>6, <1>7

\* What was being changed is cut.
LEMMA Restart_Keeps ==
    ASSUME PackagesInv, RestartApplication PROVE PackagesInv'
  <1> USE PackagesAssumption DEF PackagesInv, RestartApplication, Changing
  <1>1. Shapes'
    <2> USE DEF Shapes, PackagesTypeOK
    <2>1. ledger' \in [Dists -> {NoPackage} \cup PackageRows]
      BY DEF PackageRows
    <2>2. dirs' \in [Dists -> SUBSET PackageVersions]
      BY DEF JobsInformed
    <2>3. staged' \subseteq [job : Jobs \cup {NoPackage}, dist : Dists, version : PackageVersions]
      OBVIOUS
    <2>4. task' \in [Jobs -> TaskShapes]
      BY DEF TaskShapes, PackageVersions, IdleTask
    <2>5. uploads' \subseteq [job : Jobs, process : Processes]
      OBVIOUS
    <2>6. /\ removing' \cup cut' \subseteq Dists
          /\ process' \in Processes /\ restarts' \in 0 .. MaxRestarts
      OBVIOUS
    <2> QED BY <2>1, <2>2, <2>3, <2>4, <2>5, <2>6 DEF TaskShapes, PackageRows
  <1>2. JobsInformed'
    BY Task_Shape DEF JobsInformed, Shapes, PackagesTypeOK, IdleTask
  <1>3. OneAtATime'
    BY Task_Shape DEF OneAtATime, Claims, Shapes, PackagesTypeOK, IdleTask
  <1>4. PlaceTaken'
    BY Task_Shape DEF PlaceTaken, OneAtATime, Claims, JobsInformed, Shapes, PackagesTypeOK, IdleTask
  <1>5. StagedKnown'
    BY Task_Shape DEF StagedKnown, OneAtATime, Claims, JobsInformed, Shapes, PackagesTypeOK, IdleTask
  <1>6. FilesGone'
    BY Task_Shape DEF FilesGone, OneAtATime, Claims, JobsInformed, Shapes, PackagesTypeOK, IdleTask
  <1>7. RowsTrue'
    BY Task_Shape DEF RowsTrue, RowTrue, Has, PackageRows, PlaceTaken, FilesGone, OneAtATime,
       Claims, JobsInformed, Shapes, PackagesTypeOK, IdleTask
  <1> QED BY <1>1, <1>2, <1>3, <1>4, <1>5, <1>6, <1>7

LEMMA PackagesInv_Always ==
    ASSUME Apart PROVE PackagesSpec => []PackagesInv
  <1>1. PackagesInit => PackagesInv
    BY PackagesInv_Init
  <1>2. PackagesInv /\ [PackagesNext]_packagesVars => PackagesInv'
    <2> SUFFICES ASSUME PackagesInv, [PackagesNext]_packagesVars PROVE PackagesInv'
      OBVIOUS
    <2>1. ASSUME NEW j \in Jobs, JobStep(j) PROVE PackagesInv'
      BY <2>1, Queue_Keeps, Unqueued_Keeps, Unpacked_Keeps, Fails_Keeps, Clear_Keeps, Place_Keeps,
         Failure_Keeps, Success_Keeps, Lost_Keeps DEF JobStep
    <2>2. CASE UNCHANGED packagesVars
      BY <2>2 DEF packagesVars, PackagesInv, Shapes, PackagesTypeOK, JobsInformed, OneAtATime,
         Claims, PlaceTaken, StagedKnown, FilesGone, RowsTrue, RowTrue, Has
    <2> QED BY <2>1, <2>2, Check_Keeps, RemoveFiles_Keeps, RemoveFilesStops_Keeps,
               RemoveRow_Keeps, RemoveFails_Keeps, Restart_Keeps
            DEF PackagesNext
  <1> QED BY <1>1, <1>2, PTL DEF PackagesSpec

-----------------------------------------------------------------------------
\* PackagesAccounted: ledger, jobs, directories and what a reload finds agree,
\* whatever fails and at whatever point the application is restarted, where
\* the changes of one distribution do not overlap.
THEOREM PackagesAlwaysAccounted ==
    ASSUME Apart PROVE PackagesSpec => []PackagesAccounted
  BY PackagesInv_Always, PackagesInv_Accounted, PTL

-----------------------------------------------------------------------------
(* Digests and research.                                                    *)

DigestShapes ==
    [pc : {"idle", "summarising", "attaching", "storing"}, kind : {"", "daily", "weekly"},
     from : Int, to : Int, status : {"", "ok", "ok_llm_failed", "error"},
     attached : SUBSET EventTypes]

DigestsShaped ==
    /\ today \in 1 .. LastDay
    /\ IsFiniteSet(happened) /\ happened \subseteq [type : EventTypes, day : Int]
    /\ research \in [EventTypes -> {NoResearch} \cup EventTypeResearch]
    /\ writing \in [Tasks -> DigestShapes]

\* What the schedule has written is over, each day once; what is due or under
\* way is later than all of it.
Scheduled == {d \in digests : d.task = "scheduled"}
ScheduleTrue ==
    LET now == writing["scheduled"]
    IN /\ \A d \in Scheduled : d.from \in Int /\ d.to = d.from + 1 /\ d.to <= d.at /\ d.from < today
       /\ \A d, e \in Scheduled : d.from = e.from => d = e
       /\ now.pc # "idle" =>
              /\ now.to = now.from + 1 /\ now.to <= today
              /\ \A d \in Scheduled : d.from < now.from
       /\ due => /\ \A d \in Scheduled : d.from < today - 1
                 /\ now.pc # "idle" => now.from < today - 1

Stale(t) == research[t] = NoResearch \/ research[t].at < today - FreshFor(research[t].status)

\* The targets of a cycle are different types without a fresh result.
CycleTrue ==
    /\ cycle.targets \in Seq(EventTypes)
    /\ cycle.pc \in {"idle", "searching", "condensing", "keeping"}
    /\ cycle.pc # "idle" => cycle.targets # <<>>
    /\ cycle.pc = "keeping" => cycle.status \in {"ok", "no_result", "error"}
    /\ \A i \in 1 .. Len(cycle.targets) :
          /\ Stale(cycle.targets[i])
          /\ \A k \in 1 .. Len(cycle.targets) : cycle.targets[i] = cycle.targets[k] => i = k

\* What is attached was found, and only the text of a day is attached to.
Attachment(d) ==
    d.attached # {} =>
        /\ d.kind = "daily" /\ d.status # "error"
        /\ Cardinality(d.attached) <= MaxAttached
        /\ \A t \in d.attached : /\ t \in EventTypes /\ research[t] # NoResearch
                                 /\ TypeScore(t) >= ScoreThreshold
AttachedTrue ==
    /\ \A d \in digests : Attachment(d)
    /\ \A k \in Tasks :
          /\ Attachment(writing[k])
          /\ writing[k].pc \in {"summarising", "attaching"} => writing[k].attached = {}
          /\ writing[k].pc = "attaching" => writing[k].kind = "daily" /\ writing[k].status # "error"

DigestsInv == DigestsShaped /\ ScheduleTrue /\ CycleTrue /\ AttachedTrue

\* What the invariant says is the property.
LEMMA DigestsInv_Promises == DigestsInv => DigestPromises
  <1> SUFFICES ASSUME DigestsInv PROVE DigestPromises
    OBVIOUS
  <1>1. DaysDigestedOnce
    BY DEF DaysDigestedOnce, DigestsInv, ScheduleTrue, Scheduled
  <1>2. NoneSearchedWhileFresh
    <2> SUFFICES ASSUME cycle.pc # "idle"
                 PROVE  LET row == research[Head(cycle.targets)]
                        IN row = NoResearch \/ row.at < today - FreshFor(row.status)
      BY DEF NoneSearchedWhileFresh
    <2> PICK s : s = cycle.targets
      OBVIOUS
    <2>1. s \in Seq(EventTypes) /\ s # <<>>
      BY DEF DigestsInv, CycleTrue
    <2>2. Len(s) \in Nat \ {0} /\ Head(s) = s[1]
      BY <2>1, EmptySeq
    <2>3. Stale(s[1])
      BY <2>2 DEF DigestsInv, CycleTrue
    <2> QED BY <2>2, <2>3 DEF Stale
  <1>3. AttachedWasFound
    BY DEF AttachedWasFound, DigestsInv, AttachedTrue, Attachment
  <1> QED BY <1>1, <1>2, <1>3 DEF DigestPromises

LEMMA DigestsInv_Init == DigestsInit => DigestsInv
  <1> USE DigestsAssumption
  <1> SUFFICES ASSUME DigestsInit PROVE DigestsInv
    OBVIOUS
  <1>1. DigestsShaped
    <2>1. today \in 1 .. LastDay /\ IsFiniteSet(happened) /\ happened = {}
      BY FS_EmptySet DEF DigestsInit
    <2>2. writing \in [Tasks -> DigestShapes]
      <3>1. NoDigest \in DigestShapes
        BY DEF NoDigest, DigestShapes
      <3> QED BY <3>1 DEF DigestsInit
    <2> QED BY <2>1, <2>2 DEF DigestsInit, DigestsShaped
  <1>2. ScheduleTrue
    BY DEF DigestsInit, ScheduleTrue, Scheduled, NoDigest, Tasks
  <1>3. CycleTrue
    <2>1. cycle.targets = <<>> /\ cycle.pc = "idle"
      BY DEF DigestsInit, NoCycle
    <2> QED BY <2>1, EmptySeq DEF CycleTrue
  <1>4. AttachedTrue
    BY DEF DigestsInit, AttachedTrue, Attachment, NoDigest, Tasks
  <1> QED BY <1>1, <1>2, <1>3, <1>4 DEF DigestsInv

\* The order of the best is a sequence of different types.
LEMMA Ranked_Orders ==
    ASSUME NEW types, IsFiniteSet(types), types \subseteq EventTypes, NEW s \in Ranked(types)
    PROVE  /\ s \in Seq(EventTypes)
           /\ Len(s) = Cardinality(types)
           /\ \A i \in 1 .. Len(s) : s[i] \in types
           /\ \A i, k \in 1 .. Len(s) : s[i] = s[k] => i = k
           /\ types # {} => Len(s) > 0
  <1> PICK n : n = Cardinality(types)
    OBVIOUS
  <1>1. n \in Nat /\ (n = 0 <=> types = {})
    BY FS_CardinalityType, FS_EmptySet
  <1>2. s \in [1 .. n -> types] /\ {s[i] : i \in DOMAIN s} = types
    BY DEF Ranked
  <1>3. s \in Seq(EventTypes) /\ Len(s) = n
    BY <1>1, <1>2
  <1>4. IsFiniteSet(1 .. n) /\ Cardinality(1 .. n) = n
    BY <1>1, FS_Interval
  <1>5. s \in Surjection(1 .. n, types)
    BY <1>2 DEF Surjection
  <1>6. s \in Injection(1 .. n, types)
    BY <1>4, <1>5, FS_Surjection
  <1>7. \A i, k \in 1 .. n : s[i] = s[k] => i = k
    BY <1>6 DEF Injection, IsInjective
  <1>8. \A i \in 1 .. n : s[i] \in types
    BY <1>2
  <1> QED BY <1>1, <1>3, <1>7, <1>8

LEMMA Topmost_Orders ==
    ASSUME NEW n \in Nat \ {0}, NEW s \in Seq(EventTypes)
    PROVE  /\ Topmost(n, s) \in Seq(EventTypes)
           /\ Len(Topmost(n, s)) <= n /\ Len(Topmost(n, s)) <= Len(s)
           /\ Len(s) > 0 => Len(Topmost(n, s)) > 0
           /\ \A i \in 1 .. Len(Topmost(n, s)) : Topmost(n, s)[i] = s[i]
  BY DEF Topmost

\* Of finitely many events there are finitely many types.
LEMMA Notable_Finite ==
    ASSUME NEW events, IsFiniteSet(events), events \subseteq [type : EventTypes, day : Int]
    PROVE  IsFiniteSet(Notable(events)) /\ Notable(events) \subseteq EventTypes
  <1> DEFINE f == [e \in events |-> e.type]
             types == {e.type : e \in events}
  <1>1. f \in Surjection(events, types)
    BY DEF Surjection
  <1>2. IsFiniteSet(types)
    BY <1>1, FS_Surjection
  <1>3. Notable(events) \subseteq types /\ types \subseteq EventTypes
    BY DEF Notable
  <1> QED BY <1>2, <1>3, FS_Subset

\* The dates and the states of rows and jobs.
LEMMA Research_Shape ==
    ASSUME DigestsShaped, NEW t \in EventTypes
    PROVE  /\ FreshFor(research[t].status) \in Nat
           /\ research[t] # NoResearch =>
                  research[t].at \in 1 .. LastDay /\ research[t].status \in {"ok", "no_result", "error"}
  <1>1. research[t] \in {NoResearch} \cup EventTypeResearch
    BY DEF DigestsShaped
  <1>2. FoundDays \in Nat /\ NothingDays \in Nat /\ ErrorDays \in Nat
    BY DigestsAssumption
  <1> QED BY <1>1, <1>2 DEF EventTypeResearch, FreshFor

LEMMA Writing_Shape ==
    ASSUME DigestsShaped, NEW k \in Tasks
    PROVE  /\ writing[k] \in DigestShapes
           /\ writing[k].pc \in {"idle", "summarising", "attaching", "storing"}
           /\ writing[k].kind \in {"", "daily", "weekly"}
           /\ writing[k].from \in Int /\ writing[k].to \in Int
           /\ writing[k].status \in {"", "ok", "ok_llm_failed", "error"}
           /\ writing[k].attached \in SUBSET EventTypes
           /\ today \in Int
  <1>1. writing[k] \in DigestShapes
    BY DEF DigestsShaped
  <1>2. today \in Int
    BY DigestsAssumption DEF DigestsShaped
  <1> QED BY <1>1, <1>2 DEF DigestShapes

\* What may be in a job.
Attaching(w) ==
    /\ Attachment(w)
    /\ w.pc \in {"summarising", "attaching"} => w.attached = {}
    /\ w.pc = "attaching" => w.kind = "daily" /\ w.status # "error"
OnSchedule(w) ==
    w.pc # "idle" => /\ w.to = w.from + 1 /\ w.to <= today
                     /\ \A d \in Scheduled : d.from < w.from
                     /\ due => w.from < today - 1

LEMMA Writing_True ==
    ASSUME DigestsInv, NEW k \in Tasks
    PROVE  Attaching(writing[k]) /\ (k = "scheduled" => OnSchedule(writing[k]))
  BY DEF DigestsInv, AttachedTrue, Attaching, ScheduleTrue, OnSchedule, Tasks

\* A step of one job.
LEMMA Job_Keeps ==
    ASSUME DigestsInv, NEW k \in Tasks, NEW w \in DigestShapes,
           writing' = [writing EXCEPT ![k] = w],
           UNCHANGED <<today, happened, research, digests, cycle>>, due' = due \/ ~ due',
           Attaching(w), k = "scheduled" => OnSchedule(w)'
    PROVE  DigestsInv'
  <1>1. DigestsShaped'
    BY DEF DigestsInv, DigestsShaped
  <1>2. \A m \in Tasks : writing'[m] = IF m = k THEN w ELSE writing[m]
    BY DEF DigestsInv, DigestsShaped
  <1>3. ScheduleTrue'
    <2>1. Scheduled' = Scheduled
      BY DEF Scheduled
    <2>2. CASE k = "scheduled"
      <3>1. writing'["scheduled"] = w
        BY <1>2, <2>2
      <3>2. \A d \in Scheduled : due' => d.from < today' - 1
        BY DEF DigestsInv, ScheduleTrue
      <3> QED BY <2>1, <2>2, <3>1, <3>2 DEF DigestsInv, ScheduleTrue, OnSchedule
    <2>3. CASE k # "scheduled"
      <3>1. writing'["scheduled"] = writing["scheduled"]
        BY <1>2, <2>3 DEF Tasks
      <3> QED BY <2>1, <3>1 DEF DigestsInv, ScheduleTrue
    <2> QED BY <2>2, <2>3
  <1>4. CycleTrue'
    BY DEF DigestsInv, CycleTrue, Stale
  <1>5. AttachedTrue'
    BY <1>2 DEF DigestsInv, AttachedTrue, Attaching, Attachment
  <1> QED BY <1>1, <1>3, <1>4, <1>5 DEF DigestsInv

\* A job that has no period left, or the same, is where it was on the schedule.
LEMMA Template_Keeps ==
    ASSUME DigestsInv, NEW k \in Tasks, TemplateFails(k) PROVE DigestsInv'
  <1> PICK old : old = writing[k]
    OBVIOUS
  <1> PICK w : w = [old EXCEPT !.pc = "storing", !.status = "error"]
    OBVIOUS
  <1>1. old \in DigestShapes /\ Attaching(old) /\ (k = "scheduled" => OnSchedule(old))
    BY Writing_Shape, Writing_True DEF DigestsInv
  <1>2. old.pc = "summarising" /\ old.attached = {}
    BY <1>1 DEF TemplateFails, Attaching
  <1>3. w = [pc |-> "storing", kind |-> old.kind, from |-> old.from, to |-> old.to,
             status |-> "error", attached |-> {}]
    BY <1>1, <1>2 DEF DigestShapes
  <1>4. w \in DigestShapes
    BY <1>1, <1>3 DEF DigestShapes
  <1>5. Attaching(w) /\ (k = "scheduled" => OnSchedule(w)')
    BY <1>1, <1>2, <1>3 DEF TemplateFails, Attaching, Attachment, OnSchedule, Scheduled
  <1>6. writing' = [writing EXCEPT ![k] = w]
    BY <1>1 DEF TemplateFails, DigestShapes
  <1> QED BY <1>4, <1>5, <1>6, Job_Keeps DEF TemplateFails

LEMMA Summarised_Keeps ==
    ASSUME DigestsInv, NEW k \in Tasks, NEW answered \in BOOLEAN, Summarised(k, answered)
    PROVE  DigestsInv'
  <1> PICK old : old = writing[k]
    OBVIOUS
  <1> PICK pc : pc = IF old.kind = "daily" THEN "attaching" ELSE "storing"
    OBVIOUS
  <1> PICK status : status = IF answered THEN "ok" ELSE "ok_llm_failed"
    OBVIOUS
  <1> PICK w : w = [old EXCEPT !.pc = pc, !.status = status]
    OBVIOUS
  <1>1. old \in DigestShapes /\ Attaching(old) /\ (k = "scheduled" => OnSchedule(old))
    BY Writing_Shape, Writing_True DEF DigestsInv
  <1>2. old.pc = "summarising" /\ old.attached = {}
    BY <1>1 DEF Summarised, Attaching
  <1>3. w = [pc |-> pc, kind |-> old.kind, from |-> old.from, to |-> old.to,
             status |-> status, attached |-> {}]
    BY <1>1, <1>2 DEF DigestShapes
  <1>4. w \in DigestShapes
    BY <1>1, <1>3 DEF DigestShapes
  <1>5. Attaching(w) /\ (k = "scheduled" => OnSchedule(w)')
    BY <1>1, <1>2, <1>3 DEF Summarised, Attaching, Attachment, OnSchedule, Scheduled
  <1>6. writing' = [writing EXCEPT ![k] = w]
    BY <1>1 DEF Summarised, DigestShapes
  <1> QED BY <1>4, <1>5, <1>6, Job_Keeps DEF Summarised

LEMMA Attached_Keeps ==
    ASSUME DigestsInv, NEW k \in Tasks, ResearchAttached(k) PROVE DigestsInv'
  <1> USE DigestsAssumption
  <1> PICK old : old = writing[k]
    OBVIOUS
  <1> DEFINE types == Attachable(old.from, old.to)
  <1> PICK order \in Ranked(types) :
          writing' = [writing EXCEPT ![k].pc = "storing",
                         ![k].attached = {Topmost(MaxAttached, order)[i] :
                                             i \in DOMAIN Topmost(MaxAttached, order)}]
    BY DEF ResearchAttached
  <1> PICK best : best = Topmost(MaxAttached, order)
    OBVIOUS
  <1> PICK chosen : chosen = {best[i] : i \in DOMAIN best}
    OBVIOUS
  <1> PICK w : w = [old EXCEPT !.pc = "storing", !.attached = chosen]
    OBVIOUS
  <1>1. old \in DigestShapes /\ Attaching(old) /\ (k = "scheduled" => OnSchedule(old))
    BY Writing_Shape, Writing_True DEF DigestsInv
  <1>2. old.pc = "attaching" /\ old.kind = "daily" /\ old.status # "error"
    BY <1>1 DEF ResearchAttached, Attaching
  <1>3. IsFiniteSet(Notable(During(old.from, old.to)))
        /\ Notable(During(old.from, old.to)) \subseteq EventTypes
    <2>1. IsFiniteSet(During(old.from, old.to)) /\ During(old.from, old.to) \subseteq happened
      BY FS_Subset DEF During, DigestsInv, DigestsShaped
    <2> QED BY <2>1, Notable_Finite DEF DigestsInv, DigestsShaped
  <1>4. IsFiniteSet(types) /\ types \subseteq EventTypes
    BY <1>3, FS_Subset DEF Attachable
  <1>5. \A t \in types : research[t] # NoResearch /\ TypeScore(t) >= ScoreThreshold
    BY DEF Attachable, Notable
  <1>6. /\ best \in Seq(EventTypes) /\ Len(best) <= MaxAttached
        /\ \A i \in 1 .. Len(best) : best[i] \in types
    <2> HIDE DEF types
    <2>1. order \in Seq(EventTypes) /\ \A i \in 1 .. Len(order) : order[i] \in types
      BY <1>4, Ranked_Orders
    <2>2. Len(best) <= Len(order) /\ Len(best) <= MaxAttached /\ best \in Seq(EventTypes)
          /\ \A i \in 1 .. Len(best) : best[i] = order[i]
      BY <2>1, Topmost_Orders
    <2> QED BY <2>1, <2>2
  <1>7. chosen \subseteq types /\ Cardinality(chosen) <= MaxAttached
    <2> HIDE DEF types
    <2>1. DOMAIN best = 1 .. Len(best) /\ Len(best) \in Nat
      BY <1>6
    <2>2. best \in Surjection(1 .. Len(best), chosen)
      BY <1>6, <2>1 DEF Surjection
    <2>3. Cardinality(chosen) <= Len(best)
      BY <2>1, <2>2, FS_SurjCardinalityBound DEF ExistsSurjection
    <2>4. IsFiniteSet(chosen)
      BY <2>1, <2>2, FS_NatSurjection DEF ExistsSurjection
    <2>5. Cardinality(chosen) \in Nat
      BY <2>4, FS_CardinalityType
    <2> QED BY <1>6, <2>1, <2>3, <2>5
  <1>8. w = [pc |-> "storing", kind |-> "daily", from |-> old.from, to |-> old.to,
             status |-> old.status, attached |-> chosen]
    BY <1>1, <1>2 DEF DigestShapes
  <1>9. w \in DigestShapes
    BY <1>1, <1>4, <1>7, <1>8 DEF DigestShapes
  <1>10. Attaching(w) /\ (k = "scheduled" => OnSchedule(w)')
    <2> HIDE DEF types
    <2>1. Attaching(w)
      BY <1>2, <1>4, <1>5, <1>7, <1>8 DEF Attaching, Attachment
    <2>2. UNCHANGED <<today, digests, due>>
      BY DEF ResearchAttached
    <2> QED BY <1>1, <1>2, <1>8, <2>1, <2>2 DEF OnSchedule, Scheduled
  <1>11. writing' = [writing EXCEPT ![k] = w]
    <2> HIDE DEF types
    <2>1. writing' = [writing EXCEPT ![k].pc = "storing", ![k].attached = chosen]
      OBVIOUS
    <2> QED BY <1>1, <2>1 DEF DigestShapes
  <1> QED BY <1>9, <1>10, <1>11, Job_Keeps DEF ResearchAttached

LEMMA Opened_Digest ==
    ASSUME NEW sort, NEW first, NEW last
    PROVE  [NoDigest EXCEPT !.pc = "summarising", !.kind = sort, !.from = first, !.to = last]
               = [pc |-> "summarising", kind |-> sort, from |-> first, to |-> last,
                  status |-> "", attached |-> {}]
  <1> PICK none : none = NoDigest
    OBVIOUS
  <1> PICK w : w = [none EXCEPT !.pc = "summarising", !.kind = sort, !.from = first, !.to = last]
    OBVIOUS
  <1>1. w = [pc |-> "summarising", kind |-> sort, from |-> first, to |-> last,
             status |-> "", attached |-> {}]
    BY DEF NoDigest
  <1> QED BY <1>1

\* The job takes the trigger away; its day is later than all that was written.
LEMMA Daily_Keeps ==
    ASSUME DigestsInv, DailyDigest PROVE DigestsInv'
  <1>1. today \in Int
    BY Writing_Shape DEF DigestsInv, Tasks
  <1> PICK yesterday \in Int : yesterday = today - 1
    BY <1>1
  <1>7. today = yesterday + 1 /\ today <= today
    BY <1>1
  <1> PICK w : w = [pc |-> "summarising", kind |-> "daily", from |-> yesterday, to |-> today,
                    status |-> "", attached |-> {}]
    OBVIOUS
  <1>2. w = [NoDigest EXCEPT !.pc = "summarising", !.kind = "daily", !.from = today - 1,
                             !.to = today]
    BY <1>1, Opened_Digest
  <1>3. w \in DigestShapes
    BY <1>1 DEF DigestShapes
  <1>4. Attaching(w)
    BY DEF Attaching, Attachment
  <1>5. OnSchedule(w)'
    <2>1. \A d \in Scheduled : d.from < yesterday
      BY DEF DailyDigest, DigestsInv, ScheduleTrue
    <2>2. Scheduled' = Scheduled /\ ~ due' /\ today' = today
      BY DEF Scheduled, DailyDigest
    <2>3. w.to = today /\ w.from = yesterday
      OBVIOUS
    <2> QED BY <1>7, <2>1, <2>2, <2>3 DEF OnSchedule
  <1>6. writing' = [writing EXCEPT !["scheduled"] = w] /\ "scheduled" \in Tasks
    BY <1>2 DEF DailyDigest, BeginDigest, Tasks
  <1> QED BY <1>3, <1>4, <1>5, <1>6, Job_Keeps DEF DailyDigest

LEMMA Asked_Keeps ==
    ASSUME DigestsInv, NEW sort \in {"daily", "weekly"}, NEW first \in Int, NEW last \in Int,
           DigestAskedFor(sort, first, last)
    PROVE  DigestsInv'
  <1> PICK w : w = [pc |-> "summarising", kind |-> sort, from |-> first, to |-> last,
                    status |-> "", attached |-> {}]
    OBVIOUS
  <1>1. w = [NoDigest EXCEPT !.pc = "summarising", !.kind = sort, !.from = first, !.to = last]
    BY Opened_Digest
  <1>2. w \in DigestShapes
    BY DEF DigestShapes
  <1>3. Attaching(w)
    BY DEF Attaching, Attachment
  <1>4. writing' = [writing EXCEPT !["asked for"] = w] /\ "asked for" \in Tasks
    BY <1>1 DEF DigestAskedFor, BeginDigest, Tasks
  <1> QED BY <1>2, <1>3, <1>4, Job_Keeps DEF DigestAskedFor

LEMMA DigestLost_Keeps ==
    ASSUME DigestsInv, NEW k \in Tasks, DigestLost(k) PROVE DigestsInv'
  <1>1. NoDigest \in DigestShapes /\ Attaching(NoDigest) /\ OnSchedule(NoDigest)'
    BY DEF NoDigest, DigestShapes, Attaching, Attachment, OnSchedule
  <1> QED BY <1>1, Job_Keeps DEF DigestLost

\* The row is written with what the job has; the job has no period left.
LEMMA DigestStored_Keeps ==
    ASSUME DigestsInv, NEW k \in Tasks, DigestStored(k) PROVE DigestsInv'
  <1> PICK old : old = writing[k]
    OBVIOUS
  <1> PICK row : row = [task |-> k, kind |-> old.kind, from |-> old.from, to |-> old.to,
                        status |-> old.status, attached |-> old.attached, at |-> today]
    OBVIOUS
  <1>1. old \in DigestShapes /\ Attaching(old) /\ (k = "scheduled" => OnSchedule(old))
    BY Writing_Shape, Writing_True DEF DigestsInv
  <1>2. digests' = digests \cup {row} /\ old.pc = "storing"
    BY DEF DigestStored
  <1>3. today \in Int /\ old.from \in Int /\ old.to \in Int
    BY Writing_Shape DEF DigestsInv
  <1>4. NoDigest \in DigestShapes /\ NoDigest.pc = "idle" /\ NoDigest.attached = {}
    BY DEF NoDigest, DigestShapes
  <1>5. \A m \in Tasks : writing'[m] = IF m = k THEN NoDigest ELSE writing[m]
    BY DEF DigestStored, DigestsInv, DigestsShaped
  <1>6. DigestsShaped'
    BY <1>4 DEF DigestStored, DigestsInv, DigestsShaped
  <1>7. ScheduleTrue'
    <2>1. UNCHANGED <<today, due>>
      BY DEF DigestStored
    <2>2. CASE k = "scheduled"
      <3>1. \A d \in Scheduled : d.from \in Int /\ d.from < row.from
        BY <1>1, <1>2, <2>2 DEF OnSchedule, DigestsInv, ScheduleTrue
      <3>2. /\ row.to = row.from + 1 /\ row.to <= row.at /\ row.from < today
            /\ due => row.from < today - 1
        BY <1>1, <1>2, <1>3, <2>2 DEF OnSchedule
      <3>3. Scheduled' = Scheduled \cup {row}
        BY <1>2, <2>2 DEF Scheduled
      <3>4. writing'["scheduled"].pc = "idle"
        BY <1>4, <1>5, <2>2
      <3> QED BY <1>3, <2>1, <3>1, <3>2, <3>3, <3>4 DEF ScheduleTrue, DigestsInv
    <2>3. CASE k # "scheduled"
      <3>1. Scheduled' = Scheduled
        BY <1>2, <2>3 DEF Scheduled
      <3>2. writing'["scheduled"] = writing["scheduled"]
        BY <1>5, <2>3 DEF Tasks
      <3> QED BY <2>1, <3>1, <3>2 DEF ScheduleTrue, DigestsInv
    <2> QED BY <2>2, <2>3
  <1>8. CycleTrue'
    BY DEF DigestStored, DigestsInv, CycleTrue, Stale
  <1>9. AttachedTrue'
    <2>1. Attachment(row)'
      BY <1>1 DEF Attaching, Attachment, DigestStored
    <2> QED BY <1>2, <1>4, <1>5, <2>1 DEF DigestStored, DigestsInv, AttachedTrue, Attachment
  <1> QED BY <1>6, <1>7, <1>8, <1>9 DEF DigestsInv

\* The jobs stay as they are, or are gone.
LEMMA Missed_Keeps == DigestsInv /\ DigestMissed => DigestsInv'
  <1> SUFFICES ASSUME DigestsInv, DigestMissed PROVE DigestsInv'
    OBVIOUS
  <1>1. DigestsShaped'
    BY DEF DigestMissed, DigestsInv, DigestsShaped
  <1>2. ScheduleTrue'
    BY DEF DigestMissed, DigestsInv, ScheduleTrue, Scheduled
  <1>3. CycleTrue'
    BY DEF DigestMissed, DigestsInv, CycleTrue, Stale
  <1>4. AttachedTrue'
    BY DEF DigestMissed, DigestsInv, AttachedTrue, Attachment
  <1> QED BY <1>1, <1>2, <1>3, <1>4 DEF DigestsInv

LEMMA Stop_Keeps == DigestsInv /\ StopAndStart => DigestsInv'
  <1> SUFFICES ASSUME DigestsInv, StopAndStart PROVE DigestsInv'
    OBVIOUS
  <1>1. NoDigest \in DigestShapes /\ NoDigest.pc = "idle" /\ NoDigest.attached = {}
    BY DEF NoDigest, DigestShapes
  <1>2. \A k \in Tasks : writing'[k] = NoDigest
    BY DEF StopAndStart
  <1>3. DigestsShaped'
    BY <1>1 DEF StopAndStart, DigestsInv, DigestsShaped
  <1>4. ScheduleTrue'
    <2>1. Scheduled' = Scheduled /\ today' = today /\ ~ due'
      BY DEF StopAndStart, Scheduled
    <2>2. writing'["scheduled"].pc = "idle"
      BY <1>1, <1>2 DEF Tasks
    <2> QED BY <2>1, <2>2 DEF DigestsInv, ScheduleTrue
  <1>5. CycleTrue'
    <2>1. cycle'.targets = <<>> /\ cycle'.pc = "idle"
      BY DEF StopAndStart, NoCycle
    <2> QED BY <2>1, EmptySeq DEF CycleTrue
  <1>6. AttachedTrue'
    BY <1>1, <1>2 DEF StopAndStart, DigestsInv, AttachedTrue, Attachment
  <1> QED BY <1>3, <1>4, <1>5, <1>6 DEF DigestsInv

\* What is purged is less of the same.
LEMMA Purge_Keeps == DigestsInv /\ PurgeOld => DigestsInv'
  <1> SUFFICES ASSUME DigestsInv, PurgeOld PROVE DigestsInv'
    OBVIOUS
  <1>1. happened' \subseteq happened /\ digests' \subseteq digests
    BY DEF PurgeOld
  <1>2. UNCHANGED <<today, research, due, writing, cycle>>
    BY DEF PurgeOld
  <1>3. DigestsShaped'
    BY <1>1, <1>2, FS_Subset DEF DigestsInv, DigestsShaped
  <1>4. ScheduleTrue'
    BY <1>1, <1>2 DEF DigestsInv, ScheduleTrue, Scheduled
  <1>5. CycleTrue'
    BY <1>2 DEF DigestsInv, CycleTrue, Stale
  <1>6. AttachedTrue'
    BY <1>1, <1>2 DEF DigestsInv, AttachedTrue, Attachment
  <1> QED BY <1>3, <1>4, <1>5, <1>6 DEF DigestsInv

LEMMA Stored_Keeps ==
    ASSUME DigestsInv, NEW type \in EventTypes, NEW on \in Int, EventStored(type, on)
    PROVE  DigestsInv'
  <1>1. UNCHANGED <<today, research, digests, due, writing, cycle>>
    BY DEF EventStored
  <1>2. IsFiniteSet(happened') /\ happened' \subseteq [type : EventTypes, day : Int]
    <2> PICK e : e = [type |-> type, day |-> on]
      OBVIOUS
    <2>1. e \in [type : EventTypes, day : Int] /\ happened' = happened \cup {e}
      BY DEF EventStored
    <2> QED BY <2>1, FS_AddElement DEF DigestsInv, DigestsShaped
  <1>3. DigestsShaped'
    BY <1>1, <1>2 DEF DigestsInv, DigestsShaped
  <1>4. ScheduleTrue' /\ AttachedTrue'
    BY <1>1 DEF DigestsInv, ScheduleTrue, Scheduled, AttachedTrue, Attachment
  <1>5. CycleTrue'
    BY <1>1 DEF DigestsInv, CycleTrue, Stale
  <1> QED BY <1>3, <1>4, <1>5 DEF DigestsInv

\* A day later what was fresh may be stale, and never the other way round; and
\* all that was written is of an earlier day.
LEMMA NextDay_Keeps == DigestsInv /\ NextDay => DigestsInv'
  <1> SUFFICES ASSUME DigestsInv, NextDay PROVE DigestsInv'
    OBVIOUS
  <1>1. /\ today \in Int /\ today' = today + 1 /\ today' \in 1 .. LastDay /\ due'
        /\ UNCHANGED <<happened, research, digests, writing, cycle>>
    BY DigestsAssumption DEF NextDay, DigestsInv, DigestsShaped
  <1>2. DigestsShaped'
    BY <1>1 DEF DigestsInv, DigestsShaped
  <1>3. ScheduleTrue'
    <2> PICK now : now = writing["scheduled"]
      OBVIOUS
    <2>1. Scheduled' = Scheduled /\ writing'["scheduled"] = now
      BY <1>1 DEF Scheduled
    <2>2. now.from \in Int /\ now.to \in Int
      BY Writing_Shape DEF DigestsInv, Tasks
    <2> QED BY <1>1, <2>1, <2>2 DEF DigestsInv, ScheduleTrue
  <1>4. CycleTrue'
    <2>1. ASSUME NEW type \in EventTypes, Stale(type) PROVE Stale(type)'
      BY <1>1, <2>1, Research_Shape DEF Stale, DigestsInv
    <2>2. \A i \in 1 .. Len(cycle.targets) : cycle.targets[i] \in EventTypes
      BY DEF DigestsInv, CycleTrue
    <2> QED BY <1>1, <2>1, <2>2 DEF DigestsInv, CycleTrue
  <1>5. AttachedTrue'
    BY <1>1 DEF DigestsInv, AttachedTrue, Attachment
  <1> QED BY <1>2, <1>3, <1>4, <1>5 DEF DigestsInv

\* A step of the research job alone.
LEMMA Cycle_Keeps ==
    ASSUME DigestsInv, CycleTrue', UNCHANGED <<today, happened, research, digests, due, writing>>
    PROVE  DigestsInv'
  <1>1. DigestsShaped'
    BY DEF DigestsInv, DigestsShaped
  <1>2. ScheduleTrue'
    BY DEF DigestsInv, ScheduleTrue, Scheduled
  <1>3. AttachedTrue'
    BY DEF DigestsInv, AttachedTrue, Attachment
  <1> QED BY <1>1, <1>2, <1>3 DEF DigestsInv

\* The targets are stale and different.
LEMMA Select_Keeps == DigestsInv /\ SelectTargets => DigestsInv'
  <1> USE DigestsAssumption
  <1> SUFFICES ASSUME DigestsInv, SelectTargets PROVE DigestsInv'
    OBVIOUS
  <1> DEFINE recent == {e \in happened : e.day >= today - LookbackDays}
             stale == {t \in Notable(recent) : ~ Fresh(t)}
  <1> PICK order \in Ranked(stale) :
          cycle' = [NoCycle EXCEPT !.pc = "searching", !.targets = Topmost(MaxPerCycle, order)]
    BY DEF SelectTargets
  <1> PICK best : best = Topmost(MaxPerCycle, order)
    OBVIOUS
  <1>1. stale # {} /\ UNCHANGED <<today, happened, research, digests, due, writing>>
    BY DEF SelectTargets
  <1>2. IsFiniteSet(recent) /\ recent \subseteq [type : EventTypes, day : Int]
    BY FS_Subset DEF DigestsInv, DigestsShaped
  <1>3. IsFiniteSet(Notable(recent)) /\ Notable(recent) \subseteq EventTypes
    <2> HIDE DEF recent
    <2> QED BY <1>2, Notable_Finite
  <1>4. IsFiniteSet(stale) /\ stale \subseteq EventTypes
    <2> HIDE DEF recent
    <2> QED BY <1>3, FS_Subset
  <1>5. \A t \in stale : Stale(t)
    <2> SUFFICES ASSUME NEW t \in stale PROVE Stale(t)
      OBVIOUS
    <2>1. t \in EventTypes /\ ~ Fresh(t)
      BY <1>4
    <2> HIDE DEF stale, recent
    <2>2. today \in Int
      BY DEF DigestsInv, DigestsShaped
    <2> QED BY <2>1, <2>2, Research_Shape DEF Fresh, Stale, DigestsInv
  <1> HIDE DEF stale, recent
  <1>6. /\ order \in Seq(EventTypes) /\ Len(order) > 0
        /\ \A i \in 1 .. Len(order) : order[i] \in stale
        /\ \A i, k \in 1 .. Len(order) : order[i] = order[k] => i = k
    BY <1>1, <1>4, Ranked_Orders
  <1>7. /\ best \in Seq(EventTypes) /\ Len(best) > 0 /\ Len(best) <= Len(order)
        /\ \A i \in 1 .. Len(best) : best[i] = order[i]
    BY <1>6, Topmost_Orders
  <1>8. cycle'.targets = best /\ cycle'.pc = "searching"
    BY DEF NoCycle
  <1>9. CycleTrue'
    <2>1. \A t \in EventTypes : Stale(t) => Stale(t)'
      BY <1>1 DEF Stale
    <2>2. ASSUME NEW i \in 1 .. Len(best)
          PROVE  /\ Stale(best[i])'
                 /\ \A k \in 1 .. Len(best) : best[i] = best[k] => i = k
      <3>1. i \in 1 .. Len(order) /\ best[i] = order[i] /\ best[i] \in EventTypes
        BY <1>6, <1>7
      <3> QED BY <1>5, <1>6, <1>7, <2>1, <3>1
    <2>3. best # <<>>
      BY <1>7
    <2> QED BY <1>7, <1>8, <2>2, <2>3 DEF CycleTrue
  <1> QED BY <1>1, <1>9, Cycle_Keeps

\* The search does not change its targets, nor does the model.
LEMMA Searched_Keeps ==
    ASSUME DigestsInv, NEW found, Searched(found) PROVE DigestsInv'
  <1>1. UNCHANGED <<today, happened, research, digests, due, writing>>
    BY DEF Searched
  <1>2. /\ cycle'.targets = cycle.targets /\ cycle'.pc \in {"condensing", "keeping"}
        /\ cycle'.pc = "keeping" => cycle'.status \in {"ok", "no_result", "error"}
        /\ cycle.pc # "idle"
    BY DEF Searched, DigestsInv, CycleTrue
  <1>3. \A t \in EventTypes : Stale(t) => Stale(t)'
    BY <1>1 DEF Stale
  <1>4. CycleTrue'
    BY <1>2, <1>3, ElementOfSeq DEF DigestsInv, CycleTrue
  <1> QED BY <1>1, <1>4, Cycle_Keeps

LEMMA Condensed_Keeps ==
    ASSUME DigestsInv, NEW useless \in BOOLEAN, Condensed(useless) PROVE DigestsInv'
  <1>1. UNCHANGED <<today, happened, research, digests, due, writing>>
    BY DEF Condensed
  <1>2. /\ cycle'.targets = cycle.targets /\ cycle'.pc = "keeping"
        /\ cycle'.status \in {"ok", "no_result", "error"} /\ cycle.pc # "idle"
    BY DEF Condensed, DigestsInv, CycleTrue
  <1>3. \A t \in EventTypes : Stale(t) => Stale(t)'
    BY <1>1 DEF Stale
  <1>4. CycleTrue'
    BY <1>2, <1>3, ElementOfSeq DEF DigestsInv, CycleTrue
  <1> QED BY <1>1, <1>4, Cycle_Keeps

LEMMA Rest_Shape ==
    ASSUME NEW s \in Seq(EventTypes), s # <<>>, Len(s) # 1
    PROVE  /\ Tail(s) \in Seq(EventTypes) /\ Len(Tail(s)) = Len(s) - 1
           /\ Len(s) \in Nat /\ Len(s) > 1
           /\ \A i \in 1 .. Len(Tail(s)) : Tail(s)[i] = s[i + 1]
           /\ Head(s) = s[1]
  <1>1. Len(s) \in Nat \ {0}
    BY EmptySeq
  <1>2. Len(s) > 1
    BY EmptySeq
  <1> QED BY <1>1, <1>2, HeadTailProperties

\* The targets after the first are still different and stale when the result of
\* the first changes nothing of the others.
LEMMA Next_Targets ==
    ASSUME DigestsInv, cycle.pc = "keeping", cycle' = NextTarget,
           \A t \in EventTypes \ {Head(cycle.targets)} : Stale(t) => Stale(t)'
    PROVE  CycleTrue'
  <1> PICK s : s = cycle.targets
    OBVIOUS
  <1>1. /\ s \in Seq(EventTypes) /\ s # <<>>
        /\ \A i \in 1 .. Len(s) : /\ Stale(s[i])
                                  /\ \A k \in 1 .. Len(s) : s[i] = s[k] => i = k
    BY DEF DigestsInv, CycleTrue
  <1>2. CASE Len(s) = 1
    <2>1. cycle'.targets = <<>> /\ cycle'.pc = "idle"
      BY <1>2 DEF NextTarget, NoCycle
    <2> QED BY <2>1, EmptySeq DEF CycleTrue
  <1>3. CASE Len(s) # 1
    <2>1. cycle'.targets = Tail(s) /\ cycle'.pc = "searching"
      BY <1>3 DEF NextTarget, NoCycle
    <2> PICK rest : rest = Tail(s)
      OBVIOUS
    <2>2. /\ rest \in Seq(EventTypes) /\ Len(rest) = Len(s) - 1 /\ Len(s) \in Nat /\ Len(s) > 1
          /\ \A i \in 1 .. Len(rest) : rest[i] = s[i + 1]
          /\ Head(s) = s[1]
      BY <1>1, <1>3, Rest_Shape
    <2>3. ASSUME NEW i \in 1 .. Len(rest)
          PROVE  /\ Stale(rest[i])'
                 /\ \A k \in 1 .. Len(rest) : rest[i] = rest[k] => i = k
      <3>1. i + 1 \in 1 .. Len(s) /\ rest[i] = s[i + 1] /\ i + 1 # 1 /\ 1 \in 1 .. Len(s)
        BY <2>2
      <3>2. s[i + 1] \in EventTypes /\ s[i + 1] # Head(s) /\ Stale(s[i + 1])
        BY <1>1, <2>2, <3>1
      <3>3. \A k \in 1 .. Len(rest) : rest[k] = s[k + 1] /\ k + 1 \in 1 .. Len(s)
        BY <2>2
      <3> QED BY <1>1, <3>1, <3>2, <3>3
    <2>4. rest # <<>>
      <3>1. Len(rest) # 0 /\ Len(<<>>) = 0
        BY <2>2, EmptySeq
      <3> QED BY <3>1
    <2> QED BY <2>1, <2>2, <2>3, <2>4 DEF CycleTrue
  <1> QED BY <1>2, <1>3

LEMMA ResearchLost_Keeps == DigestsInv /\ ResearchLost => DigestsInv'
  <1> SUFFICES ASSUME DigestsInv, ResearchLost PROVE DigestsInv'
    OBVIOUS
  <1>1. UNCHANGED <<today, happened, research, digests, due, writing>>
    BY DEF ResearchLost
  <1>2. \A t \in EventTypes : Stale(t) => Stale(t)'
    BY <1>1 DEF Stale
  <1> QED BY <1>1, <1>2, Next_Targets, Cycle_Keeps DEF ResearchLost

\* The result of one target makes none of the others fresh, and takes no result
\* away that is attached.
LEMMA Kept_Keeps == DigestsInv /\ ResearchKept => DigestsInv'
  <1> USE DigestsAssumption
  <1> SUFFICES ASSUME DigestsInv, ResearchKept PROVE DigestsInv'
    OBVIOUS
  <1> PICK first : first = Head(cycle.targets)
    OBVIOUS
  <1> PICK row : row = [status |-> cycle.status, at |-> today]
    OBVIOUS
  <1>1. /\ UNCHANGED <<today, happened, digests, due, writing>>
        /\ research' = [research EXCEPT ![first] = row]
        /\ cycle.pc = "keeping" /\ cycle' = NextTarget
    BY DEF ResearchKept
  <1>2. row \in EventTypeResearch /\ row # NoResearch
    BY <1>1 DEF DigestsInv, DigestsShaped, CycleTrue, EventTypeResearch
  <1>3. research' \in [EventTypes -> {NoResearch} \cup EventTypeResearch]
        /\ \A t \in EventTypes : research'[t] = IF t = first THEN row ELSE research[t]
    BY <1>1, <1>2 DEF DigestsInv, DigestsShaped
  <1>4. DigestsShaped'
    BY <1>1, <1>3 DEF DigestsInv, DigestsShaped
  <1>5. ScheduleTrue'
    BY <1>1 DEF DigestsInv, ScheduleTrue, Scheduled
  <1>6. CycleTrue'
    <2>1. \A t \in EventTypes \ {first} : Stale(t) => Stale(t)'
      BY <1>1, <1>3 DEF Stale
    <2> QED BY <1>1, <2>1, Next_Targets
  <1>7. AttachedTrue'
    <2>1. \A d : Attachment(d) => Attachment(d)'
      BY <1>2, <1>3 DEF Attachment
    <2> QED BY <1>1, <2>1 DEF DigestsInv, AttachedTrue
  <1> QED BY <1>4, <1>5, <1>6, <1>7 DEF DigestsInv

LEMMA DigestsInv_Always == DigestsSpec => []DigestsInv
  <1>1. DigestsInit => DigestsInv
    BY DigestsInv_Init
  <1>2. DigestsInv /\ [DigestsNext]_digestVars => DigestsInv'
    <2> SUFFICES ASSUME DigestsInv, [DigestsNext]_digestVars PROVE DigestsInv'
      OBVIOUS
    <2>1. CASE UNCHANGED digestVars
      BY <2>1 DEF digestVars, DigestsInv, DigestsShaped, ScheduleTrue, Scheduled, CycleTrue,
         Stale, AttachedTrue, Attachment
    <2>2. ASSUME NEW sort \in {"daily", "weekly"}, NEW p \in Periods, DigestAskedFor(sort, p[1], p[2])
          PROVE  DigestsInv'
      <3>1. p[1] \in Int /\ p[2] \in Int
        BY DigestsAssumption
      <3> QED BY <2>2, <3>1, Asked_Keeps
    <2>3. ASSUME NEW type \in EventTypes, NEW on \in 0 .. LastDay, EventStored(type, on)
          PROVE  DigestsInv'
      BY <2>3, Stored_Keeps
    <2> QED BY <2>1, <2>2, <2>3, NextDay_Keeps, Daily_Keeps, Missed_Keeps, Purge_Keeps, Stop_Keeps,
               Template_Keeps, Attached_Keeps, DigestStored_Keeps, DigestLost_Keeps,
               Summarised_Keeps, Select_Keeps, Kept_Keeps, ResearchLost_Keeps,
               Searched_Keeps, Condensed_Keeps
            DEF DigestsNext
  <1> QED BY <1>1, <1>2, PTL DEF DigestsSpec

\* DigestPromises: a day is digested once and only when it is over, nothing is
\* searched while a result of it is fresh, and what a digest attaches was found,
\* across restarts, failures and purges in any order.
THEOREM DigestsAlwaysPromised == DigestsSpec => []DigestPromises
  BY DigestsInv_Always, DigestsInv_Promises, PTL

-----------------------------------------------------------------------------
(* The start of a process.                                                  *)

SecretRows == [Secrets -> StoredSecrets]
Starting ==
    [pc : Places \ {"down"}, settings : {c \in Settings : ValidStartup(c)},
     stamp : 0 .. HeadRevision, tables : BOOLEAN, read : SecretRows]

StartupShaped ==
    /\ db \in Images
    /\ backups \in Seq([whole : BOOLEAN, image : Images])
    /\ migrating \in Procs \cup {Free}
    /\ proc \in [Procs -> {Down} \cup Starting]
    /\ secret \in SecretRows
    /\ entered \in [Secrets -> {NoSecret} \cup 0 .. MaxEntered]

AtHeadRevision == [schema |-> HeadRevision, version |-> HeadRevision, torn |-> FALSE]

\* A version says what schema there is, and one that no version is known of is whole.
VersionTrue(d) ==
    /\ d.version = HeadRevision => d = AtHeadRevision
    /\ d.version = 0 /\ d.schema > 0 => ~ d.torn

SavedBefore(schema) == \E b \in ToSet(backups) : b.whole /\ ~ b.image.torn /\ b.image.schema = schema

Migrates(w) == w.pc \in {"inspect", "backup", "stamp", "upgrade", "prune"}
Changes(w) == w.pc \in {"backup", "stamp", "upgrade"}
Past(w) == w.pc \in {"admin", "create", "recheck", "secrets", "encrypt", "serving"}

\* What process p, whose record is w, may rely on.
ProcessTrue(p, w) ==
    /\ Migrates(w) => migrating = p
    /\ w.pc \in {"backup", "stamp"} => w.stamp \in LegacyStamps
    /\ w.pc = "backup" => (db.schema > 0 => w.tables)
    /\ w.pc \in {"stamp", "upgrade"} => (engine = "sqlite" /\ db.schema > 0 => SavedBefore(db.schema))
    /\ w.pc = "upgrade" => (db.schema > 0 => db.version > 0)
    /\ w.pc = "prune" \/ Past(w) => db = AtHeadRevision
    /\ w.pc = "create" => w.settings.local
    /\ w.pc \in {"secrets", "encrypt", "serving"} =>
           (w.settings.production => UsableAdmin(w.settings))

\* While one process changes the schema none is past it.
OneChanges == \A p, q \in Procs : Changes(proc[p]) => ~ Past(proc[q])

StartupInv ==
    /\ StartupShaped
    /\ VersionTrue(db) /\ \A b \in ToSet(backups) : VersionTrue(b.image)
    /\ \A p \in Procs : ProcessTrue(p, proc[p])
    /\ OneChanges /\ TornHasBackup /\ EnteredIsStored

LEMMA StartupInv_Safe == StartupInv => StartupSafe /\ ServingHasAdmin
  BY DEF StartupInv, StartupSafe, SchemaInStep, ServingHasAdmin, PastMigration, ProcessTrue, Past,
     AtHeadRevision, At, Cfg

LEMMA StartupInv_Init == StartupInit => StartupInv
  <1> USE StartupAssumption
  <1> SUFFICES ASSUME StartupInit PROVE StartupInv
    OBVIOUS
  <1> PICK d \in Databases : db = [schema |-> d[2], version |-> d[3], torn |-> FALSE]
    BY DEF StartupInit
  <1>1. d[2] \in 0 .. HeadRevision /\ d[3] \in 0 .. HeadRevision + 1
        /\ (d[3] = HeadRevision => d[2] = HeadRevision)
    OBVIOUS
  <1>2. db \in Images /\ VersionTrue(db) /\ ~ db.torn
    BY <1>1 DEF Images, VersionTrue, AtHeadRevision
  <1>3. backups = <<>> /\ ToSet(backups) = {} /\ backups \in Seq([whole : BOOLEAN, image : Images])
    BY EmptySeq DEF StartupInit, ToSet
  <1>4. secret \in SecretRows /\ entered \in [Secrets -> {NoSecret} \cup 0 .. MaxEntered]
    BY DEF StartupInit, SecretRows, StoredSecrets, Stored
  <1>5. StartupShaped
    BY <1>2, <1>3, <1>4 DEF StartupInit, StartupShaped
  <1>6. \A p \in Procs : proc[p] = Down /\ ProcessTrue(p, Down) /\ ~ Changes(Down)
    BY DEF StartupInit, Down, ProcessTrue, Migrates, Changes, Past
  <1>7. TornHasBackup /\ EnteredIsStored
    BY <1>2 DEF TornHasBackup, EnteredIsStored, StartupInit, Stored
  <1> QED BY <1>2, <1>3, <1>5, <1>6, <1>7 DEF StartupInv, OneChanges

LEMMA Process_Shape ==
    ASSUME StartupInv, NEW p \in Procs, proc[p].pc # "down"
    PROVE  proc[p] \in Starting /\ ProcessTrue(p, proc[p])
  BY DEF StartupInv, StartupShaped, Down

\* A step of process p alone, which may take the lock or let it go, and after
\* which there may be another user.
LEMMA Process_Keeps ==
    ASSUME StartupInv, NEW p \in Procs, NEW w \in {Down} \cup Starting,
           proc' = [proc EXCEPT ![p] = w],
           UNCHANGED <<db, engine, backups, secret, entered, adminDirectory>>,
           migrating' \in Procs \cup {Free},
           migrating # p => migrating' = migrating \/ migrating = Free,
           accounts \subseteq accounts',
           ProcessTrue(p, w)',
           \A q \in Procs \ {p} : /\ Changes(w) => ~ Past(proc[q])
                                  /\ Past(w) => ~ Changes(proc[q])
    PROVE  StartupInv'
  <1> USE StartupAssumption
  <1>1. \A q \in Procs : proc'[q] = IF q = p THEN w ELSE proc[q]
    BY DEF StartupInv, StartupShaped
  <1>2. StartupShaped'
    BY DEF StartupInv, StartupShaped
  <1>3. ASSUME NEW q \in Procs \ {p} PROVE ProcessTrue(q, proc[q])'
    <2>1. proc'[q] = proc[q] /\ ProcessTrue(q, proc[q])
      BY <1>1 DEF StartupInv
    <2>2. Migrates(proc[q]) => migrating' = q
      BY <2>1 DEF ProcessTrue
    <2>3. \A c : UsableAdmin(c) => UsableAdmin(c)'
      BY DEF UsableAdmin, LocalAdmin
    <2>4. LegacyStamps' = LegacyStamps /\ \A schema : SavedBefore(schema)' = SavedBefore(schema)
      BY DEF LegacyStamps, SavedBefore
    <2> QED BY <2>1, <2>2, <2>3, <2>4 DEF ProcessTrue, Migrates, Past
  <1>4. OneChanges'
    <2>1. ~ (Changes(w) /\ Past(w))
      BY DEF Changes, Past
    <2> QED BY <1>1, <2>1 DEF StartupInv, OneChanges, Changes, Past
  <1>5. \A q \in Procs : ProcessTrue(q, proc[q])'
    BY <1>1, <1>3
  <1>6. VersionTrue(db)' /\ (\A b \in ToSet(backups) : VersionTrue(b.image))'
        /\ TornHasBackup' /\ EnteredIsStored'
    BY DEF StartupInv, VersionTrue, TornHasBackup, EnteredIsStored
  <1> QED BY <1>2, <1>4, <1>5, <1>6 DEF StartupInv

\* The record of a process that goes on.
LEMMA To_Record ==
    ASSUME StartupInv, NEW p \in Procs, NEW place \in Places \ {"down"}, proc[p].pc # "down",
           To(p, place)
    PROVE  \E w \in Starting : /\ proc' = [proc EXCEPT ![p] = w]
                               /\ w.pc = place /\ w.settings = proc[p].settings
                               /\ w.stamp = proc[p].stamp /\ w.tables = proc[p].tables
                               /\ w.read = proc[p].read
  <1> PICK old : old = proc[p]
    OBVIOUS
  <1>1. old \in Starting
    BY Process_Shape
  <1> PICK w : w = [old EXCEPT !.pc = place]
    OBVIOUS
  <1>2. w \in Starting /\ w.pc = place /\ w.settings = old.settings /\ w.stamp = old.stamp
        /\ w.tables = old.tables /\ w.read = old.read
    BY <1>1 DEF Starting
  <1>3. proc' = [proc EXCEPT ![p] = w]
    BY DEF To
  <1> QED BY <1>2, <1>3

\* A process that stops leaves the others as they were.
LEMMA Stop_Keeps_Others ==
    ASSUME StartupInv, NEW p \in Procs, Stops(p),
           UNCHANGED <<db, engine, backups, secret, entered, adminDirectory, accounts>>,
           migrating' = migrating \/ LetGo(p)
    PROVE  StartupInv'
  <1>1. ProcessTrue(p, Down)' /\ ~ Changes(Down) /\ ~ Past(Down)
    BY DEF ProcessTrue, Down, Migrates, Changes, Past
  <1>2. migrating' \in Procs \cup {Free} /\ (migrating # p => migrating' = migrating)
    BY DEF StartupInv, StartupShaped, LetGo
  <1> QED BY <1>1, <1>2, Process_Keeps DEF Stops

LEMMA Start_Keeps ==
    ASSUME StartupInv, NEW p \in Procs, NEW c \in Settings, Start(p, c) PROVE StartupInv'
  <1> USE StartupAssumption
  <1> PICK none : none = [s \in Secrets |-> NoSecret]
    OBVIOUS
  <1> PICK w : w = [pc |-> "wait", settings |-> c, stamp |-> 0, tables |-> FALSE, read |-> none]
    OBVIOUS
  <1>1. none \in SecretRows /\ ValidStartup(c)
    BY DEF SecretRows, StoredSecrets, Start
  <1>2. w \in Starting
    BY <1>1 DEF Starting, Places
  <1>3. ProcessTrue(p, w)' /\ ~ Changes(w) /\ ~ Past(w)
    BY DEF ProcessTrue, Migrates, Changes, Past
  <1>4. proc' = [proc EXCEPT ![p] = w] /\ migrating' = migrating /\ accounts' = accounts
        /\ UNCHANGED <<db, engine, backups, secret, entered, adminDirectory>>
    BY DEF Start
  <1>5. migrating \in Procs \cup {Free}
    BY DEF StartupInv, StartupShaped
  <1> QED BY <1>2, <1>3, <1>4, <1>5, Process_Keeps

LEMMA TakeLock_Keeps ==
    ASSUME StartupInv, NEW p \in Procs, TakeLock(p) PROVE StartupInv'
  <1>1. proc[p].pc = "wait" /\ To(p, "inspect") /\ migrating' = p /\ migrating = Free
    BY DEF TakeLock, At
  <1>2. PICK w \in Starting : proc' = [proc EXCEPT ![p] = w] /\ w.pc = "inspect"
    BY <1>1, To_Record DEF Places
  <1>3. ProcessTrue(p, w)' /\ ~ Changes(w) /\ ~ Past(w)
    BY <1>1, <1>2 DEF ProcessTrue, Migrates, Changes, Past
  <1> QED BY <1>1, <1>2, <1>3, Process_Keeps DEF TakeLock

LEMMA LockTimesOut_Keeps ==
    ASSUME StartupInv, NEW p \in Procs, LockTimesOut(p) PROVE StartupInv'
  BY Stop_Keeps_Others DEF LockTimesOut

LEMMA InspectStops_Keeps ==
    ASSUME StartupInv, NEW p \in Procs, InspectStops(p) PROVE StartupInv'
  BY Stop_Keeps_Others DEF InspectStops

LEMMA BackupFails_Keeps ==
    ASSUME StartupInv, NEW p \in Procs, BackupFails(p) PROVE StartupInv'
  BY Stop_Keeps_Others DEF BackupFails

\* The version says head, so the schema is there, and nobody else changes it.
LEMMA AtHead_Keeps ==
    ASSUME StartupInv, NEW p \in Procs, AtHead(p) PROVE StartupInv'
  <1>1. proc[p].pc = "inspect" /\ To(p, "admin") /\ db.version = HeadRevision
    BY DEF AtHead, At
  <1>2. PICK w \in Starting : proc' = [proc EXCEPT ![p] = w] /\ w.pc = "admin"
    BY <1>1, To_Record DEF Places
  <1>3. db = AtHeadRevision /\ migrating = p
    BY <1>1, Process_Shape DEF StartupInv, VersionTrue, ProcessTrue, Migrates
  <1>4. ProcessTrue(p, w)' /\ ~ Changes(w)
    BY <1>2, <1>3 DEF AtHead, ProcessTrue, Migrates, Changes, Past, AtHeadRevision
  <1>5. \A q \in Procs \ {p} : ~ Changes(proc[q])
    BY <1>3 DEF StartupInv, ProcessTrue, Migrates, Changes
  <1>6. migrating' = Free
    BY <1>3 DEF AtHead, LetGo
  <1> QED BY <1>2, <1>3, <1>4, <1>5, <1>6, Process_Keeps DEF AtHead

\* The version is behind, so nobody serves.
LEMMA Inspect_Keeps ==
    ASSUME StartupInv, NEW p \in Procs, Inspect(p) PROVE StartupInv'
  <1> USE StartupAssumption
  <1> PICK old : old = proc[p]
    OBVIOUS
  <1> PICK stamp \in LegacyStamps :
          proc' = [proc EXCEPT ![p].pc = "backup", ![p].stamp = stamp, ![p].tables = HasTables]
    BY DEF Inspect
  <1> PICK tables : tables = HasTables
    OBVIOUS
  <1> PICK w : w = [old EXCEPT !.pc = "backup", !.stamp = stamp, !.tables = tables]
    OBVIOUS
  <1>1. old.pc = "inspect" /\ db.version < HeadRevision /\ UNCHANGED <<db, migrating>>
    BY DEF Inspect, At
  <1>2. old \in Starting /\ migrating = p
    BY <1>1, Process_Shape DEF ProcessTrue, Migrates
  <1>3. stamp \in 0 .. HeadRevision /\ tables \in BOOLEAN /\ (db.schema > 0 => tables)
    <2>1. db.schema \in 0 .. HeadRevision
      BY DEF StartupInv, StartupShaped, Images
    <2>2. stamp \in 0 .. HeadRevision
      BY <2>1 DEF LegacyStamps
    <2>3. tables \in BOOLEAN
      BY DEF HasTables, StartupInv, StartupShaped, Images
    <2> QED BY <2>2, <2>3 DEF HasTables
  <1>4. w = [pc |-> "backup", settings |-> old.settings, stamp |-> stamp, tables |-> tables,
             read |-> old.read]
    BY <1>2 DEF Starting
  <1>5. w \in Starting
    BY <1>2, <1>3, <1>4 DEF Starting, Places
  <1>6. ProcessTrue(p, w)'
    <2>1. LegacyStamps' = LegacyStamps
      BY <1>1 DEF LegacyStamps
    <2> QED BY <1>1, <1>2, <1>3, <1>4, <2>1 DEF ProcessTrue, Migrates, Past
  <1>7. \A q \in Procs : ~ Past(proc[q])
    <2>1. db # AtHeadRevision
      BY <1>1 DEF AtHeadRevision
    <2> QED BY <2>1 DEF StartupInv, ProcessTrue
  <1>8. ~ Past(w) /\ migrating \in Procs \cup {Free}
    BY <1>4 DEF Past, StartupInv, StartupShaped
  <1>9. proc' = [proc EXCEPT ![p] = w]
    BY <1>2 DEF Starting
  <1> QED BY <1>1, <1>5, <1>6, <1>7, <1>8, <1>9, Process_Keeps DEF Inspect

\* Beside a process that changes the schema the others are down or wait.
LEMMA Others_Wait ==
    ASSUME StartupInv, NEW p \in Procs, Changes(proc[p])
    PROVE  migrating = p /\ \A q \in Procs \ {p} : ~ Migrates(proc[q]) /\ ~ Past(proc[q])
  <1>1. migrating = p
    BY DEF StartupInv, ProcessTrue, Migrates, Changes
  <1> QED BY <1>1 DEF StartupInv, ProcessTrue, OneChanges

LEMMA Schema_Keeps ==
    ASSUME StartupInv, NEW p \in Procs, Changes(proc[p]), NEW w \in {Down} \cup Starting,
           proc' = [proc EXCEPT ![p] = w], ~ Past(w),
           UNCHANGED <<engine, secret, entered, adminDirectory, accounts>>,
           db' \in Images, VersionTrue(db)',
           backups' \in Seq([whole : BOOLEAN, image : Images]),
           \A b \in ToSet(backups') : VersionTrue(b.image),
           TornHasBackup', migrating' \in Procs \cup {Free}, ProcessTrue(p, w)'
    PROVE  StartupInv'
  <1>1. \A q \in Procs : proc'[q] = IF q = p THEN w ELSE proc[q]
    BY DEF StartupInv, StartupShaped
  <1>2. StartupShaped'
    BY DEF StartupInv, StartupShaped
  <1>3. ASSUME NEW q \in Procs \ {p} PROVE ProcessTrue(q, proc[q])' /\ ~ Past(proc[q])'
    BY <1>1, Others_Wait DEF ProcessTrue, Migrates, Past
  <1>4. OneChanges'
    BY <1>1, <1>3 DEF OneChanges
  <1>5. \A q \in Procs : ProcessTrue(q, proc[q])'
    BY <1>1, <1>3
  <1>6. (\A b \in ToSet(backups) : VersionTrue(b.image))' /\ EnteredIsStored'
    BY DEF StartupInv, VersionTrue, EnteredIsStored
  <1> QED BY <1>2, <1>4, <1>5, <1>6 DEF StartupInv

\* Another backup.
LEMMA Append_Backup ==
    ASSUME StartupInv, NEW whole \in BOOLEAN,
           NEW file, file = [whole |-> whole, image |-> db],
           NEW more, more = Append(backups, file)
    PROVE  /\ more \in Seq([whole : BOOLEAN, image : Images])
           /\ ToSet(more) = ToSet(backups) \cup {file}
           /\ \A b \in ToSet(more) : VersionTrue(b.image)
  <1>1. backups \in Seq([whole : BOOLEAN, image : Images]) /\ db \in Images
    BY DEF StartupInv, StartupShaped
  <1>2. file \in [whole : BOOLEAN, image : Images]
    BY <1>1
  <1>3. /\ more \in Seq([whole : BOOLEAN, image : Images])
        /\ Len(more) = Len(backups) + 1 /\ Len(backups) \in Nat
        /\ \A i \in 1 .. Len(backups) : more[i] = backups[i]
        /\ more[Len(backups) + 1] = file
    BY <1>1, <1>2, AppendProperties
  <1>4. ToSet(more) = ToSet(backups) \cup {file}
    <2>1. DOMAIN more = 1 .. Len(backups) + 1 /\ DOMAIN backups = 1 .. Len(backups)
      BY <1>1, <1>3
    <2>2. ASSUME NEW b \in ToSet(more) PROVE b \in ToSet(backups) \cup {file}
      <3>1. PICK i \in DOMAIN more : b = more[i]
        BY DEF ToSet
      <3>2. CASE i = Len(backups) + 1
        BY <1>3, <3>1, <3>2
      <3>3. CASE i \in 1 .. Len(backups)
        BY <1>3, <2>1, <3>1, <3>3 DEF ToSet
      <3> QED BY <1>3, <2>1, <3>2, <3>3
    <2>3. ASSUME NEW b \in ToSet(backups) PROVE b \in ToSet(more)
      <3>1. PICK i \in 1 .. Len(backups) : b = backups[i]
        BY <2>1 DEF ToSet
      <3>2. i \in DOMAIN more /\ b = more[i]
        BY <1>3, <2>1, <3>1
      <3> QED BY <3>2 DEF ToSet
    <2>4. file \in ToSet(more)
      <3>1. Len(backups) + 1 \in DOMAIN more
        BY <1>3, <2>1
      <3> QED BY <1>3, <3>1 DEF ToSet
    <2> QED BY <2>2, <2>3, <2>4
  <1>5. file.image = db
    OBVIOUS
  <1> QED BY <1>3, <1>4, <1>5 DEF StartupInv

\* What was saved stays saved beside another backup.
LEMMA Saved_Stays ==
    ASSUME StartupInv, ToSet(backups) \subseteq ToSet(backups'), NEW schema, SavedBefore(schema)
    PROVE  SavedBefore(schema)'
  BY DEF SavedBefore

LEMMA Torn_Is_Saved == TornHasBackup <=> (db.torn /\ db.schema > 0 => SavedBefore(db.schema))
  BY DEF TornHasBackup, SavedBefore

\* A database with data is saved before it is changed: as it is when it is
\* whole, and by the backup of an earlier start when it is torn.
LEMMA Backup_Keeps ==
    ASSUME StartupInv, NEW p \in Procs, Backup(p) PROVE StartupInv'
  <1> PICK file : file = [whole |-> TRUE, image |-> db]
    OBVIOUS
  <1> PICK more : more = Append(backups, file)
    OBVIOUS
  <1>1. proc[p].pc = "backup" /\ To(p, "stamp") /\ Changes(proc[p]) /\ db' = db
    BY DEF Backup, At, Changes
  <1>2. PICK w \in Starting : /\ proc' = [proc EXCEPT ![p] = w] /\ w.pc = "stamp"
                              /\ w.stamp = proc[p].stamp /\ w.tables = proc[p].tables
    BY <1>1, To_Record DEF Places
  <1>3. /\ migrating = p /\ w.stamp \in LegacyStamps /\ (db.schema > 0 => w.tables)
    BY <1>1, <1>2, Process_Shape DEF ProcessTrue, Migrates
  <1>4. backups' = IF engine = "sqlite" /\ w.tables THEN more ELSE backups
    BY <1>2 DEF Backup
  <1>5. /\ more \in Seq([whole : BOOLEAN, image : Images])
        /\ ToSet(more) = ToSet(backups) \cup {file}
        /\ \A b \in ToSet(more) : VersionTrue(b.image)
    BY Append_Backup
  <1>6. /\ backups' \in Seq([whole : BOOLEAN, image : Images])
        /\ ToSet(backups) \subseteq ToSet(backups')
        /\ \A b \in ToSet(backups') : VersionTrue(b.image)
    BY <1>4, <1>5 DEF StartupInv, StartupShaped
  <1>7. engine = "sqlite" /\ db.schema > 0 => SavedBefore(db.schema)'
    <2> SUFFICES ASSUME engine = "sqlite", db.schema > 0 PROVE SavedBefore(db.schema)'
      OBVIOUS
    <2>1. file \in ToSet(backups')
      BY <1>3, <1>4, <1>5
    <2>2. CASE db.torn
      BY <1>1, <1>6, <2>2, Torn_Is_Saved DEF StartupInv, SavedBefore
    <2>3. CASE ~ db.torn
      BY <1>1, <2>1, <2>3 DEF SavedBefore
    <2>4. db.torn \in BOOLEAN
      BY DEF StartupInv, StartupShaped, Images
    <2> QED BY <2>2, <2>3, <2>4
  <1>8. ProcessTrue(p, w)' /\ ~ Past(w)
    <2>1. LegacyStamps' = LegacyStamps /\ engine' = engine /\ migrating' = migrating
      BY <1>1 DEF LegacyStamps, Backup
    <2> QED BY <1>1, <1>2, <1>3, <1>7, <2>1 DEF ProcessTrue, Migrates, Past
  <1>9. TornHasBackup'
    BY <1>1, <1>6 DEF StartupInv, TornHasBackup
  <1>10. db' \in Images /\ VersionTrue(db)' /\ migrating' \in Procs \cup {Free}
    BY <1>1 DEF StartupInv, StartupShaped, Backup
  <1> QED BY <1>1, <1>2, <1>6, <1>8, <1>9, <1>10, Schema_Keeps DEF Backup

LEMMA Stamp_Keeps ==
    ASSUME StartupInv, NEW p \in Procs, Stamp(p) PROVE StartupInv'
  <1> USE StartupAssumption
  <1>1. proc[p].pc = "stamp" /\ To(p, "upgrade") /\ Changes(proc[p])
    BY DEF Stamp, At, Changes
  <1>2. PICK w \in Starting : proc' = [proc EXCEPT ![p] = w] /\ w.pc = "upgrade"
    BY <1>1, To_Record DEF Places
  <1> PICK stamp : stamp = proc[p].stamp
    OBVIOUS
  <1>3. /\ migrating = p /\ stamp \in LegacyStamps
        /\ engine = "sqlite" /\ db.schema > 0 => SavedBefore(db.schema)
    BY <1>1, Process_Shape DEF ProcessTrue, Migrates
  <1>4. db \in Images /\ VersionTrue(db)
    BY DEF StartupInv, StartupShaped
  <1>5. CASE stamp = 0
    <2>1. db' = db /\ UNCHANGED <<backups, engine, migrating>>
      BY <1>5 DEF Stamp
    <2>2. ProcessTrue(p, w)' /\ ~ Past(w)
      <3>1. db.schema > 0 => db.version > 0
        BY <1>3, <1>4, <1>5 DEF LegacyStamps, Images
      <3> QED BY <1>2, <1>3, <2>1, <3>1 DEF ProcessTrue, Migrates, Past, SavedBefore
    <2> QED BY <1>1, <1>2, <1>4, <2>1, <2>2, Schema_Keeps DEF Stamp, StartupInv, StartupShaped,
               TornHasBackup, VersionTrue
  <1>6. CASE stamp # 0
    <2> PICK d : d = [db EXCEPT !.version = stamp]
      OBVIOUS
    <2>1. /\ stamp \in 1 .. HeadRevision
          /\ stamp = HeadRevision => stamp = db.schema /\ ~ db.torn
      <3>1. db.schema \in 0 .. HeadRevision /\ db.version \in 0 .. HeadRevision + 1
        BY <1>4 DEF Images
      <3>2. CASE db.version > 0
        BY <1>3, <1>6, <3>2 DEF LegacyStamps
      <3>3. CASE db.version = 0 /\ db.schema = 0
        BY <1>3, <1>6, <3>3 DEF LegacyStamps
      <3>4. CASE db.version = 0 /\ db.schema > 0
        BY <1>3, <1>4, <1>6, <3>4 DEF LegacyStamps, VersionTrue
      <3> QED BY <3>1, <3>2, <3>3, <3>4
    <2>2. d = [schema |-> db.schema, version |-> stamp, torn |-> db.torn]
      BY <1>4 DEF Images
    <2>3. d \in Images /\ VersionTrue(d)
      <3>1. d \in Images
        BY <1>4, <2>1, <2>2 DEF Images
      <3>2. d.version # 0 /\ d.version = stamp /\ d.schema = db.schema /\ d.torn = db.torn
        BY <1>6, <2>2
      <3>3. d.version = HeadRevision => d = AtHeadRevision
        BY <1>4, <2>1, <2>2 DEF Images, AtHeadRevision
      <3> QED BY <3>1, <3>2, <3>3 DEF VersionTrue
    <2>4. db' = d /\ UNCHANGED <<backups, engine, migrating>>
      BY <1>6 DEF Stamp
    <2>5. ProcessTrue(p, w)' /\ ~ Past(w)
      BY <1>2, <1>3, <2>1, <2>2, <2>4 DEF ProcessTrue, Migrates, Past, SavedBefore
    <2>6. TornHasBackup'
      BY <2>2, <2>4 DEF TornHasBackup, StartupInv
    <2>7. VersionTrue(db)' /\ migrating \in Procs \cup {Free}
      BY <2>3, <2>4 DEF VersionTrue, StartupInv, StartupShaped
    <2> QED BY <1>1, <1>2, <2>3, <2>4, <2>5, <2>6, <2>7, Schema_Keeps DEF Stamp, StartupInv, StartupShaped
  <1> QED BY <1>5, <1>6

LEMMA Upgrade_Keeps ==
    ASSUME StartupInv, NEW p \in Procs, Upgrade(p) PROVE StartupInv'
  <1> USE StartupAssumption
  <1>1. proc[p].pc = "upgrade" /\ To(p, "prune") /\ Changes(proc[p]) /\ db' = AtHeadRevision
    BY DEF Upgrade, At, Changes, AtHeadRevision
  <1>2. PICK w \in Starting : proc' = [proc EXCEPT ![p] = w] /\ w.pc = "prune"
    BY <1>1, To_Record DEF Places
  <1>3. migrating = p /\ UNCHANGED <<backups, engine, migrating>>
    BY <1>1, Process_Shape DEF ProcessTrue, Migrates, Upgrade
  <1>4. ProcessTrue(p, w)' /\ ~ Past(w)
    BY <1>1, <1>2, <1>3 DEF ProcessTrue, Migrates, Past, AtHeadRevision
  <1>5. db' \in Images /\ VersionTrue(db)' /\ TornHasBackup'
    BY <1>1 DEF Images, VersionTrue, AtHeadRevision, TornHasBackup
  <1>6. migrating' \in Procs \cup {Free} /\ backups' \in Seq([whole : BOOLEAN, image : Images])
        /\ \A b \in ToSet(backups') : VersionTrue(b.image)
    BY <1>3 DEF StartupInv, StartupShaped
  <1> QED BY <1>1, <1>2, <1>4, <1>5, <1>6, Schema_Keeps DEF Upgrade

\* An upgrade that breaks off tears a database of which there is a backup.
LEMMA BrokenOff_Keeps ==
    ASSUME StartupInv, NEW p \in Procs, proc[p].pc = "upgrade", db.version < HeadRevision,
           db' \in BrokenOff, Stops(p), LetGo(p),
           UNCHANGED <<engine, backups, secret, entered, adminDirectory, accounts>>
    PROVE  StartupInv'
  <1> USE StartupAssumption
  <1>1. Changes(proc[p]) /\ db \in Images /\ VersionTrue(db)
    BY DEF Changes, StartupInv, StartupShaped
  <1>2. engine = "sqlite" /\ db.schema > 0 => SavedBefore(db.schema)
    BY Process_Shape DEF ProcessTrue
  <1> PICK torn : torn = [db EXCEPT !.torn = TRUE]
    OBVIOUS
  <1>3. torn = [schema |-> db.schema, version |-> db.version, torn |-> TRUE]
    BY <1>1 DEF Images
  <1>4. db' = db \/ (engine = "sqlite" /\ db' = torn)
    BY DEF BrokenOff
  <1>5. db.schema > 0 => db.version > 0
    BY Process_Shape DEF ProcessTrue
  <1>6. torn \in Images /\ VersionTrue(torn)
    <2>1. torn \in Images
      BY <1>1, <1>3 DEF Images
    <2>2. torn.version = db.version /\ torn.schema = db.schema
      BY <1>3
    <2>3. db.version # HeadRevision /\ db.schema \in Nat /\ db.version \in Nat
      BY <1>1 DEF Images
    <2> QED BY <1>5, <2>1, <2>2, <2>3 DEF VersionTrue
  <1>7. db' \in Images /\ VersionTrue(db)'
    BY <1>1, <1>4, <1>6 DEF VersionTrue
  <1>8. TornHasBackup'
    BY <1>1, <1>2, <1>3, <1>4 DEF TornHasBackup, SavedBefore, StartupInv
  <1>9. ProcessTrue(p, Down)' /\ ~ Past(Down)
    BY DEF ProcessTrue, Down, Migrates, Past
  <1>10. /\ migrating' \in Procs \cup {Free}
         /\ backups' \in Seq([whole : BOOLEAN, image : Images])
         /\ \A b \in ToSet(backups') : VersionTrue(b.image)
    BY DEF StartupInv, StartupShaped, LetGo
  <1> QED BY <1>1, <1>7, <1>8, <1>9, <1>10, Schema_Keeps DEF Stops

\* The end of a sequence holds nothing else.
LEMMA SubSeq_Among ==
    ASSUME NEW S, NEW s \in Seq(S), NEW m \in 1 .. Len(s) + 1
    PROVE  /\ SubSeq(s, m, Len(s)) \in Seq(S)
           /\ ToSet(SubSeq(s, m, Len(s))) \subseteq ToSet(s)
  <1> PICK n \in Nat : n = Len(s)
    BY LenProperties
  <1>1. DOMAIN s = 1 .. n /\ \A i \in m .. n : s[i] \in S
    BY LenProperties
  <1>2. /\ SubSeq(s, m, n) \in Seq(S)
        /\ Len(SubSeq(s, m, n)) = IF m <= n THEN n - m + 1 ELSE 0
        /\ \A i \in 1 .. n - m + 1 : SubSeq(s, m, n)[i] = s[m + i - 1]
    BY <1>1, SubSeqProperties
  <1> PICK t : t = SubSeq(s, m, n)
    OBVIOUS
  <1>3. DOMAIN t = 1 .. n - m + 1
    BY <1>2, LenProperties
  <1>4. ASSUME NEW i \in DOMAIN t PROVE t[i] \in ToSet(s)
    <2>1. m + i - 1 \in DOMAIN s /\ t[i] = s[m + i - 1]
      BY <1>1, <1>2, <1>3
    <2> QED BY <2>1 DEF ToSet
  <1> QED BY <1>2, <1>4 DEF ToSet

\* Old backups go when the schema is at head, where nobody needs one.
LEMMA Prune_Keeps ==
    ASSUME StartupInv, NEW p \in Procs, Prune(p) PROVE StartupInv'
  <1> USE StartupAssumption
  <1>1. proc[p].pc = "prune" /\ To(p, "admin")
        /\ UNCHANGED <<db, engine, accounts, adminDirectory, secret, entered>>
    BY DEF Prune, At
  <1>2. PICK w \in Starting : proc' = [proc EXCEPT ![p] = w] /\ w.pc = "admin"
    BY <1>1, To_Record DEF Places
  <1>3. db = AtHeadRevision /\ migrating = p
    BY <1>1, Process_Shape DEF ProcessTrue, Migrates
  <1>4. migrating' = Free
    BY <1>3 DEF Prune, LetGo
  <1>5. \A q \in Procs : proc'[q] = IF q = p THEN w ELSE proc[q]
    BY <1>2 DEF StartupInv, StartupShaped
  <1>6. \A q \in Procs \ {p} : ~ Migrates(proc[q]) /\ ~ Changes(proc[q])
    BY <1>3 DEF StartupInv, ProcessTrue, Migrates, Changes
  <1>7. /\ backups' \in Seq([whole : BOOLEAN, image : Images])
        /\ ToSet(backups') \subseteq ToSet(backups)
    <2>1. backups \in Seq([whole : BOOLEAN, image : Images])
      BY DEF StartupInv, StartupShaped
    <2>2. CASE backups' = backups
      BY <2>1, <2>2
    <2>3. CASE backups' # backups
      <3> PICK first : first = 1 + (IF Len(backups) > Generations THEN Len(backups) - Generations
                                    ELSE 0)
        OBVIOUS
      <3>1. backups' = SubSeq(backups, first, Len(backups))
        BY <2>3 DEF Prune, KeptBackups
      <3>2. first \in 1 .. Len(backups) + 1 /\ Len(backups) \in Nat
        BY <2>1
      <3> QED BY <2>1, <3>1, <3>2, SubSeq_Among
    <2> QED BY <2>2, <2>3
  <1>8. StartupShaped'
    BY <1>1, <1>2, <1>4, <1>7 DEF StartupInv, StartupShaped
  <1>9. ASSUME NEW q \in Procs PROVE ProcessTrue(q, proc[q])'
    <2>1. CASE q = p
      BY <1>1, <1>2, <1>3, <1>5, <2>1 DEF ProcessTrue, Migrates, Past, AtHeadRevision
    <2>2. CASE q # p
      <3>1. proc'[q] = proc[q] /\ ~ Migrates(proc[q]) /\ ProcessTrue(q, proc[q])
        BY <1>5, <1>6, <2>2 DEF StartupInv
      <3>2. \A c : UsableAdmin(c)' = UsableAdmin(c)
        BY <1>1 DEF UsableAdmin, LocalAdmin
      <3>3. AtHeadRevision' = AtHeadRevision
        BY DEF AtHeadRevision
      <3> QED BY <1>1, <3>1, <3>2, <3>3 DEF ProcessTrue, Migrates
    <2> QED BY <2>1, <2>2
  <1>10. OneChanges'
    BY <1>2, <1>5, <1>6 DEF OneChanges, Changes
  <1>11. TornHasBackup' /\ VersionTrue(db)'
    BY <1>1, <1>3 DEF TornHasBackup, AtHeadRevision, VersionTrue
  <1>12. (\A b \in ToSet(backups) : VersionTrue(b.image))' /\ EnteredIsStored'
    BY <1>1, <1>7 DEF StartupInv, VersionTrue, EnteredIsStored
  <1> QED BY <1>8, <1>9, <1>10, <1>11, <1>12 DEF StartupInv

\* A process past the migration goes on, or stops; an administrator that was
\* there remains.
LEMMA After_Keeps ==
    ASSUME StartupInv, NEW p \in Procs, Past(proc[p]), NEW place \in Places \ {"down"}, To(p, place),
           UNCHANGED <<db, engine, backups, migrating, adminDirectory, secret, entered>>,
           accounts \subseteq accounts',
           place \in {"recheck", "create", "secrets", "encrypt", "serving"},
           NEW c, c = Cfg(p), place = "create" => c.local,
           place \in {"secrets", "encrypt", "serving"} => (c.production => UsableAdmin(c)')
    PROVE  StartupInv'
  <1>1. proc[p].pc # "down" /\ db = AtHeadRevision
    BY Process_Shape DEF Past, ProcessTrue
  <1>2. PICK w \in Starting : /\ proc' = [proc EXCEPT ![p] = w] /\ w.pc = place
                              /\ w.settings = c
    BY <1>1, To_Record DEF Cfg
  <1>3. ProcessTrue(p, w)' /\ ~ Changes(w)
    BY <1>1, <1>2 DEF ProcessTrue, Migrates, Changes, Past, AtHeadRevision
  <1>4. \A q \in Procs \ {p} : ~ Changes(proc[q])
    BY DEF StartupInv, OneChanges
  <1>5. migrating' \in Procs \cup {Free}
    BY DEF StartupInv, StartupShaped
  <1> QED BY <1>2, <1>3, <1>4, <1>5, Process_Keeps

LEMMA EnsureAdmin_Keeps ==
    ASSUME StartupInv, NEW p \in Procs, EnsureAdmin(p) PROVE StartupInv'
  <1> PICK c : c = Cfg(p)
    OBVIOUS
  <1>1. proc[p].pc = "admin" /\ Past(proc[p])
        /\ UNCHANGED <<db, engine, backups, migrating, accounts, adminDirectory, secret, entered>>
    BY DEF EnsureAdmin, At, Past
  <1>2. c \in Settings /\ ValidStartup(c)
    BY <1>1, Process_Shape DEF Cfg, Starting
  <1>3. UsableAdmin(c)' = UsableAdmin(c)
    BY <1>1 DEF UsableAdmin, LocalAdmin
  <1>4. c.production => c.auth
    BY <1>2 DEF ValidStartup
  <1>5. \/ Stops(p)
        \/ To(p, "secrets") /\ (c.production => UsableAdmin(c))
        \/ To(p, "create") /\ c.local
    <2>1. CASE ~ c.auth
      BY <1>4, <2>1 DEF EnsureAdmin
    <2>2. CASE c.auth
      BY <2>2 DEF EnsureAdmin, Reported, UsableAdmin
    <2> QED BY <2>1, <2>2
  <1>6. "secrets" \in Places \ {"down"} /\ "create" \in Places \ {"down"}
    BY DEF Places
  <1> QED BY <1>1, <1>3, <1>5, <1>6, After_Keeps, Stop_Keeps_Others

\* The administrator is there, or somebody has the name.
LEMMA CreateAdmin_Keeps ==
    ASSUME StartupInv, NEW p \in Procs, CreateAdmin(p) PROVE StartupInv'
  <1> PICK c : c = Cfg(p)
    OBVIOUS
  <1>1. proc[p].pc = "create" /\ Past(proc[p])
        /\ UNCHANGED <<db, engine, backups, migrating, adminDirectory, secret, entered>>
        /\ accounts \subseteq accounts'
    BY DEF CreateAdmin, At, Past
  <1>2. c.local
    BY <1>1, Process_Shape DEF ProcessTrue, Cfg
  <1>3. To(p, "recheck") \/ (To(p, "secrets") /\ UsableAdmin(c)')
    <2>1. CASE \E a \in accounts : a.name = AdminName
      BY <2>1 DEF CreateAdmin
    <2>2. CASE ~ \E a \in accounts : a.name = AdminName
      <3> PICK first : first = [name |-> AdminName, admin |-> TRUE]
        OBVIOUS
      <3>1. first.admin
        OBVIOUS
      <3>2. first \in accounts' /\ To(p, "secrets")
        BY <2>2 DEF CreateAdmin
      <3>3. LocalAdmin'
        BY <3>1, <3>2 DEF LocalAdmin
      <3> QED BY <1>2, <3>2, <3>3 DEF UsableAdmin
    <2> QED BY <2>1, <2>2
  <1>4. "secrets" \in Places \ {"down"} /\ "recheck" \in Places \ {"down"}
    BY DEF Places
  <1> QED BY <1>1, <1>2, <1>3, <1>4, After_Keeps

LEMMA Recheck_Keeps ==
    ASSUME StartupInv, NEW p \in Procs, Recheck(p) PROVE StartupInv'
  <1> PICK c : c = Cfg(p)
    OBVIOUS
  <1>1. Past(proc[p])
        /\ UNCHANGED <<db, engine, backups, migrating, accounts, adminDirectory, secret, entered>>
    BY DEF Recheck, At, Past
  <1>2. UsableAdmin(c)' = UsableAdmin(c)
    BY <1>1 DEF UsableAdmin, LocalAdmin
  <1>3. Stops(p) \/ (To(p, "secrets") /\ (c.production => UsableAdmin(c)))
    BY DEF Recheck, Reported
  <1>4. "secrets" \in Places \ {"down"}
    BY DEF Places
  <1> QED BY <1>1, <1>2, <1>3, <1>4, After_Keeps, Stop_Keeps_Others

LEMMA ReadSecrets_Keeps ==
    ASSUME StartupInv, NEW p \in Procs, ReadSecrets(p) PROVE StartupInv'
  <1> PICK old : old = proc[p]
    OBVIOUS
  <1> PICK place : place = IF Cfg(p).key THEN "encrypt" ELSE "serving"
    OBVIOUS
  <1> PICK w : w = [old EXCEPT !.pc = place, !.read = secret]
    OBVIOUS
  <1>1. old.pc = "secrets" /\ Past(old)
        /\ UNCHANGED <<db, engine, backups, migrating, accounts, adminDirectory, secret, entered>>
    BY DEF ReadSecrets, At, Past
  <1>2. old \in Starting /\ db = AtHeadRevision
        /\ (old.settings.production => UsableAdmin(old.settings))
    BY <1>1, Process_Shape DEF ProcessTrue
  <1>3. place \in {"encrypt", "serving"} /\ place \in Places \ {"down"} /\ secret \in SecretRows
    BY DEF Places, StartupInv, StartupShaped
  <1>4. w \in Starting /\ w.pc = place /\ w.settings = old.settings
    BY <1>2, <1>3 DEF Starting
  <1>5. ProcessTrue(p, w)' /\ ~ Changes(w)
    <2>1. UsableAdmin(w.settings)' = UsableAdmin(old.settings)
      BY <1>1, <1>4 DEF UsableAdmin, LocalAdmin
    <2> QED BY <1>1, <1>2, <1>3, <1>4, <2>1 DEF ProcessTrue, Migrates, Changes, Past, AtHeadRevision
  <1>6. \A q \in Procs \ {p} : ~ Changes(proc[q])
    BY <1>1 DEF StartupInv, OneChanges
  <1>7. proc' = [proc EXCEPT ![p] = w] /\ migrating' \in Procs \cup {Free}
    BY <1>1, <1>2 DEF ReadSecrets, StartupInv, StartupShaped, Starting
  <1> QED BY <1>1, <1>4, <1>5, <1>6, <1>7, Process_Keeps

\* A step that changes no more than secrets or users.
LEMMA Users_Keep ==
    ASSUME StartupInv, UNCHANGED <<db, engine, backups, migrating, proc, adminDirectory>>,
           accounts \subseteq accounts', secret' \in SecretRows,
           entered' \in [Secrets -> {NoSecret} \cup 0 .. MaxEntered], EnteredIsStored'
    PROVE  StartupInv'
  <1>1. StartupShaped'
    BY DEF StartupInv, StartupShaped
  <1>2. ASSUME NEW p \in Procs PROVE ProcessTrue(p, proc[p])'
    <2>1. ProcessTrue(p, proc[p]) /\ \A c : UsableAdmin(c) => UsableAdmin(c)'
      BY DEF StartupInv, UsableAdmin, LocalAdmin
    <2>2. LegacyStamps' = LegacyStamps /\ \A schema : SavedBefore(schema)' = SavedBefore(schema)
      BY DEF LegacyStamps, SavedBefore
    <2> QED BY <2>1, <2>2 DEF ProcessTrue
  <1>3. VersionTrue(db)' /\ (\A b \in ToSet(backups) : VersionTrue(b.image))'
        /\ OneChanges' /\ TornHasBackup'
    BY DEF StartupInv, VersionTrue, OneChanges, TornHasBackup
  <1> QED BY <1>1, <1>2, <1>3 DEF StartupInv

LEMMA CreateUser_Keeps ==
    ASSUME StartupInv, NEW name \in Names, NEW right \in BOOLEAN, CreateUser(name, right)
    PROVE  StartupInv'
  <1>1. UNCHANGED <<db, engine, backups, migrating, proc, adminDirectory, secret, entered>>
        /\ accounts \subseteq accounts'
    BY DEF CreateUser
  <1>2. EnteredIsStored'
    BY <1>1 DEF StartupInv, EnteredIsStored
  <1> QED BY <1>1, <1>2, Users_Keep DEF StartupInv, StartupShaped

LEMMA SaveSecret_Keeps ==
    ASSUME StartupInv, NEW p \in Procs, NEW s \in Secrets, SaveSecret(p, s) PROVE StartupInv'
  <1> USE StartupAssumption
  <1> PICK v : v = NextValue(s)
    OBVIOUS
  <1> PICK key : key = Cfg(p).key
    OBVIOUS
  <1> PICK row : row = [value |-> v, encrypted |-> key]
    OBVIOUS
  <1>1. /\ UNCHANGED <<db, engine, backups, migrating, proc, accounts, adminDirectory>>
        /\ entered' = [entered EXCEPT ![s] = v] /\ secret' = [secret EXCEPT ![s] = row]
        /\ v <= MaxEntered /\ proc[p].pc = "serving"
    BY DEF SaveSecret, Stored, At
  <1>2. v \in 0 .. MaxEntered
    <2>1. entered[s] \in {NoSecret} \cup 0 .. MaxEntered
      BY DEF StartupInv, StartupShaped
    <2> QED BY <1>1, <2>1 DEF NextValue
  <1>3. key \in BOOLEAN
    <2>1. Cfg(p) \in Settings
      BY <1>1, Process_Shape DEF Cfg, Starting
    <2> QED BY <2>1
  <1>4. row \in StoredSecrets /\ row.value = v
    BY <1>2, <1>3 DEF StoredSecrets
  <1>5. secret' \in SecretRows /\ entered' \in [Secrets -> {NoSecret} \cup 0 .. MaxEntered]
    BY <1>1, <1>2, <1>4 DEF StartupInv, StartupShaped, SecretRows
  <1>6. EnteredIsStored'
    BY <1>1, <1>2, <1>4 DEF StartupInv, StartupShaped, EnteredIsStored, SecretRows
  <1> QED BY <1>1, <1>5, <1>6, Users_Keep

\* A row is encrypted as it was read, or left alone.
LEMMA EncryptSecrets_Keeps ==
    ASSUME StartupInv, NEW p \in Procs, EncryptSecrets(p) PROVE StartupInv'
  <1> USE StartupAssumption
  <1> PICK old : old = proc[p]
    OBVIOUS
  <1>1. old.pc = "encrypt" /\ To(p, "serving")
        /\ UNCHANGED <<db, engine, backups, migrating, accounts, adminDirectory, entered>>
    BY DEF EncryptSecrets, At
  <1>2. \A s \in Secrets :
           secret'[s] = IF Plain(old.read[s]) /\ secret[s] = old.read[s]
                        THEN Stored(secret[s].value, TRUE) ELSE secret[s]
    BY DEF EncryptSecrets
  <1>3. ASSUME NEW s \in Secrets
        PROVE  /\ secret'[s] \in StoredSecrets
               /\ secret'[s] # secret[s] => secret[s] # NoSecret /\ secret'[s].value = secret[s].value
    <2>1. secret[s] \in StoredSecrets
      BY DEF StartupInv, StartupShaped, SecretRows
    <2>2. CASE Plain(old.read[s]) /\ secret[s] = old.read[s]
      <3>1. secret[s] # NoSecret /\ secret[s].value \in 0 .. MaxEntered
        BY <2>1, <2>2 DEF Plain, StoredSecrets
      <3> PICK v : v = secret[s].value
        OBVIOUS
      <3> PICK row : row = [value |-> v, encrypted |-> TRUE]
        OBVIOUS
      <3>2. secret'[s] = row
        BY <1>2, <2>2 DEF Stored
      <3>3. row \in StoredSecrets /\ row.value = v
        BY <3>1 DEF StoredSecrets
      <3> QED BY <3>1, <3>2, <3>3
    <2>3. CASE ~ (Plain(old.read[s]) /\ secret[s] = old.read[s])
      BY <1>2, <2>1, <2>3
    <2> QED BY <2>2, <2>3
  <1>4. secret' \in SecretRows
    <2>1. secret' = [s \in Secrets |-> secret'[s]]
      BY DEF EncryptSecrets
    <2> QED BY <1>3, <2>1 DEF SecretRows
  <1>5. EnteredIsStored'
    BY <1>1, <1>3 DEF StartupInv, EnteredIsStored
  <1>6. PICK w \in Starting : /\ proc' = [proc EXCEPT ![p] = w] /\ w.pc = "serving"
                              /\ w.settings = old.settings
    BY <1>1, To_Record DEF Places
  <1>7. \A q \in Procs : proc'[q] = IF q = p THEN w ELSE proc[q]
    BY <1>6 DEF StartupInv, StartupShaped
  <1>8. StartupShaped'
    BY <1>1, <1>4, <1>6 DEF StartupInv, StartupShaped
  <1>9. ASSUME NEW q \in Procs PROVE ProcessTrue(q, proc[q])'
    <2>1. /\ LegacyStamps' = LegacyStamps /\ \A schema : SavedBefore(schema)' = SavedBefore(schema)
          /\ \A c : UsableAdmin(c)' = UsableAdmin(c)
      BY <1>1 DEF LegacyStamps, SavedBefore, UsableAdmin, LocalAdmin
    <2>2. CASE q = p
      <3>1. ProcessTrue(p, old)
        BY DEF StartupInv
      <3> QED BY <1>1, <1>6, <1>7, <2>1, <2>2, <3>1
              DEF ProcessTrue, Migrates, Past, AtHeadRevision
    <2>3. CASE q # p
      BY <1>1, <1>7, <2>1, <2>3 DEF StartupInv, ProcessTrue, AtHeadRevision
    <2> QED BY <2>2, <2>3
  <1>10. OneChanges'
    <2>1. Past(old) /\ ~ Changes(w)
      BY <1>1, <1>6 DEF Past, Changes
    <2> QED BY <1>7, <2>1 DEF StartupInv, OneChanges
  <1>11. VersionTrue(db)' /\ (\A b \in ToSet(backups) : VersionTrue(b.image))' /\ TornHasBackup'
    BY <1>1 DEF StartupInv, VersionTrue, TornHasBackup
  <1> QED BY <1>5, <1>8, <1>9, <1>10, <1>11 DEF StartupInv

\* A process that dies.
LEMMA Crash_Keeps ==
    ASSUME StartupInv, NEW p \in Procs, Crash(p) PROVE StartupInv'
  <1>1. /\ Stops(p) /\ LetGo(p)
        /\ UNCHANGED <<engine, accounts, adminDirectory, secret, entered>>
    BY DEF Crash
  <1>2. CASE UNCHANGED <<db, backups>>
    BY <1>1, <1>2, Stop_Keeps_Others
  <1>3. CASE At(p, "upgrade") /\ db.version < HeadRevision /\ db' \in BrokenOff /\ UNCHANGED backups
    BY <1>1, <1>3, BrokenOff_Keeps DEF At
  <1>4. CASE /\ At(p, "backup")
             /\ backups' = Append(backups, [whole |-> FALSE, image |-> db]) /\ UNCHANGED db
    <2> PICK file : file = [whole |-> FALSE, image |-> db]
      OBVIOUS
    <2> PICK more : more = Append(backups, file)
      OBVIOUS
    <2>1. backups' = more /\ Changes(proc[p])
      BY <1>4 DEF At, Changes
    <2>2. /\ more \in Seq([whole : BOOLEAN, image : Images])
          /\ ToSet(more) = ToSet(backups) \cup {file}
          /\ \A b \in ToSet(more) : VersionTrue(b.image)
      BY Append_Backup
    <2>3. TornHasBackup'
      BY <1>4, <2>1, <2>2 DEF TornHasBackup, StartupInv
    <2>4. ProcessTrue(p, Down)' /\ ~ Past(Down)
      BY DEF ProcessTrue, Down, Migrates, Past
    <2>5. db' \in Images /\ VersionTrue(db)' /\ migrating' \in Procs \cup {Free}
      BY <1>1, <1>4 DEF StartupInv, StartupShaped, LetGo, VersionTrue
    <2> QED BY <1>1, <2>1, <2>2, <2>3, <2>4, <2>5, Schema_Keeps DEF Stops
  <1> QED BY <1>2, <1>3, <1>4 DEF Crash

\* The operator's backup is whole, and nobody is up.
LEMMA Restore_Keeps ==
    ASSUME StartupInv, NEW b \in ToSet(backups), Restore(b) PROVE StartupInv'
  <1>1. /\ UNCHANGED <<engine, backups, migrating, proc, accounts, adminDirectory, secret, entered>>
        /\ db' = b.image /\ ~ b.image.torn /\ \A p \in Procs : proc[p].pc = "down"
    BY DEF Restore, At
  <1>2. b \in [whole : BOOLEAN, image : Images]
    <2>1. backups \in Seq([whole : BOOLEAN, image : Images])
      BY DEF StartupInv, StartupShaped
    <2>2. PICK i \in DOMAIN backups : b = backups[i]
      BY DEF ToSet
    <2> QED BY <2>1, <2>2, LenProperties, ElementOfSeq
  <1>3. StartupShaped'
    BY <1>1, <1>2 DEF StartupInv, StartupShaped
  <1>4. \A p \in Procs : ProcessTrue(p, proc[p])' /\ ~ Changes(proc[p])'
    BY <1>1 DEF ProcessTrue, Migrates, Past, Changes
  <1>5. VersionTrue(db)' /\ TornHasBackup'
    BY <1>1 DEF StartupInv, VersionTrue, TornHasBackup
  <1>6. (\A x \in ToSet(backups) : VersionTrue(x.image))' /\ EnteredIsStored' /\ OneChanges'
    BY <1>1, <1>4 DEF StartupInv, VersionTrue, EnteredIsStored, OneChanges
  <1> QED BY <1>3, <1>4, <1>5, <1>6 DEF StartupInv

LEMMA StartupInv_Always == StartupSpec => []StartupInv
  <1>1. StartupInv /\ [StartupNext]_startupVars => StartupInv'
    <2> SUFFICES ASSUME StartupInv, [StartupNext]_startupVars PROVE StartupInv'
      OBVIOUS
    <2>1. CASE UNCHANGED startupVars
      <3>1. EnteredIsStored'
        BY <2>1 DEF startupVars, StartupInv, EnteredIsStored
      <3> QED BY <2>1, <3>1, Users_Keep DEF startupVars, StartupInv, StartupShaped
    <2>2. ASSUME NEW p \in Procs, MigrationStep(p) PROVE StartupInv'
      BY <2>2, TakeLock_Keeps, LockTimesOut_Keeps, AtHead_Keeps, Inspect_Keeps, InspectStops_Keeps,
         Backup_Keeps, BackupFails_Keeps, Stamp_Keeps, Upgrade_Keeps, Prune_Keeps, BrokenOff_Keeps
      DEF MigrationStep, UpgradeFails, At
    <2>3. ASSUME NEW p \in Procs, AfterMigration(p) PROVE StartupInv'
      BY <2>3, EnsureAdmin_Keeps, CreateAdmin_Keeps, Recheck_Keeps, ReadSecrets_Keeps,
         EncryptSecrets_Keeps
      DEF AfterMigration
    <2> QED BY <2>1, <2>2, <2>3, Start_Keeps, Crash_Keeps, SaveSecret_Keeps, CreateUser_Keeps,
               Restore_Keeps
            DEF StartupNext
  <1> QED BY <1>1, StartupInv_Init, PTL DEF StartupSpec

\* StartupSafe: whatever processes start, die and start again on one database, a
\* process that is past the migration has the schema at head, a database that an
\* upgrade tore has a whole backup, and no password that was saved comes back.
THEOREM StartupAlwaysSafe == StartupSpec => []StartupSafe
  BY StartupInv_Always, StartupInv_Safe, PTL

\* ServingHasAdmin: a production process serves only when somebody can log in as
\* administrator, whatever other processes and the command line create meanwhile.
THEOREM ServingAlwaysHasAdmin == StartupSpec => []ServingHasAdmin
  BY StartupInv_Always, StartupInv_Safe, PTL


-----------------------------------------------------------------------------
(* Logins through directories.                                              *)

\* A saved directory, and the user of one.
EntryShape ==
    [enabled : BOOLEAN, secure : BOOLEAN, attribute : Attributes, secret : BOOLEAN,
     mapping : [Groups -> {"none", "viewer", "admin"}], version : 1 .. MaxSaves]
UserRows == [role : {"admin", "viewer"}, active : BOOLEAN]
LoginShapes ==
    {NoLogin} \cup [pc : {"asking"}, dir : Dirs, account : Accounts, spec : EntryShape]
              \cup [pc : {"known", "written", "checked"}, dir : Dirs, account : Accounts,
                    spec : EntryShape, role : {"admin", "viewer"}]
EditShapes ==
    {NoEdit} \cup [pc : {"verify", "save"}, dir : Dirs, read : EntryShape, draft : Configurations,
                   via : Dirs \cup {Nobody}, verified : {Nobody} \cup Subjects]

DirectoryShaped ==
    /\ config \in [Dirs -> {Nobody} \cup EntryShape]
    /\ users \in [Dirs -> [Subjects -> {Nobody} \cup UserRows]]
    /\ sessions \subseteq [dir : Dirs, subject : Subjects, role : {"admin", "viewer"}, basis : EntryShape]
    /\ localAdmins \in 0 .. 1 /\ saves \in 0 .. MaxSaves
    /\ login \in [Logins -> LoginShapes] /\ edit \in [Editors -> EditShapes]
    /\ strict \in BOOLEAN /\ tightened \in BOOLEAN

\* A version names one configuration of a directory, and who has locked it has it.
LoginTrue(l) ==
    l.pc # "idle" =>
        /\ l.spec.version <= saves
        /\ config[l.dir] # Nobody /\ config[l.dir].version = l.spec.version => config[l.dir] = l.spec
        /\ l.pc = "checked" => config[l.dir] # Nobody /\ config[l.dir] = l.spec

VersionsPast == \A d \in Dirs : config[d] # Nobody => config[d].version <= saves

SameTerms(c, b) == c.secure = b.secure /\ c.attribute = b.attribute /\ c.mapping = b.mapping

\* A session is of a directory and a user that are there, on their terms.
SessionTrue(s) ==
    /\ config[s.dir] # Nobody /\ SameTerms(config[s.dir], s.basis)
    /\ users[s.dir][s.subject] # Nobody /\ users[s.dir][s.subject].role = s.role

\* The users of a directory are named by its attribute.
UsersNamed ==
    \A d \in Dirs, x \in Subjects :
        users[d][x] # Nobody => config[d] # Nobody /\ config[d].attribute = x[1]

AdminLeft == tightened \/ localAdmins > 0 \/ AdminDirectories # {}

DirectoryInv ==
    /\ DirectoryShaped /\ VersionsPast
    /\ \A p \in Logins : LoginTrue(login[p])
    /\ \A s \in sessions : SessionTrue(s)
    /\ UsersNamed
    /\ \A e \in Editors : edit[e].pc # "idle" => AllowedBySecurity(edit[e].draft)
    /\ AdminLeft

-----------------------------------------------------------------------------
LEMMA WithVersionFacts ==
    ASSUME NEW c \in Configurations, NEW v \in 1 .. MaxSaves
    PROVE  /\ WithVersion(c, v) \in EntryShape /\ WithVersion(c, v) # Nobody
           /\ WithVersion(c, v).version = v /\ WithVersion(c, v).enabled = c.enabled
           /\ SameTerms(WithVersion(c, v), c)
           /\ c \in [enabled : BOOLEAN, secure : BOOLEAN, attribute : Attributes, secret : BOOLEAN,
                     mapping : [Groups -> {"none", "viewer", "admin"}]]
  <1> PICK Roles : Roles = [Groups -> {"none", "viewer", "admin"}]
    OBVIOUS
  <1> PICK named : named = c.attribute
    OBVIOUS
  <1>1. /\ c \in [enabled : BOOLEAN, secure : BOOLEAN, attribute : {named}, secret : BOOLEAN,
                  mapping : Roles]
        /\ Nobody \notin [enabled : BOOLEAN, secure : BOOLEAN, attribute : {named}, secret : BOOLEAN,
                          mapping : Roles, version : 1 .. MaxSaves]
    BY DirectoryAssumption
  <1>2. named \in Attributes
    BY DEF Attributes
  <1> PICK r : r = [enabled |-> c.enabled, secure |-> c.secure, attribute |-> c.attribute,
                    secret |-> c.secret, mapping |-> c.mapping, version |-> v]
    OBVIOUS
  <1>3. WithVersion(c, v) = r
    BY <1>1 DEF WithVersion
  <1>4. r \in [enabled : BOOLEAN, secure : BOOLEAN, attribute : {named}, secret : BOOLEAN,
               mapping : Roles, version : 1 .. MaxSaves]
    BY <1>1
  <1> QED BY <1>1, <1>2, <1>3, <1>4 DEF EntryShape, SameTerms

LEMMA TermsSame ==
    ASSUME NEW c, NEW b PROVE IdentityChanged(c, b) <=> ~ SameTerms(c, b)
  BY DEF IdentityChanged, SameTerms

\* Sources of administrators beside one directory.
LEMMA OtherSources ==
    ASSUME DirectoryShaped, NEW d
    PROVE  /\ OtherAdminSources(d) \in Nat
           /\ OtherAdminSources(d) # 0 => localAdmins > 0 \/ AdminDirectories \ {d} # {}
  <1>1. IsFiniteSet(AdminDirectories \ {d})
    BY DirectoryAssumption, FS_Subset DEF AdminDirectories
  <1>2. /\ Cardinality(AdminDirectories \ {d}) \in Nat
        /\ AdminDirectories \ {d} = {} => Cardinality(AdminDirectories \ {d}) = 0
    BY <1>1, FS_CardinalityType, FS_EmptySet
  <1>3. localAdmins \in Nat
    BY DEF DirectoryShaped
  <1> QED BY <1>2, <1>3 DEF OtherAdminSources

LEMMA AdminSources ==
    ASSUME DirectoryShaped
    PROVE  /\ Cardinality(AdminDirectories) \in Nat
           /\ Cardinality(AdminDirectories) > 0 <=> AdminDirectories # {}
  <1>1. IsFiniteSet(AdminDirectories)
    BY DirectoryAssumption, FS_Subset DEF AdminDirectories
  <1> QED BY <1>1, FS_CardinalityType, FS_EmptySet

LEMMA DirectoryInv_Holds ==
    DirectoryInv => SessionsOnPresentTerms /\ AdminSourceRemains /\ OneRowPerAccount
  <1> SUFFICES ASSUME DirectoryInv PROVE SessionsOnPresentTerms /\ AdminSourceRemains /\ OneRowPerAccount
    OBVIOUS
  <1>1. SessionsOnPresentTerms
    BY TermsSame DEF DirectoryInv, SessionTrue, SessionsOnPresentTerms
  <1>2. AdminSourceRemains
    <2>1. localAdmins \in Nat
      BY DEF DirectoryInv, DirectoryShaped
    <2> QED BY <2>1, AdminSources DEF DirectoryInv, AdminLeft, AdminSourceRemains
  <1>3. ASSUME NEW d \in Dirs, NEW a \in Accounts
        PROVE  Cardinality({t \in Attributes : users[d][<<t, a>>] # Nobody}) <= 1
    <2> PICK T : T = {t \in Attributes : users[d][<<t, a>>] # Nobody}
      OBVIOUS
    <2>1. \A t \in T : t = config[d].attribute
      BY DEF DirectoryInv, UsersNamed, Subjects
    <2>2. T = {} \/ T = {config[d].attribute}
      BY <2>1
    <2>3. Cardinality(T) <= 1
      <3>1. CASE T = {}
        <4>1. Cardinality(T) = 0
          BY <3>1, FS_EmptySet
        <4> QED BY <4>1
      <3>2. CASE T = {config[d].attribute}
        <4>1. Cardinality(T) = 1
          BY <3>2, FS_Singleton
        <4> QED BY <4>1
      <3> QED BY <2>2, <3>1, <3>2
    <2> QED BY <2>3
  <1> QED BY <1>1, <1>2, <1>3 DEF OneRowPerAccount

LEMMA DirectoryInv_Init == DirectoryInit => DirectoryInv
  <1> SUFFICES ASSUME DirectoryInit PROVE DirectoryInv
    OBVIOUS
  <1>1. DirectoryShaped
    <2>1. users \in [Dirs -> [Subjects -> {Nobody} \cup UserRows]]
      <3>1. [x \in Subjects |-> Nobody] \in [Subjects -> {Nobody} \cup UserRows]
        OBVIOUS
      <3> QED BY <3>1 DEF DirectoryInit
    <2>2. config \in [Dirs -> {Nobody} \cup EntryShape]
      BY DEF DirectoryInit
    <2>3. localAdmins \in 0 .. 1 /\ saves \in 0 .. MaxSaves
      BY DirectoryAssumption DEF DirectoryInit
    <2>4. login \in [Logins -> LoginShapes] /\ edit \in [Editors -> EditShapes]
      BY DEF DirectoryInit, LoginShapes, EditShapes
    <2> QED BY <2>1, <2>2, <2>3, <2>4 DEF DirectoryInit, DirectoryShaped
  <1>2. NoLogin.pc = "idle" /\ NoEdit.pc = "idle"
    BY DEF NoLogin, NoEdit
  <1> QED BY <1>1, <1>2 DEF DirectoryInit, DirectoryInv, VersionsPast, LoginTrue, UsersNamed, AdminLeft

-----------------------------------------------------------------------------
\* A step of a login before its end.
LEMMA LoginIs_Keeps ==
    ASSUME DirectoryInv, NEW p \in Logins, NEW w \in LoginShapes, LoginTrue(w), LoginIs(p, w),
           UNCHANGED <<config, users, sessions, localAdmins, strict, edit, saves, tightened>>
    PROVE  DirectoryInv'
  <1>1. login' = [login EXCEPT ![p] = w]
    BY DEF LoginIs
  <1>2. login' \in [Logins -> LoginShapes] /\ \A q \in Logins : login'[q] = IF q = p THEN w ELSE login[q]
    BY <1>1 DEF DirectoryInv, DirectoryShaped
  <1>3. \A q \in Logins : LoginTrue(login'[q])
    BY <1>2 DEF DirectoryInv
  <1>4. (\A q \in Logins : LoginTrue(login[q]))'
    BY <1>3 DEF LoginTrue
  <1>5. AdminLeft'
    BY DEF DirectoryInv, AdminLeft, AdminDirectories, DirectoryUsable, AllowedBySecurity
  <1> QED BY <1>2, <1>4, <1>5 DEF DirectoryInv, DirectoryShaped, VersionsPast, SessionTrue, UsersNamed,
                                  AllowedBySecurity

LEMMA NoLoginTrue == LoginTrue(NoLogin) /\ NoLogin \in LoginShapes
  BY DEF LoginTrue, NoLogin, LoginShapes

LEMMA LoginStep_Keeps ==
    ASSUME DirectoryInv, NEW p \in Logins,
           \/ \E d \in Dirs, a \in Accounts : LoadDirectory(p, d, a)
           \/ LdapAnswers(p) \/ UpsertDirectoryUser(p) \/ RecheckConfiguration(p) \/ LoginFails(p)
    PROVE  DirectoryInv'
  <1> PICK l : l = login[p]
    OBVIOUS
  <1>1. l \in LoginShapes /\ LoginTrue(l)
    BY DEF DirectoryInv, DirectoryShaped
  <1>2. ASSUME NEW d \in Dirs, NEW a \in Accounts, LoadDirectory(p, d, a) PROVE DirectoryInv'
    <2> PICK w : w = [pc |-> "asking", dir |-> d, account |-> a, spec |-> config[d]]
      OBVIOUS
    <2>1. /\ config[d] # Nobody /\ LoginIs(p, w)
          /\ UNCHANGED <<config, users, sessions, localAdmins, strict, edit, saves, tightened>>
      BY <1>2 DEF LoadDirectory
    <2>2. w \in LoginShapes
      BY <2>1 DEF DirectoryInv, DirectoryShaped, LoginShapes
    <2>3. LoginTrue(w)
      BY <2>1 DEF DirectoryInv, VersionsPast, LoginTrue
    <2> QED BY <2>1, <2>2, <2>3, LoginIs_Keeps
  <1>3. CASE LdapAnswers(p)
    <2> PICK role : role = ResolveRole(l.spec, l.account)
      OBVIOUS
    <2> PICK w : w = [pc |-> "known", dir |-> l.dir, account |-> l.account, spec |-> l.spec, role |-> role]
      OBVIOUS
    <2>1. /\ l.pc = "asking" /\ role # "none" /\ LoginIs(p, w)
          /\ UNCHANGED <<config, users, sessions, localAdmins, strict, edit, saves, tightened>>
      BY <1>3 DEF LdapAnswers, MayAuthenticate
    <2>2. role \in {"admin", "viewer"}
      BY <2>1 DEF ResolveRole
    <2>3. w \in LoginShapes
      BY <1>1, <2>1, <2>2 DEF LoginShapes, NoLogin
    <2>4. LoginTrue(w)
      BY <1>1, <2>1 DEF LoginTrue
    <2> QED BY <2>1, <2>3, <2>4, LoginIs_Keeps
  <1>4. CASE LoginFails(p)
    BY <1>4, NoLoginTrue, LoginIs_Keeps DEF LoginFails, Refuse
  <1> DEFINE at(place) == [pc |-> place, dir |-> l.dir, account |-> l.account, spec |-> l.spec,
                           role |-> l.role]
  <1>5. CASE UpsertDirectoryUser(p)
    <2>1. /\ l.pc = "known"
          /\ UNCHANGED <<config, users, sessions, localAdmins, strict, edit, saves, tightened>>
          /\ Refuse(p) \/ LoginIs(p, [l EXCEPT !.pc = "written"])
      BY <1>5 DEF UpsertDirectoryUser
    <2> PICK w : w = at("written")
      OBVIOUS
    <2>2. [l EXCEPT !.pc = "written"] = w /\ w \in LoginShapes
      BY <1>1, <2>1 DEF LoginShapes, NoLogin
    <2>3. LoginTrue(w)
      BY <1>1, <2>1 DEF LoginTrue
    <2> QED BY <2>1, <2>2, <2>3, NoLoginTrue, LoginIs_Keeps DEF Refuse
  <1>6. CASE RecheckConfiguration(p)
    <2>1. /\ l.pc = "written"
          /\ UNCHANGED <<config, users, sessions, localAdmins, strict, edit, saves, tightened>>
          /\ Refuse(p) \/ (LoginIs(p, [l EXCEPT !.pc = "checked"]) /\ StillTheConfiguration(l))
      BY <1>6 DEF RecheckConfiguration
    <2> PICK w : w = at("checked")
      OBVIOUS
    <2>2. [l EXCEPT !.pc = "checked"] = w /\ w \in LoginShapes
      BY <1>1, <2>1 DEF LoginShapes, NoLogin
    <2>3. StillTheConfiguration(l) => LoginTrue(w)
      BY <1>1, <2>1 DEF LoginTrue, StillTheConfiguration
    <2> QED BY <2>1, <2>2, <2>3, NoLoginTrue, LoginIs_Keeps DEF Refuse
  <1> QED BY <1>2, <1>3, <1>4, <1>5, <1>6

\* The end of a login: what the user was granted is what the directory says now.
LEMMA EnterWithSession_Keeps ==
    ASSUME DirectoryInv, NEW p \in Logins, EnterWithSession(p) PROVE DirectoryInv'
  <1> PICK l : l = login[p]
    OBVIOUS
  <1> PICK d : d = l.dir
    OBVIOUS
  <1> PICK x : x = Subject(l)
    OBVIOUS
  <1> PICK u : u = users[d][x]
    OBVIOUS
  <1> PICK ended : ended = IF u # Nobody /\ u.role # l.role THEN SessionsOf(d, x) ELSE {}
    OBVIOUS
  <1> PICK row : row = [role |-> l.role, active |-> TRUE]
    OBVIOUS
  <1> PICK new : new = [dir |-> d, subject |-> x, role |-> l.role, basis |-> l.spec]
    OBVIOUS
  <1>1. /\ l.pc = "checked"
        /\ users' = [users EXCEPT ![d][x] = row]
        /\ sessions' = (sessions \ ended) \cup {new}
        /\ login' = [login EXCEPT ![p] = NoLogin]
        /\ UNCHANGED <<config, localAdmins, strict, edit, saves, tightened>>
    BY DEF EnterWithSession, Refuse, LoginIs
  <1>2. l \in LoginShapes /\ LoginTrue(l)
    BY DEF DirectoryInv, DirectoryShaped
  <1>3. /\ d \in Dirs /\ l.account \in Accounts /\ l.spec \in EntryShape /\ l.role \in {"admin", "viewer"}
        /\ config[d] # Nobody /\ config[d] = l.spec
    BY <1>1, <1>2 DEF LoginShapes, NoLogin, LoginTrue
  <1>4. x \in Subjects /\ x[1] = l.spec.attribute
    BY <1>3 DEF Subject, UniqueId, Subjects, EntryShape
  <1>5. row \in UserRows /\ row # Nobody /\ row.role = l.role
    <2>1. row \in UserRows /\ row.role = l.role
      BY <1>3 DEF UserRows
    <2>2. Nobody \notin UserRows
      BY DirectoryAssumption DEF UserRows
    <2> QED BY <2>1, <2>2
  <1>6. users \in [Dirs -> [Subjects -> {Nobody} \cup UserRows]]
    BY DEF DirectoryInv, DirectoryShaped
  <1>7. /\ users' \in [Dirs -> [Subjects -> {Nobody} \cup UserRows]]
        /\ \A e \in Dirs, y \in Subjects :
              users'[e][y] = IF e = d /\ y = x THEN row ELSE users[e][y]
    BY <1>1, <1>3, <1>4, <1>5, <1>6
  <1>8. new \in [dir : Dirs, subject : Subjects, role : {"admin", "viewer"}, basis : EntryShape]
    BY <1>3, <1>4
  <1>9. login' \in [Logins -> LoginShapes] /\ \A q \in Logins : login'[q] = IF q = p THEN NoLogin ELSE login[q]
    BY <1>1, NoLoginTrue DEF DirectoryInv, DirectoryShaped
  <1>10. DirectoryShaped'
    BY <1>1, <1>7, <1>8, <1>9 DEF DirectoryInv, DirectoryShaped
  <1>11. (\A q \in Logins : LoginTrue(login[q]))'
    <2>1. \A q \in Logins : LoginTrue(login'[q])
      BY <1>9, NoLoginTrue DEF DirectoryInv
    <2> QED BY <1>1, <2>1 DEF LoginTrue
  <1>12. ASSUME NEW s \in sessions' PROVE SessionTrue(s)'
    <2>1. CASE s = new
      <3>1. s.dir = d /\ s.subject = x /\ s.role = l.role /\ s.basis = l.spec
        BY <2>1
      <3> QED BY <1>1, <1>3, <1>4, <1>5, <1>7, <3>1 DEF SessionTrue, SameTerms
    <2>2. CASE s \in sessions \ ended
      <3>1. /\ s.dir \in Dirs /\ s.subject \in Subjects /\ SessionTrue(s)
        BY <2>2 DEF DirectoryInv, DirectoryShaped
      <3>2. CASE s.dir = d /\ s.subject = x
        <4>1. u # Nobody /\ u.role = s.role
          BY <3>1, <3>2 DEF SessionTrue
        <4>2. u.role = l.role
          BY <2>2, <3>2, <4>1 DEF SessionsOf
        <4>3. users'[s.dir][s.subject] = row
          BY <1>3, <1>4, <1>7, <3>2
        <4> QED BY <1>1, <1>5, <3>1, <4>1, <4>2, <4>3 DEF SessionTrue
      <3>3. CASE ~ (s.dir = d /\ s.subject = x)
        <4>1. users'[s.dir][s.subject] = users[s.dir][s.subject]
          BY <1>7, <3>1, <3>3
        <4> QED BY <1>1, <3>1, <4>1 DEF SessionTrue
      <3> QED BY <3>2, <3>3
    <2> QED BY <1>1, <2>1, <2>2
  <1>13. UsersNamed'
    <2> SUFFICES ASSUME NEW e \in Dirs, NEW y \in Subjects, users'[e][y] # Nobody
                 PROVE  config[e] # Nobody /\ config[e].attribute = y[1]
      BY <1>1 DEF UsersNamed
    <2>1. CASE e = d /\ y = x
      BY <1>3, <1>4, <2>1
    <2>2. CASE ~ (e = d /\ y = x)
      BY <1>7, <2>2 DEF DirectoryInv, UsersNamed
    <2> QED BY <2>1, <2>2
  <1>14. AdminLeft'
    BY <1>1 DEF DirectoryInv, AdminLeft, AdminDirectories, DirectoryUsable, AllowedBySecurity
  <1> QED BY <1>1, <1>10, <1>11, <1>12, <1>13, <1>14 DEF DirectoryInv, VersionsPast, AllowedBySecurity

\* A session is thrown away.
LEMMA UseSession_Keeps ==
    ASSUME DirectoryInv, NEW s \in sessions, UseSession(s) PROVE DirectoryInv'
  <1>1. sessions' \subseteq sessions
        /\ UNCHANGED <<config, users, localAdmins, strict, login, edit, saves, tightened>>
    BY DEF UseSession
  <1>2. AdminLeft'
    BY <1>1 DEF DirectoryInv, AdminLeft, AdminDirectories, DirectoryUsable, AllowedBySecurity
  <1> QED BY <1>1, <1>2 DEF DirectoryInv, DirectoryShaped, VersionsPast, LoginTrue, SessionTrue, UsersNamed,
                            AllowedBySecurity

\* A step of a change before its save.
LEMMA EditIs_Keeps ==
    ASSUME DirectoryInv, NEW e \in Editors, NEW w \in EditShapes,
           w.pc # "idle" => AllowedBySecurity(w.draft), edit' = [edit EXCEPT ![e] = w],
           UNCHANGED <<config, users, sessions, localAdmins, strict, login, saves, tightened>>
    PROVE  DirectoryInv'
  <1>1. edit' \in [Editors -> EditShapes] /\ \A f \in Editors : edit'[f] = IF f = e THEN w ELSE edit[f]
    BY DEF DirectoryInv, DirectoryShaped
  <1>2. (\A f \in Editors : edit[f].pc # "idle" => AllowedBySecurity(edit[f].draft))'
    BY <1>1 DEF DirectoryInv, AllowedBySecurity
  <1>3. AdminLeft'
    BY DEF DirectoryInv, AdminLeft, AdminDirectories, DirectoryUsable, AllowedBySecurity
  <1> QED BY <1>1, <1>2, <1>3 DEF DirectoryInv, DirectoryShaped, VersionsPast, LoginTrue, SessionTrue, UsersNamed

LEMMA EditStep_Keeps ==
    ASSUME DirectoryInv, NEW e \in Editors,
           \/ \E d \in Dirs, c \in Configurations, via \in Dirs \cup {Nobody} : DraftChange(e, d, c, via)
           \/ \E a \in Accounts : VerifyAdmin(e, a)
           \/ EditFails(e)
    PROVE  DirectoryInv'
  <1> PICK old : old = edit[e]
    OBVIOUS
  <1>1. old \in EditShapes /\ (old.pc # "idle" => AllowedBySecurity(old.draft))
    BY DEF DirectoryInv, DirectoryShaped
  <1>2. NoEdit \in EditShapes /\ NoEdit.pc = "idle"
    BY DEF EditShapes, NoEdit
  <1>3. ASSUME NEW d \in Dirs, NEW c \in Configurations, NEW via \in Dirs \cup {Nobody},
               DraftChange(e, d, c, via)
        PROVE  DirectoryInv'
    <2> PICK place : place = IF VerificationNeeded(d, config[d], c, via) THEN "verify" ELSE "save"
      OBVIOUS
    <2> PICK w : w = [pc |-> place, dir |-> d, read |-> config[d], draft |-> c, via |-> via,
                      verified |-> Nobody]
      OBVIOUS
    <2>1. /\ config[d] # Nobody /\ c \in Drafts
          /\ edit' = [edit EXCEPT ![e] = w]
          /\ UNCHANGED <<config, users, sessions, localAdmins, strict, login, saves, tightened>>
      BY <1>3 DEF DraftChange
    <2>2. w \in EditShapes
      BY <2>1 DEF DirectoryInv, DirectoryShaped, EditShapes
    <2>3. AllowedBySecurity(w.draft)
      BY <2>1 DEF Drafts, ValidSettings
    <2> QED BY <2>1, <2>2, <2>3, EditIs_Keeps
  <1>4. ASSUME NEW a \in Accounts, VerifyAdmin(e, a) PROVE DirectoryInv'
    <2> PICK x : x = UniqueId(old.draft, a)
      OBVIOUS
    <2> PICK w : w = [pc |-> "save", dir |-> old.dir, read |-> old.read, draft |-> old.draft,
                      via |-> old.via, verified |-> x]
      OBVIOUS
    <2>1. /\ old.pc = "verify"
          /\ edit' = [edit EXCEPT ![e].pc = "save", ![e].verified = x]
          /\ UNCHANGED <<config, users, sessions, localAdmins, strict, login, saves, tightened>>
      BY <1>4 DEF VerifyAdmin
    <2>2. [old EXCEPT !.pc = "save", !.verified = x] = w
      <3> PICK d, r, c, v, n : d = old.dir /\ r = old.read /\ c = old.draft /\ v = old.via /\ n = old.verified
        OBVIOUS
      <3>1. old = [pc |-> "verify", dir |-> d, read |-> r, draft |-> c, via |-> v, verified |-> n]
        BY <1>1, <2>1 DEF EditShapes, NoEdit
      <3> PICK mid : mid = [pc |-> "save", dir |-> d, read |-> r, draft |-> c, via |-> v, verified |-> n]
        OBVIOUS
      <3>2. [old EXCEPT !.pc = "save"] = mid
        BY <3>1
      <3>3. [mid EXCEPT !.verified = x] = w
        OBVIOUS
      <3>4. [old EXCEPT !.pc = "save", !.verified = x] = [mid EXCEPT !.verified = x]
        BY <3>2
      <3> QED BY <3>3, <3>4
    <2>3. edit' = [edit EXCEPT ![e] = w]
      BY <2>1, <2>2 DEF DirectoryInv, DirectoryShaped
    <2>4. old.draft \in Configurations
      BY <1>1, <2>1 DEF EditShapes, NoEdit
    <2>5. x \in Subjects
      BY <2>4 DEF UniqueId, Subjects, Attributes
    <2>6. w \in EditShapes
      BY <1>1, <2>1, <2>5 DEF EditShapes, NoEdit
    <2>7. AllowedBySecurity(w.draft)
      BY <1>1, <2>1
    <2> QED BY <2>1, <2>3, <2>6, <2>7, EditIs_Keeps
  <1>5. CASE EditFails(e)
    BY <1>2, <1>5, EditIs_Keeps DEF EditFails
  <1> QED BY <1>3, <1>4, <1>5

\* A directory is written (c): logins that have read it before cannot go on, and
\* the administrators of the others stay.
LEMMA Written_Keeps ==
    ASSUME DirectoryInv, NEW d \in Dirs, NEW c \in Configurations,
           saves < MaxSaves, saves' = saves + 1, ~ ConfigLocked(d),
           config' = [config EXCEPT ![d] = WithVersion(c, saves + 1)],
           UNCHANGED <<users, strict, login, tightened>>
    PROVE  /\ config' \in [Dirs -> {Nobody} \cup EntryShape] /\ saves' \in 0 .. MaxSaves
           /\ VersionsPast' /\ (\A p \in Logins : LoginTrue(login[p]))'
           /\ config'[d] # Nobody /\ SameTerms(config'[d], c) /\ config'[d].enabled = c.enabled
           /\ \A o \in Dirs \ {d} : config'[o] = config[o]
           /\ AdminDirectories \ {d} \subseteq AdminDirectories'
  <1> PICK new : new = WithVersion(c, saves + 1)
    OBVIOUS
  <1>1. saves \in Nat /\ saves + 1 \in 1 .. MaxSaves
    BY DirectoryAssumption DEF DirectoryInv, DirectoryShaped
  <1>2. /\ new \in EntryShape /\ new # Nobody /\ new.version = saves + 1 /\ new.enabled = c.enabled
        /\ SameTerms(new, c)
    BY <1>1, WithVersionFacts
  <1>3. /\ config' \in [Dirs -> {Nobody} \cup EntryShape]
        /\ \A o \in Dirs : config'[o] = IF o = d THEN new ELSE config[o]
    BY <1>2 DEF DirectoryInv, DirectoryShaped
  <1>4. VersionsPast'
    <2> SUFFICES ASSUME NEW o \in Dirs, config'[o] # Nobody PROVE config'[o].version <= saves'
      BY DEF VersionsPast
    <2>1. CASE o = d
      BY <1>1, <1>2, <1>3, <2>1
    <2>2. CASE o # d
      <3>1. config'[o] = config[o] /\ config[o] \in EntryShape
        BY <1>3, <2>2 DEF DirectoryInv, DirectoryShaped
      <3>2. config[o].version <= saves /\ config[o].version \in Int
        BY <3>1 DEF DirectoryInv, VersionsPast, EntryShape
      <3> QED BY <1>1, <3>1, <3>2
    <2> QED BY <2>1, <2>2
  <1>5. ASSUME NEW p \in Logins PROVE LoginTrue(login[p])'
    <2> PICK l : l = login[p]
      OBVIOUS
    <2>1. l \in LoginShapes /\ LoginTrue(l) /\ (l.pc = "checked" => l.dir # d)
      BY DEF DirectoryInv, DirectoryShaped, ConfigLocked
    <2>2. SUFFICES ASSUME l.pc # "idle"
                   PROVE  /\ l.spec.version <= saves'
                          /\ config'[l.dir] # Nobody /\ config'[l.dir].version = l.spec.version
                                 => config'[l.dir] = l.spec
                          /\ l.pc = "checked" => config'[l.dir] # Nobody /\ config'[l.dir] = l.spec
      BY DEF LoginTrue
    <2>3. l.dir \in Dirs /\ l.spec \in EntryShape
      BY <2>1, <2>2 DEF LoginShapes, NoLogin
    <2>4. l.spec.version \in Int /\ l.spec.version <= saves
      BY <2>1, <2>2, <2>3 DEF LoginTrue, EntryShape
    <2>5. CASE l.dir = d
      BY <1>1, <1>2, <1>3, <2>1, <2>4, <2>5
    <2>6. CASE l.dir # d
      BY <1>1, <1>3, <2>1, <2>2, <2>3, <2>4, <2>6 DEF LoginTrue
    <2> QED BY <2>5, <2>6
  <1>6. AdminDirectories \ {d} \subseteq AdminDirectories'
    <2> SUFFICES ASSUME NEW o \in AdminDirectories, o # d PROVE o \in AdminDirectories'
      OBVIOUS
    <2>1. config'[o] = config[o]
      BY <1>3 DEF AdminDirectories
    <2> QED BY <2>1 DEF AdminDirectories, DirectoryUsable, AllowedBySecurity
  <1> QED BY <1>1, <1>2, <1>3, <1>4, <1>5, <1>6

LEMMA CreateDirectory_Keeps ==
    ASSUME DirectoryInv, NEW d \in Dirs, NEW c \in Configurations, CreateDirectory(d, c) PROVE DirectoryInv'
  <1>1. /\ config[d] = Nobody /\ saves < MaxSaves /\ saves' = saves + 1
        /\ config' = [config EXCEPT ![d] = WithVersion(c, saves + 1)]
        /\ UNCHANGED <<users, sessions, localAdmins, strict, login, edit, tightened>>
    BY DEF CreateDirectory
  <1>2. ~ ConfigLocked(d)
    BY <1>1 DEF DirectoryInv, LoginTrue, ConfigLocked
  <1>3. /\ config' \in [Dirs -> {Nobody} \cup EntryShape] /\ saves' \in 0 .. MaxSaves
        /\ VersionsPast' /\ (\A p \in Logins : LoginTrue(login[p]))'
        /\ \A o \in Dirs \ {d} : config'[o] = config[o]
        /\ AdminDirectories \ {d} \subseteq AdminDirectories'
    BY <1>1, <1>2, Written_Keeps
  <1>4. ASSUME NEW s \in sessions PROVE SessionTrue(s)'
    <2>1. s.dir \in Dirs \ {d} /\ SessionTrue(s)
      BY <1>1 DEF DirectoryInv, DirectoryShaped, SessionTrue
    <2> QED BY <1>1, <1>3, <2>1 DEF SessionTrue
  <1>5. UsersNamed'
    <2> SUFFICES ASSUME NEW o \in Dirs, NEW x \in Subjects, users[o][x] # Nobody
                 PROVE  config'[o] # Nobody /\ config'[o].attribute = x[1]
      BY <1>1 DEF UsersNamed
    <2>1. o \in Dirs \ {d} /\ config[o] # Nobody /\ config[o].attribute = x[1]
      BY <1>1 DEF DirectoryInv, UsersNamed
    <2> QED BY <1>3, <2>1
  <1>6. AdminLeft'
    BY <1>1, <1>3 DEF DirectoryInv, AdminLeft, AdminDirectories, DirectoryUsable
  <1> QED BY <1>1, <1>3, <1>4, <1>5, <1>6 DEF DirectoryInv, DirectoryShaped, AllowedBySecurity

\* A change that is saved: sessions stay only on the terms they were granted on,
\* users only under their names, and if the directory was the last source of
\* administrators it is one still.
LEMMA SaveChange_Keeps ==
    ASSUME DirectoryInv, NEW e \in Editors, SaveChange(e) PROVE DirectoryInv'
  <1> PICK w : w = edit[e]
    OBVIOUS
  <1> PICK d : d = w.dir
    OBVIOUS
  <1> PICK c : c = w.draft
    OBVIOUS
  <1>1. /\ w.pc = "save" /\ config[d] # Nobody /\ ~ ConfigLocked(d)
        /\ ~ RefuseLosingAdmin(d, config[d], c, w.via)
        /\ KeepsUniqueIds(w)
        /\ saves < MaxSaves /\ saves' = saves + 1
        /\ config' = [config EXCEPT ![d] = WithVersion(c, saves + 1)]
        /\ sessions' = IF ~ c.enabled \/ IdentityChanged(config[d], c)
                       THEN {s \in sessions : s.dir # d} ELSE sessions
        /\ edit' = [edit EXCEPT ![e] = NoEdit]
        /\ UNCHANGED <<users, localAdmins, strict, login, tightened>>
    BY DEF SaveChange
  <1>2. w \in EditShapes /\ AllowedBySecurity(c)
    BY <1>1 DEF DirectoryInv, DirectoryShaped
  <1>3. d \in Dirs /\ c \in Configurations
    BY <1>1, <1>2 DEF EditShapes, NoEdit
  <1>4. /\ config' \in [Dirs -> {Nobody} \cup EntryShape] /\ saves' \in 0 .. MaxSaves
        /\ VersionsPast' /\ (\A p \in Logins : LoginTrue(login[p]))'
        /\ config'[d] # Nobody /\ SameTerms(config'[d], c) /\ config'[d].enabled = c.enabled
        /\ \A o \in Dirs \ {d} : config'[o] = config[o]
        /\ AdminDirectories \ {d} \subseteq AdminDirectories'
    BY <1>1, <1>3, Written_Keeps
  <1>5. ASSUME NEW s \in sessions' PROVE SessionTrue(s)'
    <2>1. s \in sessions /\ SessionTrue(s) /\ s.dir \in Dirs
      BY <1>1 DEF DirectoryInv, DirectoryShaped
    <2>2. CASE s.dir # d
      BY <1>1, <1>4, <2>1, <2>2 DEF SessionTrue
    <2>3. CASE s.dir = d
      <3>1. SameTerms(config[d], c)
        BY <1>1, <2>3, TermsSame
      <3> QED BY <1>1, <1>4, <2>1, <2>3, <3>1 DEF SessionTrue, SameTerms
    <2> QED BY <2>2, <2>3
  <1>6. UsersNamed'
    <2> SUFFICES ASSUME NEW o \in Dirs, NEW x \in Subjects, users[o][x] # Nobody
                 PROVE  config'[o] # Nobody /\ config'[o].attribute = x[1]
      BY <1>1 DEF UsersNamed
    <2>1. config[o] # Nobody /\ config[o].attribute = x[1]
      BY DEF DirectoryInv, UsersNamed
    <2>2. CASE o = d
      BY <1>1, <1>4, <2>1, <2>2 DEF KeepsUniqueIds, SameTerms
    <2>3. CASE o # d
      BY <1>4, <2>1, <2>3
    <2> QED BY <2>2, <2>3
  <1>7. AdminLeft'
    <2> SUFFICES ASSUME ~ tightened, ~ (localAdmins > 0) PROVE AdminDirectories' # {}
      BY <1>1 DEF AdminLeft
    <2>1. AdminDirectories # {}
      BY DEF DirectoryInv, AdminLeft
    <2>2. CASE AdminDirectories \ {d} # {}
      BY <1>4, <2>2
    <2>3. CASE AdminDirectories \ {d} = {}
      <3>1. d \in AdminDirectories
        BY <2>1, <2>3
      <3>2. OtherAdminSources(d) = 0
        BY <2>3, OtherSources DEF DirectoryInv
      <3>3. config[d].enabled /\ HasAdminMapping(config[d])
        BY <3>1 DEF AdminDirectories, DirectoryUsable
      <3>4. c.enabled /\ HasAdminMapping(c)
        BY <1>1, <3>2, <3>3 DEF RefuseLosingAdmin, LosesAdmin
      <3>5. HasAdminMapping(config'[d])
        BY <1>4, <3>4 DEF HasAdminMapping, SameTerms
      <3>6. AllowedBySecurity(config[d])'
        BY <1>1, <1>2, <1>4 DEF AllowedBySecurity, SameTerms
      <3>7. DirectoryUsable(d)'
        BY <1>4, <3>4, <3>6 DEF DirectoryUsable
      <3>8. d \in AdminDirectories'
        BY <1>3, <3>5, <3>7 DEF AdminDirectories, HasAdminMapping
      <3> QED BY <3>8
    <2> QED BY <2>2, <2>3
  <1>8. edit' \in [Editors -> EditShapes] /\ \A f \in Editors : edit'[f] = IF f = e THEN NoEdit ELSE edit[f]
    BY <1>1 DEF DirectoryInv, DirectoryShaped, EditShapes
  <1>9. (\A f \in Editors : edit[f].pc # "idle" => AllowedBySecurity(edit[f].draft))'
    BY <1>1, <1>8 DEF DirectoryInv, AllowedBySecurity, NoEdit
  <1>10. DirectoryShaped'
    BY <1>1, <1>4, <1>8 DEF DirectoryInv, DirectoryShaped
  <1> QED BY <1>1, <1>4, <1>5, <1>6, <1>7, <1>9, <1>10 DEF DirectoryInv

\* A directory and its users are deleted.
LEMMA DeleteDirectory_Keeps ==
    ASSUME DirectoryInv, NEW d \in Dirs, DeleteDirectory(d) PROVE DirectoryInv'
  <1> PICK none : none = [x \in Subjects |-> Nobody]
    OBVIOUS
  <1>1. /\ config[d] # Nobody /\ ~ config[d].enabled /\ ~ ConfigLocked(d)
        /\ config' = [config EXCEPT ![d] = Nobody]
        /\ users' = [users EXCEPT ![d] = none]
        /\ sessions' = {s \in sessions : s.dir # d}
        /\ UNCHANGED <<localAdmins, strict, login, edit, saves, tightened>>
    BY DEF DeleteDirectory
  <1>2. /\ config' \in [Dirs -> {Nobody} \cup EntryShape]
        /\ \A o \in Dirs : config'[o] = IF o = d THEN Nobody ELSE config[o]
    BY <1>1 DEF DirectoryInv, DirectoryShaped
  <1>3. none \in [Subjects -> {Nobody} \cup UserRows]
    OBVIOUS
  <1>4. /\ users' \in [Dirs -> [Subjects -> {Nobody} \cup UserRows]]
        /\ \A o \in Dirs : users'[o] = IF o = d THEN none ELSE users[o]
    BY <1>1, <1>3 DEF DirectoryInv, DirectoryShaped
  <1>5. DirectoryShaped'
    BY <1>1, <1>2, <1>4 DEF DirectoryInv, DirectoryShaped
  <1>6. VersionsPast'
    BY <1>1, <1>2 DEF DirectoryInv, VersionsPast
  <1>7. ASSUME NEW p \in Logins PROVE LoginTrue(login[p])'
    <2> PICK l : l = login[p]
      OBVIOUS
    <2>1. l \in LoginShapes /\ LoginTrue(l) /\ (l.pc = "checked" => l.dir # d)
      BY <1>1 DEF DirectoryInv, DirectoryShaped, ConfigLocked
    <2>2. l.pc # "idle" => l.dir \in Dirs
      BY <2>1 DEF LoginShapes, NoLogin
    <2> QED BY <1>1, <1>2, <2>1, <2>2 DEF LoginTrue
  <1>8. ASSUME NEW s \in sessions' PROVE SessionTrue(s)'
    <2>1. s \in sessions /\ SessionTrue(s) /\ s.dir \in Dirs /\ s.dir # d
      BY <1>1 DEF DirectoryInv, DirectoryShaped
    <2> QED BY <1>2, <1>4, <2>1 DEF SessionTrue
  <1>9. UsersNamed'
    <2> SUFFICES ASSUME NEW o \in Dirs, NEW x \in Subjects, users'[o][x] # Nobody
                 PROVE  config'[o] # Nobody /\ config'[o].attribute = x[1]
      BY DEF UsersNamed
    <2> QED BY <1>2, <1>4 DEF DirectoryInv, UsersNamed
  <1>10. AdminDirectories \subseteq AdminDirectories'
    <2> SUFFICES ASSUME NEW o \in AdminDirectories PROVE o \in AdminDirectories'
      OBVIOUS
    <2>1. o \in Dirs /\ o # d
      BY <1>1 DEF AdminDirectories, DirectoryUsable
    <2>2. config'[o] = config[o]
      BY <1>2, <2>1
    <2> QED BY <1>1, <2>2 DEF AdminDirectories, DirectoryUsable, AllowedBySecurity
  <1>11. AdminLeft'
    BY <1>1, <1>10 DEF DirectoryInv, AdminLeft
  <1> QED BY <1>1, <1>5, <1>6, <1>7, <1>8, <1>9, <1>11 DEF DirectoryInv, AllowedBySecurity

\* A user is enabled or disabled, and loses its sessions.
LEMMA SetActive_Keeps ==
    ASSUME DirectoryInv, NEW d \in Dirs, NEW x \in Subjects, NEW b \in BOOLEAN, SetActive(d, x, b)
    PROVE  DirectoryInv'
  <1> PICK old : old = users[d][x]
    OBVIOUS
  <1> PICK row : row = [role |-> old.role, active |-> b]
    OBVIOUS
  <1>1. /\ old # Nobody
        /\ users' = [users EXCEPT ![d][x].active = b]
        /\ sessions' = sessions \ SessionsOf(d, x)
        /\ UNCHANGED <<config, localAdmins, strict, login, edit, saves, tightened>>
    BY DEF SetActive
  <1>2. /\ users \in [Dirs -> [Subjects -> {Nobody} \cup UserRows]]
        /\ old \in UserRows
    BY <1>1 DEF DirectoryInv, DirectoryShaped
  <1>3. row \in UserRows
    BY <1>2 DEF UserRows
  <1>4. [old EXCEPT !.active = b] = row
    BY <1>2 DEF UserRows
  <1>5. users' = [users EXCEPT ![d] = [users[d] EXCEPT ![x] = row]]
    BY <1>1, <1>2, <1>4
  <1>6. [users[d] EXCEPT ![x] = row] \in [Subjects -> {Nobody} \cup UserRows]
    BY <1>2, <1>3
  <1>7. /\ users' \in [Dirs -> [Subjects -> {Nobody} \cup UserRows]]
        /\ \A o \in Dirs, y \in Subjects : ~ (o = d /\ y = x) => users'[o][y] = users[o][y]
    BY <1>2, <1>5, <1>6
  <1>8. DirectoryShaped'
    BY <1>1, <1>7 DEF DirectoryInv, DirectoryShaped
  <1>9. ASSUME NEW s \in sessions' PROVE SessionTrue(s)'
    <2>1. /\ s.dir \in Dirs /\ s.subject \in Subjects /\ SessionTrue(s)
          /\ ~ (s.dir = d /\ s.subject = x)
      BY <1>1 DEF DirectoryInv, DirectoryShaped, SessionsOf
    <2> QED BY <1>1, <1>7, <2>1 DEF SessionTrue
  <1>10. UsersNamed'
    <2> SUFFICES ASSUME NEW o \in Dirs, NEW y \in Subjects, users'[o][y] # Nobody
                 PROVE  config[o] # Nobody /\ config[o].attribute = y[1]
      BY <1>1 DEF UsersNamed
    <2> QED BY <1>1, <1>7 DEF DirectoryInv, UsersNamed
  <1>11. AdminLeft'
    BY <1>1 DEF DirectoryInv, AdminLeft, AdminDirectories, DirectoryUsable, AllowedBySecurity
  <1> QED BY <1>1, <1>8, <1>9, <1>10, <1>11
          DEF DirectoryInv, VersionsPast, LoginTrue, AllowedBySecurity

\* A local administrator more, or one less while another source remains.
LEMMA ChangeLocalAdmins_Keeps ==
    ASSUME DirectoryInv, NEW n \in 0 .. 1, ChangeLocalAdmins(n) PROVE DirectoryInv'
  <1>1. /\ n < localAdmins => n + Cardinality(AdminDirectories) > 0
        /\ localAdmins' = n
        /\ UNCHANGED <<config, users, sessions, strict, login, edit, saves, tightened>>
    BY DEF ChangeLocalAdmins
  <1>2. DirectoryShaped'
    BY <1>1 DEF DirectoryInv, DirectoryShaped
  <1>3. n > 0 \/ tightened \/ AdminDirectories # {}
    <2>1. localAdmins \in 0 .. 1 /\ DirectoryShaped
      BY DEF DirectoryInv, DirectoryShaped
    <2>2. CASE n < localAdmins
      <3>1. n = 0
        BY <2>1, <2>2
      <3>2. Cardinality(AdminDirectories) \in Nat /\ n + Cardinality(AdminDirectories) > 0
        BY <1>1, <2>1, <2>2, AdminSources
      <3> QED BY <2>1, <3>1, <3>2, AdminSources
    <2>3. CASE ~ (n < localAdmins)
      BY <2>1, <2>3 DEF DirectoryInv, AdminLeft
    <2> QED BY <2>2, <2>3
  <1>4. AdminLeft'
    BY <1>1, <1>3 DEF AdminLeft, AdminDirectories, DirectoryUsable, AllowedBySecurity
  <1> QED BY <1>1, <1>2, <1>4
          DEF DirectoryInv, VersionsPast, LoginTrue, SessionTrue, UsersNamed, AllowedBySecurity

\* Settings that do not become stricter keep every directory that was usable.
LEMMA RestartWith_Keeps ==
    ASSUME DirectoryInv, NEW b \in BOOLEAN, RestartWith(b) PROVE DirectoryInv'
  <1>1. /\ strict' = b /\ tightened' = (tightened \/ (b /\ ~ strict))
        /\ login' = [p \in Logins |-> NoLogin]
        /\ edit' = [e \in Editors |-> NoEdit]
        /\ UNCHANGED <<config, users, sessions, localAdmins, saves>>
    BY DEF RestartWith
  <1>2. DirectoryShaped'
    BY <1>1 DEF DirectoryInv, DirectoryShaped, LoginShapes, EditShapes
  <1>3. AdminLeft'
    <2>1. CASE b /\ ~ strict
      BY <1>1, <2>1 DEF AdminLeft
    <2>2. CASE ~ (b /\ ~ strict)
      <3>1. AdminDirectories \subseteq AdminDirectories'
        BY <1>1, <2>2 DEF AdminDirectories, DirectoryUsable, AllowedBySecurity
      <3> QED BY <1>1, <3>1 DEF DirectoryInv, AdminLeft
    <2> QED BY <2>1, <2>2
  <1>4. /\ (\A p \in Logins : LoginTrue(login[p]))'
        /\ (\A e \in Editors : edit[e].pc # "idle" => AllowedBySecurity(edit[e].draft))'
    BY <1>1 DEF LoginTrue, NoLogin, NoEdit
  <1> QED BY <1>1, <1>2, <1>3, <1>4 DEF DirectoryInv, VersionsPast, SessionTrue, UsersNamed

LEMMA DirectoryInv_Always == DirectorySpec => []DirectoryInv
  <1>1. DirectoryInv /\ [DirectoryNext]_directoryVars => DirectoryInv'
    <2> SUFFICES ASSUME DirectoryInv, [DirectoryNext]_directoryVars PROVE DirectoryInv'
      OBVIOUS
    <2>1. CASE UNCHANGED <<config, users, sessions, localAdmins, strict, login, edit, saves, tightened>>
      <3>1. AdminLeft'
        BY <2>1 DEF DirectoryInv, AdminLeft, AdminDirectories, DirectoryUsable, AllowedBySecurity
      <3> QED BY <2>1, <3>1 DEF DirectoryInv, DirectoryShaped, VersionsPast, LoginTrue, SessionTrue,
                                UsersNamed, AllowedBySecurity
    <2>2. ASSUME NEW e \in Editors, ChangeStep(e) PROVE DirectoryInv'
      BY <2>2, EditStep_Keeps, SaveChange_Keeps DEF ChangeStep
    <2>3. ASSUME NEW a \in Accounts, NEW g \in Groups, ChangeMembers(a, g) PROVE DirectoryInv'
      BY <2>1, <2>3 DEF ChangeMembers
    <2>4. CASE UNCHANGED directoryVars
      BY <2>1, <2>4 DEF directoryVars
    <2>5. ASSUME NEW p \in Logins, LoginStep(p) PROVE DirectoryInv'
      BY <2>5, LoginStep_Keeps, EnterWithSession_Keeps DEF LoginStep
    <2> QED BY <2>2, <2>3, <2>4, <2>5, UseSession_Keeps, CreateDirectory_Keeps, DeleteDirectory_Keeps,
               SetActive_Keeps, ChangeLocalAdmins_Keeps, RestartWith_Keeps
            DEF DirectoryNext
  <1> QED BY <1>1, DirectoryInv_Init, PTL DEF DirectorySpec

\* AccountsHold: however logins interleave with changes of the directory and of its
\* users, a session that can be used was granted on the terms the directory has now
\* and has the role its user has now, an account has one row, and the last way to log
\* in as administrator is not given up (only stricter settings can); and however the
\* service starts, a production process that serves has found an administrator.
THEOREM AccountsAlwaysHold == DirectorySpec /\ StartupSpec => []AccountsHold
  <1>1. DirectoryInv /\ StartupInv => AccountsHold
    BY DirectoryInv_Holds, StartupInv_Safe DEF AccountsHold, AccountsAsConfigured
  <1> QED BY <1>1, DirectoryInv_Always, StartupInv_Always, PTL

-----------------------------------------------------------------------------
(* Configuring a plugin.                                                    *)

HoldingGate == {"probing", "acting", "starting", "saving", "activating", "reloading"}

RowsShaped ==
    /\ rows = [k \in {"draft", "saved"} \cup Connections |-> rows[k]]
    /\ Draft \in {Null} \cup DraftRows /\ Saved \in {Null} \cup SavedRows
    /\ \A c \in Connections : rows[c] \in {Null} \cup ConnectionRows
    /\ credentials \subseteq Credentials /\ registry \in Registrations /\ disk \in 1 .. MaxVersion

CallsShaped ==
    /\ gate \in {Null} \cup Calls
    /\ call = [r \in Calls |-> call[r]]
    /\ \A r \in Calls :
          /\ call[r].pc \in {"idle", "commit"} \cup HoldingGate
          /\ call[r] = [pc |-> call[r].pc, key |-> call[r].key, read |-> call[r].read, row |-> call[r].row]
          /\ gate = r <=> call[r].pc \in HoldingGate

\* A result that still counts is one of what a worker uses now.
ResultTrue(t) ==
    t # Null /\ t.ok =>
        LET c == t.digest[1]
        IN /\ rows[c] # Null /\ t.digest[2] <= rows[c].revision
           /\ Digest(c) = t.digest => Material(c) \in tested

\* Values in use name a connection that is there and was tested.
Tried(v) == v \in Connections /\ rows[v] # Null /\ Material(v) \in tested

\* A request that changes a connection.
ConnectionEdit(w) == w.pc \in {"commit", "probing"} /\ w.key \in Connections

\* A draft about to be written.
DraftTrue(w) ==
    w.pc = "commit" /\ w.key = "draft" =>
        /\ w.read \in {Null} \cup DraftRows /\ w.row \in DraftRows /\ ResultTrue(w.row.tests)
        /\ w.read # Null => Draft # Null

\* A setting about to be switched on or off: its values are left alone.
SwitchTrue(w) ==
    w.pc = "commit" /\ w.key = "saved" =>
        /\ w.read \in {Null} \cup SavedRows /\ w.row \in SavedRows
        /\ w.read = Null => w.row.values = Null /\ ~ w.row.managed
        /\ w.read # Null => /\ Saved # Null
                            /\ w.row.values = w.read.values /\ w.row.managed = w.read.managed
        /\ w.row.enabled /\ Managed => Tried(Saved.values)

\* A connection about to be written is the one that was read, and is not in use
\* unless it stays what it was for a worker.
ChangeTrue(w) ==
    ConnectionEdit(w) =>
        /\ rows[w.key] = w.read
        /\ w.pc = "probing" => w.read # Null /\ w.read.revision < MaxRevision
        /\ w.pc = "commit" =>
              /\ w.row \in ConnectionRows
              /\ w.read # Null =>
                    /\ w.row.revision > w.read.revision
                    /\ \/ NotActive(w.key)
                       \/ /\ w.row.host = w.read.host /\ w.row.approved = w.read.approved
                          /\ w.row.credential = w.read.credential

Agrees == Managed => registry.values = Saved.values
JobAgrees == Agrees /\ job = registry.enabled

\* Whoever holds the gate: what it tests, starts or loads stays as it was read.
HolderTrue(w) ==
    /\ w.pc \in {"probing", "acting", "starting"} => JobAgrees
    /\ w.pc = "probing" => w.key \in Connections
    /\ w.pc = "acting" =>
          /\ w.read \in DraftRows /\ w.read.values # Null /\ Draft # Null
          /\ w.key = Digest(w.read.values) /\ Approved(w.read.values)
    /\ w.pc \in {"starting", "saving", "activating"} =>
          w.row \in Registrations /\ w.row.enabled /\ Tried(w.row.values)
    /\ w.pc = "saving" =>
          /\ Agrees /\ job = TRUE /\ w.read \in {Null} \cup SavedRows
          /\ w.read # Null => /\ Saved # Null /\ Saved.values = w.read.values
                              /\ Saved.managed = w.read.managed
    /\ w.pc = "activating" => Managed /\ Saved.values = w.row.values /\ job = TRUE
    /\ w.pc = "reloading" =>
          /\ w.row \in Registrations
          /\ w.row.values # Null /\ w.row.enabled => Tried(w.row.values)
          /\ Managed => w.row.values = Saved.values

CallTrue(w) ==
    /\ w.pc = "commit" => w.key \in {"draft", "saved"} \cup Connections
    /\ DraftTrue(w) /\ SwitchTrue(w) /\ ChangeTrue(w) /\ HolderTrue(w)

ChangesAlone == \A r, q \in Calls : ConnectionEdit(call[r]) /\ q # r => call[q].pc = "idle"

\* What is in use was tested.
InUseTried ==
    /\ Draft # Null => ResultTrue(Draft.tests)
    /\ Running => Tried(registry.values)
    /\ Managed => Saved.values \in Connections /\ (Saved.enabled => Tried(Saved.values))
    /\ Saved # Null /\ ~ Saved.managed => Saved.values = Null

SetupInv ==
    /\ RowsShaped /\ CallsShaped /\ ChangesAlone /\ InUseTried
    /\ \A r \in Calls : CallTrue(call[r])
    /\ GateFree => JobAgrees

-----------------------------------------------------------------------------
LEMMA SetupInv_Holds == SetupInv => SetupTypeOK /\ EnabledWasTested /\ AppliedIsSaved
  <1> SUFFICES ASSUME SetupInv PROVE SetupTypeOK /\ EnabledWasTested /\ AppliedIsSaved
    OBVIOUS
  <1>1. SetupTypeOK
    BY DEF SetupInv, RowsShaped, CallsShaped, SetupTypeOK, HoldingGate, Draft, Saved
  <1>2. EnabledWasTested
    BY DEF SetupInv, InUseTried, Tried, EnabledWasTested
  <1>3. AppliedIsSaved
    BY DEF SetupInv, JobAgrees, Agrees, AppliedIsSaved
  <1> QED BY <1>1, <1>2, <1>3

LEMMA SetupInv_Init == SetupInit => SetupInv
  <1> SUFFICES ASSUME SetupInit PROVE SetupInv
    OBVIOUS
  <1> USE DEF SetupInit
  <1>1. Draft = Null /\ Saved = Null /\ (\A c \in Connections : rows[c] = Null)
    BY DEF Draft, Saved
  <1>2. RowsShaped
    BY <1>1, SetupAssumption DEF RowsShaped, Registrations
  <1>3. \A r \in Calls : call[r] = IdleCall
    OBVIOUS
  <1>4. CallsShaped
    BY <1>3, SetupAssumption DEF CallsShaped, IdleCall, HoldingGate
  <1>5. ChangesAlone /\ (\A r \in Calls : CallTrue(call[r]))
    BY <1>3 DEF ChangesAlone, CallTrue, DraftTrue, SwitchTrue, ChangeTrue, HolderTrue, ConnectionEdit, IdleCall
  <1>6. InUseTried /\ JobAgrees
    BY <1>1 DEF InUseTried, JobAgrees, Agrees, Managed, Running
  <1> QED BY <1>2, <1>4, <1>5, <1>6 DEF SetupInv

\* A step of one request to w: it lets go of the gate when it does not work under
\* it, and nobody else is changing a connection.
Moves(r, w) ==
    /\ call' = [call EXCEPT ![r] = w]
    /\ w.pc \in {"idle", "commit"} \cup HoldingGate
    /\ w = [pc |-> w.pc, key |-> w.key, read |-> w.read, row |-> w.row]
    /\ \/ w.pc \in HoldingGate /\ gate' = r /\ gate \in {Null, r}
       \/ w.pc \notin HoldingGate /\ gate' = Null /\ gate \in {Null, r}
       \/ w.pc \notin HoldingGate /\ gate' = gate /\ gate # r
    /\ call[r].pc # "idle" \/ MayEnter(r) \/ w.pc = "idle"
    /\ ConnectionEdit(w) => \A q \in Calls : q # r => call[q].pc = "idle"

LEMMA Calls_Keep ==
    ASSUME CallsShaped, ChangesAlone, EditsAlone, NEW r \in Calls, NEW w, Moves(r, w)
    PROVE  CallsShaped' /\ ChangesAlone' /\ \A q \in Calls : call'[q] = IF q = r THEN w ELSE call[q]
  <1> USE DEF Moves
  <1>1. /\ \A q \in Calls : call'[q] = IF q = r THEN w ELSE call[q]
        /\ call' = [q \in Calls |-> call'[q]]
    BY DEF CallsShaped
  <1>2. r # Null
    BY SetupAssumption
  <1>3. CallsShaped'
    <2>1. gate' \in {Null} \cup Calls
      BY DEF CallsShaped
    <2>2. ASSUME NEW q \in Calls
          PROVE  /\ call'[q].pc \in {"idle", "commit"} \cup HoldingGate
                 /\ call'[q] = [pc |-> call'[q].pc, key |-> call'[q].key, read |-> call'[q].read,
                                row |-> call'[q].row]
      BY <1>1 DEF CallsShaped
    <2>3. ASSUME NEW q \in Calls PROVE gate' = q <=> call'[q].pc \in HoldingGate
      <3>1. q # Null /\ (gate = q <=> call[q].pc \in HoldingGate)
        BY SetupAssumption DEF CallsShaped
      <3> QED BY <1>1, <1>2, <3>1
    <2> QED BY <1>1, <2>1, <2>2, <2>3 DEF CallsShaped
  <1>4. ASSUME NEW q \in Calls, NEW s \in Calls, ConnectionEdit(call[q])', s # q
        PROVE  call'[s].pc = "idle"
    <2>1. CASE q = r
      BY <1>1, <1>4, <2>1 DEF ConnectionEdit
    <2>2. CASE q # r
      <3>1. ConnectionEdit(call[q])
        BY <1>1, <1>4, <2>2 DEF ConnectionEdit
      <3>2. call[s].pc = "idle" /\ call[r].pc = "idle"
        BY <1>4, <2>2, <3>1 DEF ChangesAlone
      <3>3. ~ MayEnter(r)
        BY <3>1 DEF MayEnter, ConnectionEdit
      <3> QED BY <1>1, <3>2, <3>3
    <2> QED BY <2>1, <2>2
  <1> QED BY <1>1, <1>3, <1>4 DEF ChangesAlone

\* A step of a request that changes no row, registration or job.
LEMMA Request_Keeps ==
    ASSUME SetupInv, EditsAlone, NEW r \in Calls, NEW w, Moves(r, w), CallTrue(w),
           UNCHANGED <<rows, credentials, registry, job, disk, tested>>,
           gate' = Null => JobAgrees
    PROVE  SetupInv'
  <1>1. CallsShaped' /\ ChangesAlone' /\ \A q \in Calls : call'[q] = IF q = r THEN w ELSE call[q]
    BY SMTT(30), Calls_Keep DEF SetupInv
  <1>2. RowsShaped' /\ InUseTried' /\ (JobAgrees' <=> JobAgrees)
    BY DEF SetupInv, RowsShaped, InUseTried, ResultTrue, Tried, Running, Managed, JobAgrees, Agrees, Draft, Saved,
           Digest, Approved, Material
  <1>3. ASSUME NEW q \in Calls PROVE CallTrue(call[q])'
    <2> PICK v : v = call'[q]
      OBVIOUS
    <2>1. CallTrue(v)
      BY SMTT(30), <1>1 DEF SetupInv
    <2>2. DraftTrue(call[q])'
      BY <2>1 DEF CallTrue, DraftTrue, ResultTrue, Draft, Digest, Approved, Material
    <2>3. SwitchTrue(call[q])'
      BY <2>1 DEF CallTrue, SwitchTrue, Saved, Managed, Tried, Material
    <2>4. ChangeTrue(call[q])'
      BY <2>1 DEF CallTrue, ChangeTrue, ConnectionEdit, NotActive, Saved
    <2>5. HolderTrue(call[q])'
      BY <2>1 DEF CallTrue, HolderTrue, JobAgrees, Agrees, Managed, Saved, Draft, Digest, Approved, Tried, Material
    <2> QED BY <2>1, <2>2, <2>3, <2>4, <2>5 DEF CallTrue
  <1> QED BY <1>1, <1>2, <1>3 DEF SetupInv, GateFree

\* What TestPassed says of a draft: its values can be used.
LEMMA Passed_Tried ==
    ASSUME SetupInv, Draft # Null, TestPassed(Draft) PROVE Tried(Draft.values)
  <1> PICK d : d = Draft
    OBVIOUS
  <1> PICK v : v = d.values
    OBVIOUS
  <1> PICK mark : mark = Digest(v)
    OBVIOUS
  <1>1. d \in DraftRows /\ ResultTrue(d.tests) /\ registry.version \in 1 .. MaxVersion
    BY DEF SetupInv, RowsShaped, InUseTried, Registrations
  <1>2. mark # Null /\ d.tests = [digest |-> mark, version |-> registry.version, ok |-> TRUE]
    BY DEF TestPassed
  <1>3. v # Null /\ Approved(v) /\ mark = <<v, rows[v].revision, rows[v].approved, rows[v].credential>>
    BY <1>2 DEF Digest
  <1>4. v \in Connections /\ rows[v] \in ConnectionRows
    BY <1>1, <1>3 DEF DraftRows, Approved, SetupInv, RowsShaped
  <1>5. mark \in Connections \X (1 .. MaxRevision) \X HostKeys \X Credentials
    BY <1>3, <1>4 DEF ConnectionRows, Approved
  <1>6. d.tests \in Results
    BY <1>1, <1>2, <1>5 DEF Results
  <1>7. d.tests # Null /\ d.tests.ok /\ d.tests.digest = mark /\ mark[1] = v
    <2>1. Null \notin Results
      BY SetupAssumption
    <2>2. d.tests.ok /\ d.tests.digest = mark
      BY <1>2
    <2> QED BY <1>3, <1>6, <2>1, <2>2
  <1>8. Material(v) \in tested
    BY <1>1, <1>7 DEF ResultTrue
  <1> QED BY <1>3, <1>4, <1>8 DEF Tried, Approved

\* The body of a handler that writes one row.
LEMMA Edit_Keeps ==
    ASSUME SetupInv, EditsAlone, NEW r \in Calls, NEW key \in {"draft"} \cup Connections, NEW new,
           Edit(r, key, new),
           key = "draft" => new \in DraftRows /\ ResultTrue(new.tests),
           key \in Connections => new \in ConnectionRows,
           key \in Connections /\ rows[key] # Null =>
               /\ new.revision > rows[key].revision
               /\ \/ NotActive(key)
                  \/ /\ new.host = rows[key].host /\ new.approved = rows[key].approved
                     /\ new.credential = rows[key].credential
    PROVE  SetupInv'
  <1> PICK w : w = [pc |-> "commit", key |-> key, read |-> rows[key], row |-> new]
    OBVIOUS
  <1>1. /\ gate = Null /\ MayEdit(r, key)
        /\ call' = [call EXCEPT ![r] = w]
        /\ UNCHANGED <<rows, credentials, registry, job, gate, disk, tested>>
    BY DEF Edit, Writes, GateFree
  <1>2. Moves(r, w)
    <2>1. ConnectionEdit(w) => \A q \in Calls : q # r => call[q].pc = "idle"
      BY <1>1 DEF ConnectionEdit, MayEdit
    <2>2. gate # r /\ "commit" \notin HoldingGate
      BY <1>1, SetupAssumption DEF HoldingGate
    <2> QED BY <1>1, <2>1, <2>2 DEF Moves, MayEdit
  <1>3. CASE key = "draft"
    <2>1. "draft" \notin Connections
      BY SetupAssumption
    <2>2. DraftTrue(w)
      BY <1>3 DEF DraftTrue, SetupInv, RowsShaped, Draft
    <2>3. CallTrue(w)
      BY <1>3, <2>1, <2>2 DEF CallTrue, SwitchTrue, ChangeTrue, ConnectionEdit, HolderTrue
    <2> QED BY <1>1, <1>2, <2>3, Request_Keeps DEF SetupInv, GateFree
  <1>4. CASE key \in Connections
    <2>1. key \notin {"draft", "saved"}
      BY <1>4, SetupAssumption
    <2>2. ChangeTrue(w)
      BY <1>4 DEF ChangeTrue
    <2>3. CallTrue(w)
      BY <1>4, <2>1, <2>2 DEF CallTrue, DraftTrue, SwitchTrue, HolderTrue
    <2> QED BY <1>1, <1>2, <2>3, Request_Keeps DEF SetupInv, GateFree
  <1> QED BY <1>3, <1>4

LEMMA DraftEdit_Keeps ==
    ASSUME SetupInv, EditsAlone, NEW r \in Calls,
           (\E v \in Connections \cup {Null} : PutDraft(r, v)) \/ ImportConfiguration(r)
    PROVE  SetupInv'
  <1> PICK d : d = CurrentDraft
    OBVIOUS
  <1>1. d \in DraftRows /\ ResultTrue(d.tests)
    BY SetupAssumption DEF CurrentDraft, NewDraft, DraftRows, ResultTrue, SetupInv, RowsShaped, InUseTried
  <1>2. ASSUME NEW v \in Connections \cup {Null},
               Edit(r, "draft", [values |-> v, revision |-> d.revision + 1, tests |-> Null])
        PROVE  SetupInv'
    <2> PICK new : new = [values |-> v, revision |-> d.revision + 1, tests |-> Null]
      OBVIOUS
    <2>1. Edit(r, "draft", new)
      BY <1>2
    <2>2. new.revision <= MaxDraft
      BY <2>1 DEF Edit, Limit
    <2>3. d.revision \in 1 .. MaxDraft
      BY <1>1 DEF DraftRows
    <2>4. new \in DraftRows /\ ResultTrue(new.tests)
      BY <2>2, <2>3, SetupAssumption DEF DraftRows, ResultTrue
    <2> QED BY <2>1, <2>4, Edit_Keeps, SetupAssumption
  <1>3. ASSUME NEW v \in Connections \cup {Null}, PutDraft(r, v) PROVE SetupInv'
    <2>1. CASE d.values = v
      <3>1. Edit(r, "draft", d)
        BY <1>3, <2>1 DEF PutDraft
      <3> QED BY <1>1, <3>1, Edit_Keeps, SetupAssumption
    <2>2. CASE d.values # v
      BY <1>2, <1>3, <2>2 DEF PutDraft
    <2> QED BY <2>1, <2>2
  <1>4. CASE ImportConfiguration(r)
    <2>1. registry.values \in Connections \cup {Null}
      BY DEF SetupInv, RowsShaped, Registrations
    <2> QED BY <1>2, <1>4, <2>1 DEF ImportConfiguration
  <1> QED BY <1>3, <1>4

\* A connection with another host key.
LEMMA RowWith ==
    ASSUME NEW old \in ConnectionRows, NEW k
    PROVE  /\ [old EXCEPT !.approved = k, !.revision = @ + 1]
                = [host |-> old.host, credential |-> old.credential, candidate |-> old.candidate,
                   approved |-> k, revision |-> old.revision + 1]
           /\ [old EXCEPT !.candidate = k, !.revision = @ + 1]
                = [host |-> old.host, credential |-> old.credential, candidate |-> k,
                   approved |-> old.approved, revision |-> old.revision + 1]
  <1> PICK h, c, x, a, n : h = old.host /\ c = old.credential /\ x = old.candidate /\ a = old.approved
                           /\ n = old.revision
    OBVIOUS
  <1>1. old = [host |-> h, credential |-> c, candidate |-> x, approved |-> a, revision |-> n]
    BY DEF ConnectionRows
  <1> PICK one : one = [host |-> h, credential |-> c, candidate |-> x, approved |-> k, revision |-> n]
    OBVIOUS
  <1> PICK two : two = [host |-> h, credential |-> c, candidate |-> k, approved |-> a, revision |-> n]
    OBVIOUS
  <1>2. [old EXCEPT !.approved = k] = one /\ [old EXCEPT !.candidate = k] = two
    BY <1>1
  <1>3. /\ [one EXCEPT !.revision = n + 1]
             = [host |-> h, credential |-> c, candidate |-> x, approved |-> k, revision |-> n + 1]
        /\ [two EXCEPT !.revision = n + 1]
             = [host |-> h, credential |-> c, candidate |-> k, approved |-> a, revision |-> n + 1]
    OBVIOUS
  <1>4. /\ [old EXCEPT !.approved = k, !.revision = @ + 1] = [one EXCEPT !.revision = n + 1]
        /\ [old EXCEPT !.candidate = k, !.revision = @ + 1] = [two EXCEPT !.revision = n + 1]
    BY <1>2
  <1> QED BY <1>3, <1>4

LEMMA ConnectionEdit_Keeps ==
    ASSUME SetupInv, EditsAlone, NEW r \in Calls, NEW c \in Connections,
           \/ \E h \in Hosts, k \in Credentials : CreateConnection(r, c, h, k) \/ UpdateConnection(r, c, h, k)
           \/ ApproveHostKey(r, c)
    PROVE  SetupInv'
  <1> PICK old : old = rows[c]
    OBVIOUS
  <1>1. /\ old # Null => old \in ConnectionRows /\ old.revision \in 1 .. MaxRevision
        /\ c # "draft" /\ MaxRevision \in Nat \ {0}
    BY SetupAssumption DEF SetupInv, RowsShaped, ConnectionRows
  <1>2. ASSUME NEW h \in Hosts, NEW k \in Credentials, CreateConnection(r, c, h, k) PROVE SetupInv'
    <2> PICK new : new = [host |-> h, candidate |-> Null, approved |-> Null, credential |-> k, revision |-> 1]
      OBVIOUS
    <2>1. old = Null /\ Edit(r, c, new)
      BY <1>2 DEF CreateConnection
    <2>2. new \in ConnectionRows
      BY <1>1 DEF ConnectionRows
    <2> QED BY <1>1, <2>1, <2>2, Edit_Keeps
  <1>3. ASSUME NEW h \in Hosts, NEW k \in Credentials, UpdateConnection(r, c, h, k) PROVE SetupInv'
    <2> PICK new : new = [host |-> h, credential |-> k, revision |-> old.revision + 1,
                          candidate |-> IF h = old.host THEN old.candidate ELSE Null,
                          approved |-> IF h = old.host THEN old.approved ELSE Null]
      OBVIOUS
    <2>1. old # Null /\ NotActive(c) /\ Edit(r, c, new)
      BY <1>3 DEF UpdateConnection
    <2>2. new.revision <= MaxRevision
      BY <1>1, <2>1 DEF Edit, Limit
    <2>3. new \in ConnectionRows
      BY <1>1, <2>1, <2>2 DEF ConnectionRows
    <2>4. new.revision > old.revision
      BY <1>1, <2>1
    <2> QED BY <1>1, <2>1, <2>3, <2>4, Edit_Keeps
  <1>4. CASE ApproveHostKey(r, c)
    <2>1. old # Null
      BY <1>4 DEF ApproveHostKey
    <2> PICK new : new = [host |-> old.host, credential |-> old.credential, candidate |-> old.candidate,
                          approved |-> old.candidate, revision |-> old.revision + 1]
      OBVIOUS
    <2>2. [old EXCEPT !.approved = old.candidate, !.revision = @ + 1] = new
      BY <1>1, <2>1, RowWith
    <2>3. /\ Edit(r, c, new)
          /\ old.approved # old.candidate => NotActive(c)
      BY <1>4, <2>2 DEF ApproveHostKey
    <2>4. new.revision <= MaxRevision
      BY <1>1, <2>3 DEF Edit, Limit
    <2>5. new \in ConnectionRows /\ new.revision > old.revision
      BY <1>1, <2>1, <2>4 DEF ConnectionRows
    <2> QED BY <1>1, <2>3, <2>5, Edit_Keeps
  <1> QED BY <1>2, <1>3, <1>4

LEMMA Probe_Keeps ==
    ASSUME SetupInv, EditsAlone, NEW r \in Calls,
           \/ \E c \in Connections : ProbeHostKey(r, c)
           \/ \E key \in HostKeys : HostKeyAnswered(r, key)
           \/ HostKeyUnanswered(r)
    PROVE  SetupInv'
  <1> PICK v : v = call[r]
    OBVIOUS
  <1>1. CallTrue(v) /\ CallTrue(IdleCall) /\ r # Null
    BY SetupAssumption
       DEF SetupInv, CallTrue, DraftTrue, SwitchTrue, ChangeTrue, ConnectionEdit, HolderTrue, IdleCall
  <1>2. ASSUME NEW c \in Connections, ProbeHostKey(r, c) PROVE SetupInv'
    <2> PICK w : w = [pc |-> "probing", key |-> c, read |-> rows[c], row |-> Null]
      OBVIOUS
    <2>1. /\ gate = Null /\ MayEdit(r, c) /\ rows[c] # Null /\ rows[c].revision < MaxRevision
          /\ gate' = r /\ call' = [call EXCEPT ![r] = w]
          /\ UNCHANGED <<rows, credentials, registry, job, disk, tested>>
      BY <1>2 DEF ProbeHostKey, GateFree
    <2>2. Moves(r, w)
      BY <2>1 DEF Moves, MayEdit, HoldingGate
    <2>3. JobAgrees
      BY <2>1 DEF SetupInv, GateFree
    <2>4. CallTrue(w)
      BY <2>1, <2>3 DEF CallTrue, DraftTrue, SwitchTrue, ChangeTrue, HolderTrue
    <2> QED BY <1>1, <2>1, <2>2, <2>4, Request_Keeps
  <1>3. ASSUME v.pc = "probing"
        PROVE  /\ gate = r /\ JobAgrees
               /\ v.key \in Connections \ {"draft", "saved"}
               /\ v.read \in ConnectionRows /\ v.read = rows[v.key] /\ v.read.revision < MaxRevision
               /\ v.read # Null
               /\ \A q \in Calls : q # r => call[q].pc = "idle"
    <2>1. v.key \in Connections \ {"draft", "saved"} /\ ConnectionEdit(v)
      BY <1>1, <1>3, SetupAssumption DEF CallTrue, HolderTrue, ConnectionEdit
    <2> QED BY <1>1, <1>3, <2>1
            DEF SetupInv, CallsShaped, RowsShaped, ChangesAlone, CallTrue, ChangeTrue, HolderTrue, HoldingGate
  <1>4. ASSUME NEW key \in HostKeys, HostKeyAnswered(r, key) PROVE SetupInv'
    <2> PICK old : old = v.read
      OBVIOUS
    <2> PICK new : new = [host |-> old.host, credential |-> old.credential, candidate |-> key,
                          approved |-> old.approved, revision |-> old.revision + 1]
      OBVIOUS
    <2> PICK w : w = [pc |-> "commit", key |-> v.key, read |-> old, row |-> new]
      OBVIOUS
    <2>1. v.pc = "probing"
      BY <1>4 DEF HostKeyAnswered
    <2>2. old \in ConnectionRows /\ old.revision \in 1 .. MaxRevision /\ old.revision < MaxRevision
      BY <1>3, <2>1 DEF ConnectionRows
    <2>3. [old EXCEPT !.candidate = key, !.revision = @ + 1] = new
      BY <2>2, RowWith
    <2>4. /\ gate' = Null /\ call' = [call EXCEPT ![r] = w]
          /\ UNCHANGED <<rows, credentials, registry, job, disk, tested>>
      BY <1>4, <2>3 DEF HostKeyAnswered, Writes
    <2>5. new \in ConnectionRows /\ new.revision > old.revision
      BY <2>2, SetupAssumption DEF ConnectionRows
    <2>6. Moves(r, w)
      BY <1>3, <2>1, <2>4 DEF Moves, HoldingGate
    <2>7. ChangeTrue(w)
      BY <1>3, <2>1, <2>5 DEF ChangeTrue
    <2>8. CallTrue(w)
      BY <1>3, <2>1, <2>7 DEF CallTrue, DraftTrue, SwitchTrue, HolderTrue
    <2> QED BY <1>3, <2>1, <2>4, <2>6, <2>8, Request_Keeps
  <1>5. CASE HostKeyUnanswered(r)
    <2>1. /\ v.pc = "probing" /\ gate' = Null /\ call' = [call EXCEPT ![r] = IdleCall]
          /\ UNCHANGED <<rows, credentials, registry, job, disk, tested>>
      BY <1>5 DEF HostKeyUnanswered, Ends
    <2>2. Moves(r, IdleCall)
      BY <1>3, <2>1 DEF Moves, IdleCall, HoldingGate, ConnectionEdit
    <2> QED BY <1>1, <1>3, <2>1, <2>2, Request_Keeps
  <1> QED BY <1>2, <1>4, <1>5

LEMMA IdleCall_True == CallTrue(IdleCall)
  BY DEF CallTrue, DraftTrue, SwitchTrue, ChangeTrue, ConnectionEdit, HolderTrue, IdleCall

\* What a reload or a restart builds is what was saved.
LEMMA Built_True ==
    ASSUME SetupInv
    PROVE  /\ Built \in Registrations
           /\ Built.values # Null /\ Built.enabled => Tried(Built.values)
           /\ Managed => Built.values = Saved.values
  <1>1. /\ Saved # Null => Saved.values \in Connections \cup {Null} /\ Saved.enabled \in BOOLEAN
        /\ disk \in 1 .. MaxVersion
    BY DEF SetupInv, RowsShaped, SavedRows
  <1>2. /\ (IF Managed THEN Saved.values ELSE Null) \in Connections \cup {Null}
        /\ (Saved # Null /\ Saved.enabled) \in BOOLEAN
    BY <1>1 DEF Managed
  <1> PICK x : x = IF Managed THEN Saved.values ELSE Null
    OBVIOUS
  <1> PICK b : b = (Saved # Null /\ Saved.enabled)
    OBVIOUS
  <1>3. Built = [values |-> x, enabled |-> b, version |-> disk]
    BY DEF Built
  <1>4. Built \in Registrations
    BY <1>1, <1>2, <1>3 DEF Registrations
  <1>5. x # Null /\ b => Tried(x)
    BY DEF SetupInv, InUseTried
  <1> QED BY <1>3, <1>4, <1>5

LEMMA Patch_Keeps ==
    ASSUME SetupInv, EditsAlone, NEW r \in Calls, NEW b \in BOOLEAN, PatchCollector(r, b)
    PROVE  SetupInv'
  <1> PICK old : old = IF Saved = Null THEN NewSaved ELSE Saved
    OBVIOUS
  <1> PICK new : new = [values |-> old.values, enabled |-> b, managed |-> old.managed]
    OBVIOUS
  <1> PICK w : w = [pc |-> "commit", key |-> "saved", read |-> Saved, row |-> new]
    OBVIOUS
  <1>1. /\ old = [values |-> old.values, enabled |-> old.enabled, managed |-> old.managed]
        /\ old.values \in Connections \cup {Null} /\ old.managed \in BOOLEAN
    <2>1. Saved # Null => Saved \in SavedRows
      BY DEF SetupInv, RowsShaped
    <2>2. CASE Saved = Null
      BY <2>2 DEF NewSaved
    <2>3. CASE Saved # Null
      BY <2>1, <2>3 DEF SavedRows
    <2> QED BY <2>2, <2>3
  <1>2. new \in SavedRows /\ [old EXCEPT !.enabled = b] = new
    BY <1>1 DEF SavedRows
  <1>3. /\ MayEnter(r) /\ call' = [call EXCEPT ![r] = w]
        /\ b => IF Managed THEN Draft # Null /\ Draft.values = Saved.values /\ TestPassed(Draft)
                ELSE registry.values # Null
        /\ UNCHANGED <<rows, credentials, registry, job, gate, disk, tested>>
    BY <1>2 DEF PatchCollector, Writes
  <1>4. "saved" \notin Connections /\ r # Null
    BY SetupAssumption
  <1>5. Moves(r, w)
    <2>1. gate # r
      BY <1>3 DEF SetupInv, CallsShaped, MayEnter, HoldingGate
    <2> QED BY <1>3, <1>4, <2>1 DEF Moves, HoldingGate, ConnectionEdit
  <1>6. b /\ Managed => Tried(Saved.values)
    BY <1>3, Passed_Tried
  <1>7. SwitchTrue(w)
    <2>1. Saved \in {Null} \cup SavedRows
      BY DEF SetupInv, RowsShaped
    <2>2. /\ Saved = Null => new.values = Null /\ ~ new.managed
          /\ Saved # Null => new.values = Saved.values /\ new.managed = Saved.managed
          /\ new.enabled = b
      BY DEF NewSaved
    <2> QED BY <1>2, <1>6, <2>1, <2>2 DEF SwitchTrue
  <1>8. CallTrue(w)
    BY <1>4, <1>7 DEF CallTrue, DraftTrue, ChangeTrue, ConnectionEdit, HolderTrue
  <1> QED BY <1>3, <1>5, <1>8, Request_Keeps DEF SetupInv, GateFree

\* Requests that take the gate.
LEMMA Takes_Keeps ==
    ASSUME SetupInv, EditsAlone, NEW r \in Calls, ExecuteAction(r) \/ ApplyConfiguration(r) \/ ReloadBegins(r)
    PROVE  SetupInv'
  <1>1. ASSUME NEW w, w = [pc |-> w.pc, key |-> w.key, read |-> w.read, row |-> w.row],
               w.pc \in {"acting", "starting", "reloading"}, HolderTrue(w),
               GateFree, MayEnter(r), gate' = r, call' = [call EXCEPT ![r] = w],
               UNCHANGED <<rows, credentials, registry, job, disk, tested>>
        PROVE  SetupInv'
    <2>1. Moves(r, w)
      BY <1>1 DEF Moves, GateFree, HoldingGate, ConnectionEdit
    <2>2. CallTrue(w)
      BY <1>1 DEF CallTrue, DraftTrue, SwitchTrue, ChangeTrue, ConnectionEdit
    <2>3. r # Null
      BY SetupAssumption
    <2> QED BY <1>1, <2>1, <2>2, <2>3, Request_Keeps
  <1>2. GateFree => JobAgrees
    BY DEF SetupInv
  <1>3. CASE ExecuteAction(r)
    <2> PICK w : w = [pc |-> "acting", key |-> Digest(Draft.values), read |-> Draft, row |-> Null]
      OBVIOUS
    <2>1. /\ GateFree /\ MayEnter(r) /\ Draft # Null /\ Digest(Draft.values) # Null
          /\ gate' = r /\ call' = [call EXCEPT ![r] = w]
          /\ UNCHANGED <<rows, credentials, registry, job, disk, tested>>
      BY <1>3 DEF ExecuteAction
    <2>2. Draft \in DraftRows /\ Draft.values # Null /\ Approved(Draft.values)
      BY <2>1 DEF SetupInv, RowsShaped, Digest
    <2>3. HolderTrue(w)
      BY <1>2, <2>1, <2>2 DEF HolderTrue
    <2> QED BY <1>1, <2>1, <2>3
  <1>4. CASE ApplyConfiguration(r)
    <2> PICK new : new = [values |-> Draft.values, enabled |-> TRUE, version |-> disk]
      OBVIOUS
    <2> PICK w : w = [pc |-> "starting", key |-> "saved", read |-> Null, row |-> new]
      OBVIOUS
    <2>1. /\ GateFree /\ MayEnter(r) /\ Draft # Null /\ TestPassed(Draft)
          /\ gate' = r /\ call' = [call EXCEPT ![r] = w]
          /\ UNCHANGED <<rows, credentials, registry, job, disk, tested>>
      BY <1>4 DEF ApplyConfiguration
    <2>2. Tried(new.values)
      BY <2>1, Passed_Tried
    <2>3. new \in Registrations
      BY <2>2 DEF SetupInv, RowsShaped, Tried, Registrations
    <2>4. HolderTrue(w)
      BY <1>2, <2>1, <2>2, <2>3 DEF HolderTrue
    <2> QED BY <1>1, <2>1, <2>4
  <1>5. CASE ReloadBegins(r)
    <2> PICK w : w = [pc |-> "reloading", key |-> Null, read |-> Null, row |-> Built]
      OBVIOUS
    <2>1. /\ GateFree /\ MayEnter(r) /\ gate' = r /\ call' = [call EXCEPT ![r] = w]
          /\ UNCHANGED <<rows, credentials, registry, job, disk, tested>>
      BY <1>5 DEF ReloadBegins
    <2>2. HolderTrue(w)
      BY Built_True DEF HolderTrue
    <2> QED BY <1>1, <2>1, <2>2
  <1> QED BY <1>3, <1>4, <1>5

\* Requests that let go of the gate and write nothing, before the job is touched.
LEMMA NotStarted_Keeps ==
    ASSUME SetupInv, EditsAlone, NEW r \in Calls, ApplyNotStarted(r) PROVE SetupInv'
  <1>1. /\ call[r].pc = "starting" /\ gate' = Null /\ call' = [call EXCEPT ![r] = IdleCall]
        /\ UNCHANGED <<rows, credentials, registry, job, disk, tested>>
    BY DEF ApplyNotStarted, Ends
  <1>2. gate = r /\ JobAgrees
    BY <1>1 DEF SetupInv, CallsShaped, CallTrue, HolderTrue, HoldingGate
  <1>3. Moves(r, IdleCall)
    BY <1>1, <1>2 DEF Moves, IdleCall, HoldingGate, ConnectionEdit
  <1> QED BY <1>1, <1>2, <1>3, IdleCall_True, Request_Keeps

\* Keys come and go, and packages: nothing of it is collected with.
LEMMA Outside_Keeps ==
    ASSUME SetupInv, UNCHANGED <<rows, registry, job, gate, call, tested>>,
           credentials' \subseteq Credentials, disk' \in 1 .. MaxVersion
    PROVE  SetupInv'
  <1>1. RowsShaped' /\ CallsShaped' /\ ChangesAlone'
    BY DEF SetupInv, RowsShaped, CallsShaped, ChangesAlone, ConnectionEdit, Draft, Saved
  <1>2. InUseTried' /\ (JobAgrees' <=> JobAgrees)
    BY DEF SetupInv, InUseTried, ResultTrue, Tried, Running, Managed, JobAgrees, Agrees, Draft, Saved,
           Digest, Approved, Material
  <1>3. ASSUME NEW q \in Calls PROVE CallTrue(call[q])'
    <2>1. CallTrue(call[q])
      BY SMTT(30) DEF SetupInv
    <2>2. DraftTrue(call[q])'
      BY <2>1 DEF CallTrue, DraftTrue, ResultTrue, Draft, Digest, Approved, Material
    <2>3. SwitchTrue(call[q])'
      BY <2>1 DEF CallTrue, SwitchTrue, Saved, Managed, Tried, Material
    <2>4. ChangeTrue(call[q])'
      BY <2>1 DEF CallTrue, ChangeTrue, ConnectionEdit, NotActive, Saved
    <2>5. HolderTrue(call[q])'
      BY <2>1 DEF CallTrue, HolderTrue, JobAgrees, Agrees, Managed, Saved, Draft, Digest, Approved, Tried, Material
    <2> QED BY <2>1, <2>2, <2>3, <2>4, <2>5 DEF CallTrue
  <1> QED BY <1>1, <1>2, <1>3 DEF SetupInv, GateFree

\* A result: what was used for the action is what its digest was made of, because
\* no connection changed meanwhile.
LEMMA ActionDone_Keeps ==
    ASSUME SetupInv, EditsAlone, NEW r \in Calls, NEW ok \in BOOLEAN, ActionDone(r, ok) PROVE SetupInv'
  <1> PICK old : old = call[r]
    OBVIOUS
  <1> PICK d : d = old.read
    OBVIOUS
  <1> PICK v : v = d.values
    OBVIOUS
  <1>1. /\ old.pc = "acting" /\ gate' = Null
        /\ UNCHANGED <<rows, credentials, registry, job, disk>>
    BY DEF ActionDone
  <1>2. CallTrue(old) /\ gate = r
    BY <1>1 DEF SetupInv, CallsShaped, HoldingGate
  <1>3. /\ d \in DraftRows /\ v # Null /\ Draft # Null /\ Approved(v) /\ JobAgrees
        /\ old.key = <<v, rows[v].revision, rows[v].approved, rows[v].credential>>
        /\ old.key = Digest(v)
    BY <1>1, <1>2 DEF CallTrue, HolderTrue, Digest
  <1>4. v \in Connections /\ rows[v] \in ConnectionRows /\ rows[v] # Null
    BY <1>3 DEF DraftRows, Approved, SetupInv, RowsShaped
  <1> PICK mark : mark = old.key
    OBVIOUS
  <1> PICK t : t = [digest |-> mark, version |-> registry.version, ok |-> ok]
    OBVIOUS
  <1> PICK new : new = [values |-> d.values, revision |-> d.revision, tests |-> t]
    OBVIOUS
  <1> PICK w : w = [pc |-> "commit", key |-> "draft", read |-> d, row |-> new]
    OBVIOUS
  <1>5. t \in Results /\ new \in DraftRows
    <2>1. mark \in Connections \X (1 .. MaxRevision) \X HostKeys \X Credentials
      BY <1>3, <1>4 DEF ConnectionRows, Approved
    <2>2. t \in Results
      BY <2>1 DEF Results, SetupInv, RowsShaped, Registrations
    <2> QED BY <1>3, <2>2 DEF DraftRows
  <1>6. [d EXCEPT !.tests = t] = new
    BY <1>3 DEF DraftRows
  <1>7. /\ call' = [call EXCEPT ![r] = w]
        /\ tested \subseteq tested'
        /\ ok => Material(v) \in tested'
    BY <1>3, <1>6 DEF ActionDone, Writes
  <1>8. "draft" \notin Connections
    BY SetupAssumption
  <1>9. CallsShaped' /\ ChangesAlone' /\ \A q \in Calls : call'[q] = IF q = r THEN w ELSE call[q]
    <2>1. Moves(r, w)
      BY SMTT(30), <1>1, <1>2, <1>7, <1>8 DEF Moves, HoldingGate, ConnectionEdit
    <2> QED BY <2>1, Calls_Keep DEF SetupInv
  <1>10. RowsShaped' /\ InUseTried' /\ JobAgrees'
    BY <1>1, <1>3, <1>7 DEF SetupInv, RowsShaped, InUseTried, ResultTrue, Tried, Running, Managed, JobAgrees,
           Agrees, Draft, Saved, Digest, Approved, Material
  <1>11. ASSUME NEW q \in Calls PROVE CallTrue(call[q])'
    <2>1. CASE q = r
      <3>1. ResultTrue(t)'
        <4>1. mark[1] = v /\ mark[2] = rows[v].revision /\ rows[v].revision \in Int
          BY <1>3, <1>4 DEF ConnectionRows
        <4>2. t.digest = mark /\ t.ok = ok
          OBVIOUS
        <4> QED BY <1>1, <1>3, <1>4, <1>7, <4>1, <4>2 DEF ResultTrue, Material
      <3>2. DraftTrue(call[q])'
        <4>1. call'[q].pc = "commit" /\ call'[q].read = d /\ call'[q].row = new /\ new.tests = t
          BY <1>9, <2>1
        <4>2. ResultTrue(call[q].row.tests)'
          BY <3>1, <4>1 DEF ResultTrue, Digest, Approved, Material
        <4> QED BY <1>1, <1>3, <1>5, <4>1, <4>2 DEF DraftTrue, Draft
      <3> QED BY SMTT(30), <1>8, <1>9, <2>1, <3>2 DEF CallTrue, SwitchTrue, ChangeTrue, ConnectionEdit, HolderTrue
    <2>2. CASE q # r
      <3>1. CallTrue(call[q]) /\ call'[q] = call[q]
        BY SMTT(30), <1>9, <2>2 DEF SetupInv
      <3>2. DraftTrue(call[q])'
        BY <1>1, <1>7, <3>1 DEF CallTrue, DraftTrue, ResultTrue, Draft, Digest, Approved, Material
      <3>3. SwitchTrue(call[q])'
        BY <1>1, <1>7, <3>1 DEF CallTrue, SwitchTrue, Saved, Managed, Tried, Material
      <3>4. ChangeTrue(call[q])'
        BY SMTT(30), <1>1, <3>1 DEF CallTrue, ChangeTrue, ConnectionEdit, NotActive, Saved
      <3>5. HolderTrue(call[q])'
        BY <1>1, <1>7, <3>1 DEF CallTrue, HolderTrue, JobAgrees, Agrees, Managed, Saved, Draft, Digest, Approved,
                                Tried, Material
      <3> QED BY <3>1, <3>2, <3>3, <3>4, <3>5 DEF CallTrue
    <2> QED BY <2>1, <2>2
  <1> QED BY <1>9, <1>10, <1>11 DEF SetupInv

\* A step under the gate, to w: no connection is being changed, and nobody else
\* tests, starts or loads.
HolderMoves(r, w) ==
    /\ call[r].pc \in {"starting", "saving", "activating", "reloading"}
    /\ call' = [call EXCEPT ![r] = w]
    /\ w.pc \in {"idle", "saving", "activating"}
    /\ w = [pc |-> w.pc, key |-> w.key, read |-> w.read, row |-> w.row]
    /\ w.pc = "idle" => gate' = Null /\ JobAgrees'
    /\ w.pc # "idle" => gate' = gate
    /\ UNCHANGED <<credentials, disk, tested>>
    /\ \A k \in {"draft"} \cup Connections : rows'[k] = rows[k]
    /\ \/ rows'["saved"] = rows["saved"]
       \/ Saved' # Null /\ Managed' /\ Tried(Saved.values)'

LEMMA Holder_Keeps ==
    ASSUME SetupInv, EditsAlone, NEW r \in Calls, NEW w, HolderMoves(r, w), HolderTrue(w)',
           RowsShaped', InUseTried'
    PROVE  SetupInv'
  <1> USE DEF HolderMoves
  <1>1. gate = r /\ r # Null /\ "draft" \notin Connections
    BY SetupAssumption DEF SetupInv, CallsShaped, HoldingGate
  <1>2. CallsShaped' /\ ChangesAlone' /\ \A q \in Calls : call'[q] = IF q = r THEN w ELSE call[q]
    <2>1. Moves(r, w)
      BY <1>1 DEF Moves, HoldingGate, ConnectionEdit
    <2> QED BY <2>1, Calls_Keep DEF SetupInv
  <1>3. ASSUME NEW x \in Results, ResultTrue(x) PROVE ResultTrue(x)'
    <2>1. x.digest[1] \in Connections
      BY DEF Results
    <2> QED BY <1>3, <2>1 DEF ResultTrue, Digest, Approved, Material
  <1>4. ASSUME NEW q \in Calls PROVE CallTrue(call[q])'
    <2>1. CASE q = r
      BY <1>2, <2>1 DEF CallTrue, DraftTrue, SwitchTrue, ChangeTrue, ConnectionEdit, HolderTrue
    <2>2. CASE q # r
      <3> PICK v : v = call[q]
        OBVIOUS
      <3>1. call'[q] = v /\ CallTrue(v) /\ v.pc \notin HoldingGate /\ ~ ConnectionEdit(v)
        BY <1>1, <1>2, <2>2 DEF SetupInv, CallsShaped, ChangesAlone
      <3>2. DraftTrue(call[q])'
        <4>1. ASSUME v.pc = "commit", v.key = "draft" PROVE ResultTrue(v.row.tests)'
          <5>1. v.row.tests \in {Null} \cup Results /\ ResultTrue(v.row.tests)
            BY <3>1, <4>1 DEF CallTrue, DraftTrue, DraftRows
          <5> QED BY <1>3, <5>1 DEF ResultTrue
        <4> QED BY <3>1, <4>1 DEF CallTrue, DraftTrue, Draft
      <3>3. SwitchTrue(call[q])'
        BY <3>1 DEF CallTrue, SwitchTrue, Saved, Managed, Tried, Material
      <3> QED BY <3>1, <3>2, <3>3 DEF CallTrue, ChangeTrue, ConnectionEdit, HolderTrue, HoldingGate
    <2> QED BY <2>1, <2>2
  <1> QED BY <1>1, <1>2, <1>4 DEF SetupInv, GateFree

\* What an UPDATE leaves in each kind of row.
LEMMA UpdatedSaved ==
    ASSUME NEW a \in SavedRows, NEW b \in SavedRows, NEW c \in SavedRows
    PROVE  /\ Updated(a, b, c) \in SavedRows
           /\ Updated(a, b, c).values = IF c.values # b.values THEN c.values ELSE a.values
           /\ Updated(a, b, c).enabled = IF c.enabled # b.enabled THEN c.enabled ELSE a.enabled
           /\ Updated(a, b, c).managed = IF c.managed # b.managed THEN c.managed ELSE a.managed
  <1> PICK u : u = [values |-> IF c.values # b.values THEN c.values ELSE a.values,
                    enabled |-> IF c.enabled # b.enabled THEN c.enabled ELSE a.enabled,
                    managed |-> IF c.managed # b.managed THEN c.managed ELSE a.managed]
    OBVIOUS
  <1>1. Updated(a, b, c) = u
    BY DEF Updated, SavedRows
  <1>2. u \in SavedRows
    BY DEF SavedRows
  <1> QED BY <1>1, <1>2

LEMMA UpdatedDraft ==
    ASSUME NEW a \in DraftRows, NEW b \in DraftRows, NEW c \in DraftRows
    PROVE  /\ Updated(a, b, c) \in DraftRows
           /\ Updated(a, b, c).tests \in {a.tests, c.tests}
  <1> PICK u : u = [values |-> IF c.values # b.values THEN c.values ELSE a.values,
                    revision |-> IF c.revision # b.revision THEN c.revision ELSE a.revision,
                    tests |-> IF c.tests # b.tests THEN c.tests ELSE a.tests]
    OBVIOUS
  <1>1. Updated(a, b, c) = u
    BY DEF Updated, DraftRows
  <1>2. u \in DraftRows
    BY DEF DraftRows
  <1> QED BY <1>1, <1>2

LEMMA UpdatedConnection ==
    ASSUME NEW a \in ConnectionRows, NEW c \in ConnectionRows PROVE Updated(a, a, c) = c
  <1> PICK u : u = [host |-> c.host, credential |-> c.credential, candidate |-> c.candidate,
                    approved |-> c.approved, revision |-> c.revision]
    OBVIOUS
  <1>1. Updated(a, a, c) = u
    BY DEF Updated, ConnectionRows
  <1>2. c = u
    BY DEF ConnectionRows
  <1> QED BY <1>1, <1>2

\* apply_configuration after its tests: only what was tried is saved and activated.
LEMMA Apply_Keeps ==
    ASSUME SetupInv, EditsAlone, NEW r \in Calls,
           ApplyStarted(r) \/ ApplySaved(r) \/ ApplyNotSaved(r) \/ ApplyActivated(r)
    PROVE  SetupInv'
  <1> PICK old : old = call[r]
    OBVIOUS
  <1> PICK new : new = old.row
    OBVIOUS
  <1> PICK v : v = new.values
    OBVIOUS
  <1>1. /\ old.pc \in {"starting", "saving", "activating"}
        /\ old = [pc |-> old.pc, key |-> old.key, read |-> old.read, row |-> old.row]
        /\ HolderTrue(old)
    BY DEF ApplyStarted, ApplySaved, ApplyNotSaved, ApplyActivated, SetupInv, CallsShaped, CallTrue
  <1>2. new \in Registrations /\ new.enabled /\ Tried(v) /\ v \in Connections /\ v # Null
    BY <1>1, SetupAssumption DEF HolderTrue, Tried
  <1> PICK k, s, p : k = old.key /\ s = old.read /\ p = old.pc
    OBVIOUS
  <1>3. old = [pc |-> p, key |-> k, read |-> s, row |-> new]
    BY <1>1
  <1>4. "saved" \notin {"draft"} \cup Connections
    BY SetupAssumption
  <1>5. CASE ApplyStarted(r)
    <2> PICK w : w = [pc |-> "saving", key |-> k, read |-> Saved, row |-> new]
      OBVIOUS
    <2>1. [old EXCEPT !.pc = "saving", !.read = Saved] = w
      <3> PICK x : x = Saved
        OBVIOUS
      <3> PICK mid : mid = [pc |-> "saving", key |-> k, read |-> s, row |-> new]
        OBVIOUS
      <3>1. [old EXCEPT !.pc = "saving"] = mid /\ [mid EXCEPT !.read = x] = w
        BY <1>3
      <3> QED BY <3>1
    <2>2. /\ old.pc = "starting" /\ job' = TRUE /\ call' = [call EXCEPT ![r] = w]
          /\ UNCHANGED <<rows, credentials, registry, gate, disk, tested>>
      BY <1>5, <2>1 DEF ApplyStarted, SetupInv, CallsShaped
    <2>3. JobAgrees
      BY <1>1, <2>2 DEF HolderTrue
    <2>4. RowsShaped' /\ InUseTried'
      BY <2>2 DEF SetupInv, RowsShaped, InUseTried, ResultTrue, Tried, Running, Managed, Draft, Saved,
             Digest, Approved, Material
    <2>5. Saved \in {Null} \cup SavedRows
      BY DEF SetupInv, RowsShaped
    <2>6. HolderTrue(w)'
      BY <1>2, <2>2, <2>3, <2>5 DEF HolderTrue, JobAgrees, Agrees, Managed, Saved, Tried, Material
    <2>7. w.pc = "saving" /\ w = [pc |-> w.pc, key |-> w.key, read |-> w.read, row |-> w.row]
      OBVIOUS
    <2>8. (\A q \in {"draft"} \cup Connections : rows'[q] = rows[q]) /\ rows'["saved"] = rows["saved"]
      BY <2>2
    <2>9. HolderMoves(r, w)
      BY <2>2, <2>7, <2>8 DEF HolderMoves
    <2> QED BY <2>4, <2>6, <2>9, Holder_Keeps
  <1>6. CASE ApplySaved(r)
    <2> PICK row : row = [values |-> v, enabled |-> TRUE, managed |-> TRUE]
      OBVIOUS
    <2> PICK is : is = IF s = Null THEN row ELSE Updated(Saved, s, row)
      OBVIOUS
    <2> PICK w : w = [pc |-> "activating", key |-> k, read |-> s, row |-> new]
      OBVIOUS
    <2>1. [old EXCEPT !.pc = "activating"] = w
      BY <1>3
    <2>2. /\ old.pc = "saving" /\ rows' = [rows EXCEPT !["saved"] = is]
          /\ call' = [call EXCEPT ![r] = w]
          /\ UNCHANGED <<credentials, registry, job, gate, disk, tested>>
      BY <1>6, <2>1 DEF ApplySaved, SetupInv, CallsShaped
    <2>3. row \in SavedRows
      BY <1>2 DEF SavedRows
    <2>4. is \in SavedRows /\ is # Null /\ is.managed /\ is.values = v
      <3>1. CASE s = Null
        BY <2>3, <3>1, SetupAssumption
      <3>2. CASE s # Null
        <4>1. /\ s \in SavedRows /\ Saved # Null
              /\ Saved.values = s.values /\ Saved.managed = s.managed
          BY <1>1, <2>2, <3>2 DEF HolderTrue
        <4>2. Saved \in SavedRows
          BY <4>1 DEF SetupInv, RowsShaped
        <4>3. is \in SavedRows /\ is.values = v /\ is.managed = TRUE
          BY <2>3, <3>2, <4>1, <4>2, UpdatedSaved
        <4> QED BY <4>3, SetupAssumption
      <3> QED BY <3>1, <3>2
    <2>5. /\ rows' = [q \in {"draft", "saved"} \cup Connections |-> rows'[q]]
          /\ \A q \in {"draft"} \cup Connections : rows'[q] = rows[q]
          /\ rows'["saved"] = is
      BY <1>4, <2>2 DEF SetupInv, RowsShaped
    <2>6. RowsShaped'
      BY <2>2, <2>4, <2>5 DEF SetupInv, RowsShaped, Draft, Saved
    <2>7. Tried(v)'
      BY <1>2, <2>2, <2>5 DEF Tried, Material
    <2>8. Saved' = is /\ Managed' /\ Tried(Saved.values)'
      BY <2>4, <2>5, <2>7 DEF Saved, Managed, Tried, Material
    <2>9. InUseTried'
      <3>1. Draft # Null => ResultTrue(Draft.tests)'
        <4>1. Draft # Null => Draft.tests \in {Null} \cup Results /\ ResultTrue(Draft.tests)
          BY DEF SetupInv, RowsShaped, InUseTried, DraftRows
        <4>2. Draft # Null /\ Draft.tests # Null => Draft.tests.digest[1] \in Connections
          BY <4>1 DEF Results
        <4> QED BY ZenonT(60), <2>2, <2>5, <4>1, <4>2 DEF ResultTrue, Digest, Approved, Material, Draft
      <3>2. Running' => Tried(registry.values)'
        BY <2>2, <2>5 DEF SetupInv, InUseTried, Running, Tried, Material
      <3> QED BY SMTT(30), <1>2, <2>4, <2>5, <2>8, <3>1, <3>2 DEF InUseTried, Draft, Managed
    <2>10. HolderTrue(w)'
      <3>1. Tried(w.row.values)' /\ w.row = new /\ w.pc = "activating"
        BY <2>7 DEF Tried, Material
      <3>2. job' = TRUE
        BY <1>1, <2>2 DEF HolderTrue
      <3> QED BY <1>2, <2>4, <2>8, <3>1, <3>2 DEF HolderTrue
    <2>11. w.pc = "activating" /\ w = [pc |-> w.pc, key |-> w.key, read |-> w.read, row |-> w.row]
      OBVIOUS
    <2>12. HolderMoves(r, w)
      BY <2>2, <2>4, <2>5, <2>8, <2>11 DEF HolderMoves
    <2> QED BY <2>6, <2>9, <2>10, <2>12, Holder_Keeps
  <1>7. CASE ApplyNotSaved(r)
    <2>1. /\ old.pc = "saving" /\ job' = registry.enabled /\ gate' = Null
          /\ call' = [call EXCEPT ![r] = IdleCall]
          /\ UNCHANGED <<rows, credentials, registry, disk, tested>>
      BY <1>7 DEF ApplyNotSaved, Ends
    <2>2. Agrees
      BY <1>1, <2>1 DEF HolderTrue
    <2>3. JobAgrees'
      BY SMTT(30), <2>1, <2>2 DEF JobAgrees, Agrees, Managed, Saved
    <2>4. RowsShaped' /\ InUseTried'
      BY <2>1 DEF SetupInv, RowsShaped, InUseTried, ResultTrue, Tried, Running, Managed, Draft, Saved,
             Digest, Approved, Material
    <2>5. /\ HolderTrue(IdleCall)' /\ IdleCall.pc = "idle"
          /\ IdleCall = [pc |-> IdleCall.pc, key |-> IdleCall.key, read |-> IdleCall.read, row |-> IdleCall.row]
      BY DEF IdleCall, HolderTrue
    <2>6. (\A q \in {"draft"} \cup Connections : rows'[q] = rows[q]) /\ rows'["saved"] = rows["saved"]
      BY <2>1
    <2>7. HolderMoves(r, IdleCall)
      BY <2>1, <2>3, <2>5, <2>6 DEF HolderMoves
    <2> QED BY <2>4, <2>5, <2>7, Holder_Keeps
  <1>8. CASE ApplyActivated(r)
    <2>1. /\ old.pc = "activating" /\ registry' = new /\ gate' = Null
          /\ call' = [call EXCEPT ![r] = IdleCall]
          /\ UNCHANGED <<rows, credentials, job, disk, tested>>
      BY <1>8 DEF ApplyActivated, Ends
    <2>2. Managed /\ Saved.values = v /\ job = TRUE /\ new.enabled = TRUE
      BY <1>1, <1>2, <2>1 DEF HolderTrue, Registrations
    <2>3. JobAgrees'
      BY <2>1, <2>2 DEF JobAgrees, Agrees, Managed, Saved
    <2>4. RowsShaped' /\ InUseTried'
      BY <1>2, <2>1 DEF SetupInv, RowsShaped, InUseTried, ResultTrue, Tried, Running, Managed, Draft, Saved,
             Digest, Approved, Material
    <2>5. /\ HolderTrue(IdleCall)' /\ IdleCall.pc = "idle"
          /\ IdleCall = [pc |-> IdleCall.pc, key |-> IdleCall.key, read |-> IdleCall.read, row |-> IdleCall.row]
      BY DEF IdleCall, HolderTrue
    <2>6. (\A q \in {"draft"} \cup Connections : rows'[q] = rows[q]) /\ rows'["saved"] = rows["saved"]
      BY <2>1
    <2>7. HolderMoves(r, IdleCall)
      BY <2>1, <2>3, <2>5, <2>6 DEF HolderMoves
    <2> QED BY <2>4, <2>5, <2>7, Holder_Keeps
  <1> QED BY <1>5, <1>6, <1>7, <1>8

LEMMA Started_Facts ==
    ASSUME NEW x \in Registrations, NEW ok \in BOOLEAN
    PROVE  /\ Started(x, ok) \in Registrations /\ Started(x, ok).values = x.values
           /\ Started(x, ok).enabled => x.enabled
  <1> PICK b : b = (x.enabled /\ ok)
    OBVIOUS
  <1> PICK u : u = [values |-> x.values, enabled |-> b, version |-> x.version]
    OBVIOUS
  <1>1. b \in BOOLEAN
    OBVIOUS
  <1>2. u \in Registrations
    BY <1>1 DEF Registrations
  <1>3. [x EXCEPT !.enabled = b] = u
    BY DEF Registrations
  <1>4. Started(x, ok) = u
    BY <1>3 DEF Started
  <1>5. b => x.enabled
    OBVIOUS
  <1>6. u.values = x.values /\ u.enabled = b
    OBVIOUS
  <1>7. u.enabled => x.enabled
    BY <1>5, <1>6
  <1> QED BY <1>2, <1>4, <1>6, <1>7

\* A registry that was built is started and becomes the active one.
LEMMA ReloadEnds_Keeps ==
    ASSUME SetupInv, EditsAlone, NEW r \in Calls, NEW ok \in BOOLEAN, ReloadEnds(r, ok) PROVE SetupInv'
  <1> PICK old : old = call[r]
    OBVIOUS
  <1> PICK new : new = Started(old.row, ok)
    OBVIOUS
  <1>1. /\ old.pc = "reloading" /\ registry' = new /\ job' = registry'.enabled /\ gate' = Null
        /\ call' = [call EXCEPT ![r] = IdleCall]
        /\ UNCHANGED <<rows, credentials, disk, tested>>
    BY DEF ReloadEnds, Ends
  <1>2. /\ old.row \in Registrations
        /\ old.row.values # Null /\ old.row.enabled => Tried(old.row.values)
        /\ Managed => old.row.values = Saved.values
    BY <1>1 DEF SetupInv, CallTrue, HolderTrue
  <1>3. new \in Registrations /\ new.values = old.row.values /\ (new.enabled => old.row.enabled)
    BY <1>2, Started_Facts
  <1>4. new.enabled /\ new.values # Null => Tried(new.values)
    BY <1>2, <1>3
  <1>5. JobAgrees'
    BY SMTT(30), <1>1, <1>2, <1>3 DEF JobAgrees, Agrees, Managed, Saved
  <1>6. RowsShaped' /\ InUseTried'
    BY <1>1, <1>3, <1>4 DEF SetupInv, RowsShaped, InUseTried, ResultTrue, Tried, Running, Managed, Draft, Saved,
           Digest, Approved, Material
  <1>7. /\ HolderTrue(IdleCall)' /\ IdleCall.pc = "idle"
        /\ IdleCall = [pc |-> IdleCall.pc, key |-> IdleCall.key, read |-> IdleCall.read, row |-> IdleCall.row]
    BY DEF IdleCall, HolderTrue
  <1>8. (\A q \in {"draft"} \cup Connections : rows'[q] = rows[q]) /\ rows'["saved"] = rows["saved"]
    BY <1>1
  <1>9. HolderMoves(r, IdleCall)
    BY <1>1, <1>5, <1>7, <1>8 DEF HolderMoves
  <1> QED BY <1>6, <1>7, <1>9, Holder_Keeps

LEMMA SetupRestart_Keeps ==
    ASSUME SetupInv, NEW ok \in BOOLEAN, Restart(ok) PROVE SetupInv'
  <1> PICK new : new = Started(Built, ok)
    OBVIOUS
  <1>1. /\ call' = [r \in Calls |-> IdleCall] /\ gate' = Null /\ registry' = new
        /\ job' = registry'.enabled /\ UNCHANGED <<rows, credentials, disk, tested>>
    BY DEF Restart
  <1>2. new \in Registrations /\ new.values = Built.values /\ (new.enabled => Built.enabled)
    BY Built_True, Started_Facts
  <1>3. new.enabled /\ new.values # Null => Tried(new.values)
    BY <1>2, Built_True
  <1>4. JobAgrees'
    BY SMTT(30), <1>1, <1>2, Built_True DEF JobAgrees, Agrees, Managed, Saved
  <1>5. RowsShaped' /\ InUseTried'
    BY <1>1, <1>2, <1>3 DEF SetupInv, RowsShaped, InUseTried, ResultTrue, Tried, Running, Managed, Draft, Saved,
           Digest, Approved, Material
  <1>6. \A r \in Calls : call'[r] = IdleCall
    BY <1>1
  <1>7. CallsShaped' /\ ChangesAlone'
    BY <1>1, <1>6, SetupAssumption DEF CallsShaped, ChangesAlone, ConnectionEdit, IdleCall, HoldingGate
  <1>8. (\A r \in Calls : CallTrue(call[r]))'
    BY <1>6 DEF CallTrue, DraftTrue, SwitchTrue, ChangeTrue, ConnectionEdit, HolderTrue, IdleCall
  <1> QED BY <1>4, <1>5, <1>7, <1>8 DEF SetupInv

\* A commit that is rolled back.
LEMMA Rollback_Keeps ==
    ASSUME SetupInv, EditsAlone, NEW r \in Calls, call[r].pc = "commit", Ends(r),
           UNCHANGED <<rows, credentials, registry, job, gate, disk, tested>>
    PROVE  SetupInv'
  <1>1. gate # r
    BY DEF SetupInv, CallsShaped, HoldingGate
  <1>2. Moves(r, IdleCall)
    BY <1>1 DEF Moves, Ends, IdleCall, HoldingGate, ConnectionEdit
  <1> QED BY <1>2, IdleCall_True, Request_Keeps DEF SetupInv, GateFree

\* A connection is written: the others are idle, and it is the one that was read.
LEMMA CommitConnection_Keeps ==
    ASSUME SetupInv, EditsAlone, NEW r \in Calls, Commit(r), call[r].key \in Connections PROVE SetupInv'
  <1> PICK w : w = call[r]
    OBVIOUS
  <1> PICK c : c = w.key
    OBVIOUS
  <1> PICK old : old = rows[c]
    OBVIOUS
  <1> PICK new : new = w.row
    OBVIOUS
  <1>1. w.pc = "commit" /\ Ends(r) /\ UNCHANGED <<credentials, registry, job, gate, disk, tested>>
    BY DEF Commit
  <1>2. /\ c \in Connections /\ c \notin {"draft", "saved"} /\ ConnectionEdit(w)
        /\ w.read = old /\ new \in ConnectionRows /\ new # Null
        /\ old # Null => /\ old \in ConnectionRows
                         /\ new.revision > old.revision
                         /\ \/ NotActive(c)
                            \/ new.host = old.host /\ new.approved = old.approved /\ new.credential = old.credential
    BY <1>1, SetupAssumption DEF SetupInv, CallTrue, ChangeTrue, ConnectionEdit, RowsShaped
  <1>3. \A q \in Calls : q # r => call[q].pc = "idle"
    BY <1>2 DEF SetupInv, ChangesAlone
  <1>4. CASE rows' = rows
    BY <1>1, <1>4, Rollback_Keeps
  <1>5. CASE rows' # rows
    <2>1. old # Null => Updated(old, old, new) = new
      BY <1>2, UpdatedConnection
    <2>2. rows' = [rows EXCEPT ![c] = new]
      BY <1>2, <1>5, <2>1 DEF Commit
    <2>3. /\ rows' = [k \in {"draft", "saved"} \cup Connections |-> rows'[k]]
          /\ \A k \in {"draft", "saved"} \cup Connections : rows'[k] = IF k = c THEN new ELSE rows[k]
      BY <1>2, <2>2 DEF SetupInv, RowsShaped
    <2>4. Draft' = Draft /\ Saved' = Saved
      BY <1>2, <2>3 DEF Draft, Saved
    <2>5. RowsShaped'
      BY <1>1, <1>2, <2>3, <2>4 DEF SetupInv, RowsShaped
    <2>6. /\ CallsShaped' /\ ChangesAlone'
          /\ \A q \in Calls : call'[q].pc = "idle"
      <3>1. \A q \in Calls : call'[q] = IF q = r THEN IdleCall ELSE call[q]
        BY <1>1 DEF Ends, SetupInv, CallsShaped
      <3>2. gate # r
        BY <1>1 DEF SetupInv, CallsShaped, HoldingGate
      <3>3. Moves(r, IdleCall)
        BY <1>1, <3>2 DEF Moves, Ends, IdleCall, HoldingGate, ConnectionEdit
      <3>4. CallsShaped' /\ ChangesAlone'
        BY <3>3, Calls_Keep DEF SetupInv
      <3> QED BY <1>3, <3>1, <3>4 DEF IdleCall
    <2>7. gate = Null /\ JobAgrees'
      BY <1>1, <1>3, <2>4 DEF SetupInv, CallsShaped, HoldingGate, GateFree, JobAgrees, Agrees, Managed
    <2>8. \A k \in Connections : k # c => Material(k)' = Material(k) /\ Digest(k)' = Digest(k)
      BY <1>2, <2>3 DEF Material, Digest, Approved
    <2>9. ASSUME NEW v, Tried(v), v = c => old # Null /\ ~ NotActive(c) PROVE Tried(v)'
      <3>1. CASE v # c
        BY <1>1, <2>3, <2>9, <3>1 DEF Tried, Material
      <3>2. CASE v = c
        <4>1. new.host = old.host /\ new.approved = old.approved /\ new.credential = old.credential
          BY <1>2, <2>9, <3>2
        <4> QED BY <1>1, <1>2, <2>3, <2>9, <3>2, <4>1 DEF Tried, Material
      <3> QED BY <3>1, <3>2
    <2>10. ASSUME NEW t \in Results, ResultTrue(t) PROVE ResultTrue(t)'
      <3> PICK k : k = t.digest[1]
        OBVIOUS
      <3>1. k \in Connections /\ t.digest[2] \in Int
        BY DEF Results
      <3>2. CASE k # c
        BY <1>1, <2>3, <2>10, <3>1, <3>2 DEF ResultTrue, Digest, Approved, Material
      <3>3. CASE k = c
        <4>1. SUFFICES ASSUME t.ok PROVE ResultTrue(t)'
          BY DEF ResultTrue
        <4>2. t # Null
          BY SetupAssumption
        <4>3. old # Null /\ t.digest[2] <= old.revision
          BY <2>10, <3>3, <4>1, <4>2 DEF ResultTrue
        <4>4. new.revision \in Int /\ old.revision \in Int /\ new.revision > old.revision
          BY <1>2, <4>3 DEF ConnectionRows
        <4>5. new.revision > t.digest[2] /\ new.revision # t.digest[2]
          BY <3>1, <4>3, <4>4
        <4>6. rows'[c] = new
          BY <1>2, <2>3
        <4>7. Digest(c)' # t.digest
          <5>1. t.digest # Null
            <6>1. t.digest \in Connections \X (1 .. MaxRevision) \X HostKeys \X Credentials
              BY DEF Results
            <6> QED BY <6>1, SetupAssumption
          <5>2. CASE Digest(c)' = Null
            BY <5>1, <5>2
          <5>3. CASE Digest(c)' # Null
            <6> PICK there : there = Digest(c)'
              OBVIOUS
            <6>1. there = <<c, new.revision, new.approved, new.credential>>
              BY <4>6, <5>3 DEF Digest
            <6>2. there[2] = new.revision
              BY <6>1
            <6> QED BY <4>5, <6>2
          <5> QED BY <5>2, <5>3
        <4>8. rows'[c] # Null /\ t.digest[2] <= rows'[c].revision
          BY <1>2, <3>1, <4>4, <4>5, <4>6
        <4> QED BY <3>3, <4>7, <4>8 DEF ResultTrue
      <3> QED BY <3>2, <3>3
    <2>11. InUseTried'
      <3>1. (Draft # Null => ResultTrue(Draft.tests))'
        <4>1. Draft # Null => Draft.tests \in {Null} \cup Results /\ ResultTrue(Draft.tests)
          BY DEF SetupInv, RowsShaped, InUseTried, DraftRows
        <4> QED BY <2>4, <2>10, <4>1 DEF ResultTrue
      <3>2. (Running => Tried(registry.values))'
        <4>1. Running => Tried(registry.values)
          BY DEF SetupInv, InUseTried
        <4>2. Running /\ registry.values = c => old # Null /\ ~ NotActive(c)
          BY <4>1 DEF Tried, NotActive, Running
        <4> QED BY <1>1, <2>9, <4>1, <4>2 DEF Running
      <3>3. (Managed /\ Saved.enabled => Tried(Saved.values))'
        <4>1. Managed /\ Saved.enabled => Tried(Saved.values) /\ Saved.enabled = TRUE
          BY DEF SetupInv, InUseTried, Managed, RowsShaped, SavedRows
        <4>2. Managed /\ Saved.enabled /\ Saved.values = c => old # Null /\ ~ NotActive(c)
          BY <4>1 DEF Tried, NotActive, Managed
        <4> QED BY <2>4, <2>9, <4>1, <4>2 DEF Managed
      <3> QED BY <2>4, <3>1, <3>2, <3>3 DEF SetupInv, InUseTried, Managed
    <2>12. (\A q \in Calls : CallTrue(call[q]))'
      BY <2>6 DEF CallTrue, DraftTrue, SwitchTrue, ChangeTrue, ConnectionEdit, HolderTrue
    <2> QED BY <2>5, <2>6, <2>7, <2>11, <2>12 DEF SetupInv
  <1> QED BY <1>4, <1>5

LEMMA CommitDraft_Keeps ==
    ASSUME SetupInv, EditsAlone, NEW r \in Calls, Commit(r), call[r].key = "draft" PROVE SetupInv'
  <1> PICK w : w = call[r]
    OBVIOUS
  <1> PICK is : is = IF w.read = Null THEN w.row ELSE Updated(Draft, w.read, w.row)
    OBVIOUS
  <1>1. w.pc = "commit" /\ Ends(r) /\ UNCHANGED <<credentials, registry, job, gate, disk, tested>>
    BY DEF Commit
  <1>2. /\ w.key = "draft" /\ DraftTrue(w) /\ "draft" \notin Connections \cup {"saved"}
    BY SetupAssumption DEF SetupInv, CallTrue
  <1>3. is \in DraftRows /\ is # Null /\ ResultTrue(is.tests)
    <2>1. /\ w.read \in {Null} \cup DraftRows /\ w.row \in DraftRows /\ ResultTrue(w.row.tests)
          /\ w.read # Null => Draft # Null
      BY <1>1, <1>2 DEF DraftTrue
    <2>2. Draft # Null => Draft \in DraftRows /\ ResultTrue(Draft.tests)
      BY DEF SetupInv, RowsShaped, InUseTried
    <2>3. CASE w.read = Null
      BY <2>1, <2>3, SetupAssumption
    <2>4. CASE w.read # Null
      <3>1. is \in DraftRows /\ is.tests \in {Draft.tests, w.row.tests}
        BY <2>1, <2>2, <2>4, UpdatedDraft
      <3> QED BY <2>1, <2>2, <2>4, <3>1, SetupAssumption
    <2> QED BY <2>3, <2>4
  <1>4. CASE rows' = rows
    BY <1>1, <1>4, Rollback_Keeps
  <1>5. CASE rows' # rows
    <2>1. rows' = [rows EXCEPT !["draft"] = is]
      BY <1>2, <1>5 DEF Commit, Draft
    <2>2. /\ rows' = [k \in {"draft", "saved"} \cup Connections |-> rows'[k]]
          /\ Draft' = is /\ Saved' = Saved /\ \A c \in Connections : rows'[c] = rows[c]
      BY <1>2, <2>1 DEF SetupInv, RowsShaped, Draft, Saved
    <2>3. RowsShaped'
      BY <1>1, <1>3, <2>2 DEF SetupInv, RowsShaped
    <2>4. CallsShaped' /\ ChangesAlone' /\ \A q \in Calls : call'[q] = IF q = r THEN IdleCall ELSE call[q]
      <3>1. gate # r
        BY <1>1 DEF SetupInv, CallsShaped, HoldingGate
      <3>2. Moves(r, IdleCall)
        BY <1>1, <3>1 DEF Moves, Ends, IdleCall, HoldingGate, ConnectionEdit
      <3> QED BY <3>2, Calls_Keep DEF SetupInv
    <2>5. ASSUME NEW t \in {Null} \cup Results, ResultTrue(t) PROVE ResultTrue(t)'
      <3>1. t # Null => t.digest[1] \in Connections
        BY DEF Results
      <3> QED BY <1>1, <2>2, <2>5, <3>1 DEF ResultTrue, Digest, Approved, Material
    <2>6. ASSUME NEW v, Tried(v) PROVE Tried(v)'
      BY <1>1, <2>2, <2>6 DEF Tried, Material
    <2>7. InUseTried'
      <3>1. is.tests \in {Null} \cup Results
        BY SMTT(30), <1>3 DEF DraftRows
      <3>2. (Draft # Null => ResultTrue(Draft.tests))'
        BY <1>3, <2>2, <2>5, <3>1 DEF ResultTrue
      <3>3. (Running => Tried(registry.values))'
        BY <1>1, <2>6 DEF SetupInv, InUseTried, Running
      <3> QED BY <2>2, <2>6, <3>2, <3>3 DEF SetupInv, InUseTried, Managed
    <2>8. JobAgrees' <=> JobAgrees
      BY <1>1, <2>2 DEF JobAgrees, Agrees, Managed
    <2>9. ASSUME NEW q \in Calls PROVE CallTrue(call[q])'
      <3>1. CASE q = r
        BY <2>4, <3>1 DEF CallTrue, DraftTrue, SwitchTrue, ChangeTrue, ConnectionEdit, HolderTrue, IdleCall
      <3>2. CASE q # r
        <4> PICK v : v = call[q]
          OBVIOUS
        <4>1. call'[q] = v /\ CallTrue(v)
          BY <2>4, <3>2 DEF SetupInv
        <4>2. DraftTrue(call[q])'
          <5>1. ASSUME v.pc = "commit", v.key = "draft" PROVE ResultTrue(v.row.tests)'
            <6>1. v.row.tests \in {Null} \cup Results /\ ResultTrue(v.row.tests)
              BY <4>1, <5>1 DEF CallTrue, DraftTrue, DraftRows
            <6> QED BY <2>5, <6>1 DEF ResultTrue
          <5> QED BY <1>3, <2>2, <4>1, <5>1 DEF CallTrue, DraftTrue
        <4>3. SwitchTrue(call[q])'
          BY <1>1, <2>2, <4>1 DEF CallTrue, SwitchTrue, Managed, Tried, Material
        <4>4. ChangeTrue(call[q])'
          BY SMTT(30), <1>1, <2>2, <4>1 DEF CallTrue, ChangeTrue, ConnectionEdit, NotActive
        <4>5. HolderTrue(call[q])'
          <5>1. v.pc = "acting" => v.read.values \in Connections
            BY <4>1 DEF CallTrue, HolderTrue, DraftRows
          <5>2. JobAgrees' <=> JobAgrees
            BY <2>8
          <5> QED BY <1>1, <1>3, <2>2, <4>1, <5>1
                  DEF CallTrue, HolderTrue, JobAgrees, Agrees, Managed, Digest, Approved, Tried, Material
        <4> QED BY <4>1, <4>2, <4>3, <4>4, <4>5 DEF CallTrue
      <3> QED BY <3>1, <3>2
    <2> QED BY <1>1, <2>3, <2>4, <2>7, <2>8, <2>9 DEF SetupInv, GateFree
  <1> QED BY <1>4, <1>5

LEMMA CommitSwitch_Keeps ==
    ASSUME SetupInv, EditsAlone, NEW r \in Calls, Commit(r), call[r].key = "saved" PROVE SetupInv'
  <1> PICK w : w = call[r]
    OBVIOUS
  <1> PICK is : is = IF w.read = Null THEN w.row ELSE Updated(Saved, w.read, w.row)
    OBVIOUS
  <1>1. w.pc = "commit" /\ Ends(r) /\ UNCHANGED <<credentials, registry, job, gate, disk, tested>>
    BY DEF Commit
  <1>2. /\ w.key = "saved" /\ SwitchTrue(w) /\ "saved" \notin Connections \cup {"draft"}
    BY SetupAssumption DEF SetupInv, CallTrue
  <1>3. CASE rows' = rows
    BY <1>1, <1>3, Rollback_Keeps
  <1>4. CASE rows' # rows
    <2>1. rows' = [rows EXCEPT !["saved"] = is] /\ (w.read = Null => Saved = Null)
      BY <1>2, <1>4 DEF Commit, Saved
    <2>2. /\ is \in SavedRows /\ is # Null
          /\ Saved = Null => is.values = Null /\ ~ is.managed
          /\ Saved # Null => is.values = Saved.values /\ is.managed = Saved.managed
          /\ Managed /\ is.enabled => Tried(Saved.values)
      <3>1. /\ w.read \in {Null} \cup SavedRows /\ w.row \in SavedRows
            /\ w.read = Null => w.row.values = Null /\ ~ w.row.managed
            /\ w.read # Null => Saved # Null /\ w.row.values = w.read.values /\ w.row.managed = w.read.managed
            /\ w.row.enabled /\ Managed => Tried(Saved.values)
        BY <1>1, <1>2 DEF SwitchTrue
      <3>2. /\ Saved # Null => Saved \in SavedRows
            /\ Managed /\ Saved.enabled => Tried(Saved.values)
        BY DEF SetupInv, RowsShaped, InUseTried
      <3>3. CASE w.read = Null
        BY <2>1, <3>1, <3>3, SetupAssumption DEF Managed
      <3>4. CASE w.read # Null
        <4>1. Saved \in SavedRows /\ w.read \in SavedRows
          BY <3>1, <3>2, <3>4
        <4>2. /\ is \in SavedRows /\ is.values = Saved.values /\ is.managed = Saved.managed
              /\ is.enabled \in {w.row.enabled, Saved.enabled}
          BY <3>1, <3>4, <4>1, UpdatedSaved
        <4>3. Managed /\ is.enabled => Tried(Saved.values)
          BY <3>1, <3>2, <4>2
        <4> QED BY <3>1, <3>4, <4>2, <4>3, SetupAssumption
      <3> QED BY <3>3, <3>4
    <2>3. /\ rows' = [k \in {"draft", "saved"} \cup Connections |-> rows'[k]]
          /\ Draft' = Draft /\ Saved' = is /\ \A c \in Connections : rows'[c] = rows[c]
      BY <1>2, <2>1 DEF SetupInv, RowsShaped, Draft, Saved
    <2>4. RowsShaped'
      BY <1>1, <2>2, <2>3 DEF SetupInv, RowsShaped
    <2>5. /\ CallsShaped' /\ ChangesAlone' /\ \A q \in Calls : call'[q] = IF q = r THEN IdleCall ELSE call[q]
          /\ \A q \in Calls : ConnectionEdit(call[q]) => q = r
      <3>1. gate # r
        BY <1>1 DEF SetupInv, CallsShaped, HoldingGate
      <3>2. Moves(r, IdleCall)
        BY <1>1, <3>1 DEF Moves, Ends, IdleCall, HoldingGate, ConnectionEdit
      <3>3. \A q \in Calls : ConnectionEdit(call[q]) => q = r
        BY <1>1 DEF SetupInv, ChangesAlone
      <3> QED BY <3>2, <3>3, Calls_Keep DEF SetupInv
    <2>6. (Managed' <=> Managed) /\ (Managed => Saved'.values = Saved.values) /\ (JobAgrees' <=> JobAgrees)
          /\ (Agrees' <=> Agrees)
      <3>1. Managed' <=> is.managed
        BY <2>2, <2>3 DEF Managed
      <3>2. (Managed' <=> Managed) /\ (Managed => Saved'.values = Saved.values)
        BY <2>2, <2>3, <3>1 DEF Managed
      <3> QED BY <1>1, <3>2 DEF JobAgrees, Agrees
    <2>7. ASSUME NEW t \in {Null} \cup Results, ResultTrue(t) PROVE ResultTrue(t)'
      <3>1. t # Null => t.digest[1] \in Connections
        BY DEF Results
      <3> QED BY <1>1, <2>3, <2>7, <3>1 DEF ResultTrue, Digest, Approved, Material
    <2>8. ASSUME NEW v, Tried(v) PROVE Tried(v)'
      BY <1>1, <2>3, <2>8 DEF Tried, Material
    <2>9. InUseTried'
      <3>1. Draft # Null => Draft.tests \in {Null} \cup Results /\ ResultTrue(Draft.tests)
        BY DEF SetupInv, RowsShaped, InUseTried, DraftRows
      <3>2. (Draft # Null => ResultTrue(Draft.tests))'
        BY <2>3, <2>7, <3>1 DEF ResultTrue
      <3>3. (Running => Tried(registry.values))'
        BY <1>1, <2>8 DEF SetupInv, InUseTried, Running
      <3>4. (Managed => Saved.values \in Connections /\ (Saved.enabled => Tried(Saved.values)))'
        <4>1. Managed => Saved.values \in Connections
          BY DEF SetupInv, InUseTried
        <4>2. ASSUME Managed, is.enabled PROVE Tried(is.values)'
          <5>1. Tried(Saved.values) /\ is.values = Saved.values
            BY <2>2, <4>2 DEF Managed
          <5> QED BY <2>8, <5>1
        <4> QED BY <2>3, <2>6, <4>1, <4>2 DEF Tried, Material
      <3>5. (Saved # Null /\ ~ Saved.managed => Saved.values = Null)'
        BY <2>2, <2>3 DEF SetupInv, InUseTried
      <3> QED BY <3>2, <3>3, <3>4, <3>5 DEF InUseTried
    <2>10. ASSUME NEW q \in Calls PROVE CallTrue(call[q])'
      <3>1. CASE q = r
        BY <2>5, <3>1 DEF CallTrue, DraftTrue, SwitchTrue, ChangeTrue, ConnectionEdit, HolderTrue, IdleCall
      <3>2. CASE q # r
        <4> PICK v : v = call[q]
          OBVIOUS
        <4>1. call'[q] = v /\ CallTrue(v) /\ ~ ConnectionEdit(v)
          BY <2>5, <3>2 DEF SetupInv
        <4>2. DraftTrue(call[q])'
          <5>1. ASSUME v.pc = "commit", v.key = "draft" PROVE ResultTrue(v.row.tests)'
            <6>1. v.row.tests \in {Null} \cup Results /\ ResultTrue(v.row.tests)
              BY <4>1, <5>1 DEF CallTrue, DraftTrue, DraftRows
            <6> QED BY <2>7, <6>1 DEF ResultTrue
          <5> QED BY <2>3, <4>1, <5>1 DEF CallTrue, DraftTrue
        <4>3. SwitchTrue(call[q])'
          <5>1. Managed => Saved.values \in Connections
            BY DEF SetupInv, InUseTried
          <5> QED BY <1>1, <2>2, <2>3, <2>6, <4>1, <5>1 DEF CallTrue, SwitchTrue, Tried, Material
        <4>4. HolderTrue(call[q])'
          <5>1. v.pc = "acting" => v.read.values \in Connections
            BY <4>1 DEF CallTrue, HolderTrue, DraftRows
          <5>2. Managed => Saved # Null
            BY DEF Managed
          <5> QED BY <1>1, <2>2, <2>3, <2>6, <4>1, <5>1, <5>2
                  DEF CallTrue, HolderTrue, Digest, Approved, Tried, Material
        <4> QED BY <4>1, <4>2, <4>3, <4>4 DEF CallTrue, ChangeTrue, ConnectionEdit
      <3> QED BY <3>1, <3>2
    <2> QED BY <1>1, <2>4, <2>5, <2>6, <2>9, <2>10 DEF SetupInv, GateFree
  <1> QED BY <1>3, <1>4

LEMMA EditStep_Keeps_Setup ==
    ASSUME SetupInv, EditsAlone, NEW r \in Calls, EditStep(r) PROVE SetupInv'
  <1>1. ASSUME NEW k \in Credentials, CreateCredential(r, k) \/ DeleteCredential(r, k) PROVE SetupInv'
    <2>1. /\ UNCHANGED <<rows, registry, job, gate, call, disk, tested>>
          /\ credentials' \subseteq Credentials
      BY <1>1 DEF CreateCredential, DeleteCredential, SetupInv, RowsShaped
    <2>2. disk' \in 1 .. MaxVersion
      BY <2>1 DEF SetupInv, RowsShaped
    <2> QED BY <2>1, <2>2, Outside_Keeps
  <1>2. CASE Commit(r)
    <2>1. call[r].key \in {"draft", "saved"} \cup Connections
      BY <1>2 DEF Commit, SetupInv, CallTrue
    <2> QED BY <1>2, <2>1, CommitDraft_Keeps, CommitSwitch_Keeps, CommitConnection_Keeps
  <1>3. ASSUME NEW c \in Connections, NEW h \in Hosts, NEW k \in Credentials,
               CreateConnection(r, c, h, k) \/ UpdateConnection(r, c, h, k)
        PROVE  SetupInv'
    BY <1>3, ConnectionEdit_Keeps
  <1>4. ASSUME NEW c \in Connections, ApproveHostKey(r, c) PROVE SetupInv'
    BY <1>4, ConnectionEdit_Keeps
  <1> QED BY <1>1, <1>2, <1>3, <1>4, DraftEdit_Keeps, Probe_Keeps, Patch_Keeps DEF EditStep

LEMMA SetupInv_Next ==
    ASSUME SetupInv, EditsAlone, [SetupNext]_setupVars PROVE SetupInv'
  <1>1. CASE UNCHANGED setupVars
    <2>1. credentials' \subseteq Credentials /\ disk' \in 1 .. MaxVersion
      BY <1>1 DEF setupVars, SetupInv, RowsShaped
    <2> QED BY <1>1, <2>1, Outside_Keeps DEF setupVars
  <1>2. ASSUME NEW r \in Calls, ApplyStep(r) PROVE SetupInv'
    BY <1>2, Takes_Keeps, ActionDone_Keeps, NotStarted_Keeps, Apply_Keeps, ReloadEnds_Keeps DEF ApplyStep
  <1>3. CASE PackageReplaced
    <2>1. /\ UNCHANGED <<rows, credentials, registry, job, gate, call, tested>>
          /\ disk < MaxVersion /\ disk' = disk + 1
      BY <1>3 DEF PackageReplaced
    <2>2. credentials' \subseteq Credentials /\ disk' \in 1 .. MaxVersion
      BY <2>1, SetupAssumption DEF SetupInv, RowsShaped
    <2> QED BY <2>1, <2>2, Outside_Keeps
  <1> QED BY <1>1, <1>2, <1>3, EditStep_Keeps_Setup, SetupRestart_Keeps DEF SetupNext

\* A connection in use is written only as what it was for a worker.
LEMMA Material_Kept ==
    ASSUME SetupInv, EditsAlone, [SetupNext]_setupVars, NEW c \in Connections, rows[c] # Null, InUse(c)
    PROVE  Material(c)' = Material(c)
  <1>1. CASE rows'[c] = rows[c]
    BY <1>1 DEF Material
  <1>2. ASSUME NEW r \in Calls, Commit(r) PROVE rows'[c] = rows[c] \/ Material(c)' = Material(c)
    <2> PICK w : w = call[r]
      OBVIOUS
    <2> PICK old : old = rows[c]
      OBVIOUS
    <2>1. SUFFICES ASSUME w.key = c, rows' # rows PROVE Material(c)' = Material(c)
      BY <1>2 DEF Commit, SetupInv, RowsShaped
    <2>2. w.pc = "commit" /\ ConnectionEdit(w)
      BY <1>2, <2>1 DEF Commit, ConnectionEdit
    <2>3. ~ NotActive(c)
      BY SetupAssumption DEF InUse, Running, NotActive
    <2>4. /\ w.read = old /\ old \in ConnectionRows /\ w.row \in ConnectionRows
          /\ w.row.host = old.host /\ w.row.approved = old.approved /\ w.row.credential = old.credential
      BY <2>1, <2>2, <2>3 DEF SetupInv, RowsShaped, CallTrue, ChangeTrue
    <2>5. Updated(old, old, w.row) = w.row
      BY <2>4, UpdatedConnection
    <2>6. rows' = [rows EXCEPT ![c] = w.row]
      BY <1>2, <2>1, <2>4, <2>5 DEF Commit
    <2>7. rows'[c] = w.row
      BY <2>6 DEF SetupInv, RowsShaped
    <2> QED BY <2>4, <2>7 DEF Material
  <1>3. ASSUME NEW r \in Calls, ApplySaved(r) PROVE rows'[c] = rows[c]
    BY <1>3, SetupAssumption DEF ApplySaved
  <1>4. ASSUME NEW r \in Calls, EditStep(r), ~ Commit(r) PROVE UNCHANGED rows
    BY <1>4 DEF EditStep, PutDraft, ImportConfiguration, CreateConnection, UpdateConnection, ProbeHostKey,
                ApproveHostKey, Edit, HostKeyAnswered, HostKeyUnanswered, CreateCredential,
                DeleteCredential, PatchCollector
  <1>5. ASSUME NEW r \in Calls, ApplyStep(r), ~ ApplySaved(r) PROVE UNCHANGED rows
    BY <1>5 DEF ApplyStep, ExecuteAction, ActionDone, ApplyConfiguration, ApplyNotStarted, ApplyStarted,
                ApplyNotSaved, ApplyActivated, ReloadBegins, ReloadEnds
  <1>6. CASE (\E ok \in BOOLEAN : Restart(ok)) \/ PackageReplaced \/ UNCHANGED setupVars
    BY <1>1, <1>6 DEF Restart, PackageReplaced, setupVars
  <1> QED BY <1>1, <1>2, <1>3, <1>4, <1>5, <1>6 DEF SetupNext

\* ConfigurationInUse: where the edit of a connection overlaps no other request, what
\* a plugin collects with - host, approved key and SSH key - was tested as it is, what
\* is active is what was applied and saved, and neither changes while it is in use,
\* however tests, switches, reloads, restarts and keys that come and go interleave.
THEOREM ConfigurationInUseIsTested ==
    ASSUME EditsAlone PROVE SetupSpec => ConfigurationInUse
  <1>1. SetupInit => SetupInv
    BY SetupInv_Init
  <1>2. SetupInv /\ [SetupNext]_setupVars => SetupInv'
    BY SetupInv_Next
  <1>3. SetupInv /\ [SetupNext]_setupVars =>
            [\A c \in Connections : rows[c] # Null /\ InUse(c) => Material(c)' = Material(c)]_setupVars
    BY Material_Kept
  <1>4. SetupInv => EnabledWasTested /\ AppliedIsSaved
    BY SetupInv_Holds
  <1> QED BY <1>1, <1>2, <1>3, <1>4, PTL DEF SetupSpec, ConfigurationInUse, ConnectionInUseKept

-----------------------------------------------------------------------------
(* The shape of every machine, and all of them side by side.                 *)

LEMMA PackagesTypes ==
    ASSUME Apart PROVE PackagesSpec => []PackagesTypeOK
  <1>1. PackagesInv => PackagesTypeOK
    BY DEF PackagesInv, Shapes
  <1> QED BY <1>1, PackagesInv_Always, PTL

LEMMA SetupTypes ==
    ASSUME EditsAlone PROVE SetupSpec => []SetupTypeOK
  <1>1. SetupInit => SetupInv
    BY SetupInv_Init
  <1>2. SetupInv /\ [SetupNext]_setupVars => SetupInv'
    BY SetupInv_Next
  <1>3. SetupInv => SetupTypeOK
    BY DEF SetupInv, RowsShaped, CallsShaped, SetupTypeOK, Draft, Saved, HoldingGate
  <1> QED BY <1>1, <1>2, <1>3, PTL DEF SetupSpec

\* What the first start and the accounts add to the shape of a database.
StartsShaped ==
    /\ engine \in {"sqlite", "postgresql"} /\ adminDirectory \in BOOLEAN
    /\ accounts \subseteq [name : Names, admin : BOOLEAN]
    /\ starts \in 0 .. MaxStarts

LEMMA StartupTypes == StartupSpec => []StartupTypeOK
  <1> USE StartupAssumption
  <1>1. StartupInit => StartsShaped
    BY DEF StartupInit, StartsShaped
  <1>2. StartsShaped /\ [StartupNext]_startupVars => StartsShaped'
    <2> SUFFICES ASSUME StartsShaped, [StartupNext]_startupVars PROVE StartsShaped'
      OBVIOUS
    <2>1. CASE UNCHANGED <<engine, adminDirectory, accounts, starts>>
      BY <2>1 DEF StartsShaped
    <2>2. ASSUME NEW p \in Procs, NEW c \in Settings, Start(p, c) PROVE StartsShaped'
      BY <2>2 DEF Start, StartsShaped
    <2>3. ASSUME NEW p \in Procs, MigrationStep(p) PROVE StartsShaped'
      BY <2>3, <2>1 DEF MigrationStep, TakeLock, LockTimesOut, AtHead, Inspect, InspectStops, Backup,
         BackupFails, Stamp, Upgrade, UpgradeFails, Prune
    <2>4. ASSUME NEW p \in Procs, AfterMigration(p) PROVE StartsShaped'
      <3>1. CASE CreateAdmin(p)
        <4>1. [name |-> AdminName, admin |-> TRUE] \in [name : Names, admin : BOOLEAN]
          OBVIOUS
        <4>2. /\ UNCHANGED <<engine, adminDirectory, starts>>
              /\ accounts' \in {accounts, accounts \cup {[name |-> AdminName, admin |-> TRUE]}}
          BY <3>1 DEF CreateAdmin
        <4> HIDE StartupAssumption
        <4> QED BY <4>1, <4>2 DEF StartsShaped
      <3> QED BY <2>4, <3>1, <2>1 DEF AfterMigration, EnsureAdmin, Recheck, ReadSecrets, EncryptSecrets
    <2>5. ASSUME NEW name \in Names, NEW admin \in BOOLEAN, CreateUser(name, admin) PROVE StartsShaped'
      BY <2>5 DEF CreateUser, StartsShaped
    <2> QED BY <2>1, <2>2, <2>3, <2>4, <2>5 DEF StartupNext, startupVars, Crash, SaveSecret, Restore
  <1>3. StartupInv /\ StartsShaped => StartupTypeOK
    BY DEF StartupInv, StartupShaped, StartupTypeOK, StartsShaped, Starting, Down, Places, SecretRows
  <1> QED BY <1>1, <1>2, <1>3, StartupInv_Always, PTL DEF StartupSpec

\* A directory's row is one an administrator saves, and one login at a time has
\* checked it.
EntriesChosen == \A d \in Dirs : config[d] \in {Nobody} \cup DirectoryRows
OneChecked ==
    \A p, q \in Logins : login[p].pc = "checked" /\ login[q].pc = "checked"
                         /\ login[p].dir = login[q].dir => p = q

LEMMA OneIsEnough ==
    ASSUME NEW S, \A x, y \in S : x = y
    PROVE  Cardinality(S) <= 1
  <1>1. CASE S = {}
    BY <1>1, FS_EmptySet
  <1>2. ASSUME NEW x \in S PROVE Cardinality(S) <= 1
    <2>1. S = {x}
      OBVIOUS
    <2> QED BY <2>1, FS_Singleton
  <1> QED BY <1>1, <1>2

LEMMA SavedIsChosen ==
    ASSUME DirectoryInv, EntriesChosen, NEW d \in Dirs, NEW c \in Configurations,
           saves < MaxSaves, config' = [config EXCEPT ![d] = WithVersion(c, saves + 1)]
    PROVE  EntriesChosen'
  <1>1. saves + 1 \in 1 .. MaxSaves
    BY DirectoryAssumption DEF DirectoryInv, DirectoryShaped
  <1>2. WithVersion(c, saves + 1) \in DirectoryRows
    BY <1>1 DEF DirectoryRows
  <1>3. \A x \in Dirs : config'[x] = IF x = d THEN WithVersion(c, saves + 1) ELSE config[x]
    BY DEF DirectoryInv, DirectoryShaped
  <1> QED BY <1>2, <1>3 DEF EntriesChosen

\* A login that is not the one to check stays as it is.
LEMMA OthersKeepChecked ==
    ASSUME DirectoryInv, OneChecked, NEW p \in Logins, NEW row, LoginIs(p, row),
           row.pc # "checked"
    PROVE  OneChecked'
  <1>1. \A q \in Logins : login'[q] = IF q = p THEN row ELSE login[q]
    BY DEF DirectoryInv, DirectoryShaped, LoginIs
  <1> QED BY <1>1 DEF OneChecked

LEMMA DirectoryTypes == DirectorySpec => []DirectoryTypeOK
  <1>1. DirectoryInit => EntriesChosen /\ OneChecked
    BY DEF DirectoryInit, EntriesChosen, OneChecked, NoLogin
  <1>2. DirectoryInv /\ EntriesChosen /\ OneChecked /\ [DirectoryNext]_directoryVars
            => EntriesChosen' /\ OneChecked'
    <2> SUFFICES ASSUME DirectoryInv, EntriesChosen, OneChecked, [DirectoryNext]_directoryVars
                 PROVE  EntriesChosen' /\ OneChecked'
      OBVIOUS
    <2>1. CASE UNCHANGED <<config, login>>
      BY <2>1 DEF EntriesChosen, OneChecked
    <2>2. ASSUME NEW p \in Logins, LoginStep(p) PROVE EntriesChosen' /\ OneChecked'
      <3>1. EntriesChosen'
        BY <2>2 DEF LoginStep, LoadDirectory, LdapAnswers, UpsertDirectoryUser, RecheckConfiguration,
           EnterWithSession, LoginFails, EntriesChosen
      <3>2. ASSUME NEW d \in Dirs, NEW a \in Accounts, LoadDirectory(p, d, a) PROVE OneChecked'
        <4>1. PICK row : row.pc = "asking" /\ LoginIs(p, row)
          BY <3>2 DEF LoadDirectory
        <4> QED BY <3>1, <4>1, OthersKeepChecked
      <3>3. CASE LdapAnswers(p)
        <4>1. PICK row : row.pc = "known" /\ LoginIs(p, row)
          BY <3>3 DEF LdapAnswers
        <4> QED BY <3>1, <4>1, OthersKeepChecked
      <3>4. CASE UpsertDirectoryUser(p)
        <4>1. PICK row : row = [login[p] EXCEPT !.pc = "written"]
          OBVIOUS
        <4>2. login[p] \in LoginShapes /\ login[p].pc = "known"
          BY <3>4 DEF DirectoryInv, DirectoryShaped, UpsertDirectoryUser
        <4>3. row.pc = "written"
          BY <4>1, <4>2 DEF LoginShapes, NoLogin
        <4>4. LoginIs(p, NoLogin) \/ LoginIs(p, row)
          BY <3>4, <4>1 DEF UpsertDirectoryUser, Refuse
        <4>5. NoLogin.pc # "checked"
          BY DEF NoLogin
        <4> QED BY <3>1, <4>3, <4>4, <4>5, OthersKeepChecked
      <3>5. CASE RecheckConfiguration(p)
        <4>1. CASE LoginIs(p, NoLogin)
          <5>1. NoLogin.pc # "checked"
            BY DEF NoLogin
          <5> QED BY <3>1, <4>1, <5>1, OthersKeepChecked
        <4>2. CASE LoginIs(p, [login[p] EXCEPT !.pc = "checked"])
          <5>1. PICK row : row = [login[p] EXCEPT !.pc = "checked"]
            OBVIOUS
          <5>2. login[p] \in LoginShapes /\ login[p].pc = "written"
            BY <3>5 DEF DirectoryInv, DirectoryShaped, RecheckConfiguration
          <5>3. row.dir = login[p].dir
            BY <5>1, <5>2 DEF LoginShapes, NoLogin
          <5>4. \A q \in Logins : login'[q] = IF q = p THEN row ELSE login[q]
            BY <4>2, <5>1 DEF DirectoryInv, DirectoryShaped, LoginIs
          <5>5. \A q \in Logins : ~ (login[q].pc = "checked" /\ login[q].dir = login[p].dir)
            BY <3>5 DEF RecheckConfiguration, ConfigLocked
          <5>6. ASSUME NEW x \in Logins, NEW y \in Logins, login'[x].pc = "checked",
                       login'[y].pc = "checked", login'[x].dir = login'[y].dir
                PROVE  x = y
            BY <5>3, <5>4, <5>5, <5>6 DEF OneChecked
          <5> QED BY <3>1, <5>6 DEF OneChecked
        <4> QED BY <3>5, <4>1, <4>2 DEF RecheckConfiguration, Refuse
      <3>6. CASE EnterWithSession(p) \/ LoginFails(p)
        <4>1. LoginIs(p, NoLogin) /\ NoLogin.pc # "checked"
          BY <3>6 DEF EnterWithSession, LoginFails, Refuse, NoLogin
        <4> QED BY <3>1, <4>1, OthersKeepChecked
      <3> QED BY <2>2, <3>1, <3>2, <3>3, <3>4, <3>5, <3>6 DEF LoginStep
    <2>3. ASSUME NEW e \in Editors, ChangeStep(e) PROVE EntriesChosen' /\ OneChecked'
      <3>1. CASE SaveChange(e)
        <4>1. edit[e] \in EditShapes /\ edit[e].pc = "save"
          BY <3>1 DEF SaveChange, DirectoryInv, DirectoryShaped
        <4>2. edit[e].dir \in Dirs /\ edit[e].draft \in Configurations
          BY <4>1 DEF EditShapes, NoEdit
        <4>3. /\ config' = [config EXCEPT ![edit[e].dir] = WithVersion(edit[e].draft, saves + 1)]
              /\ saves < MaxSaves /\ login' = login
          BY <3>1 DEF SaveChange
        <4> QED BY <4>2, <4>3, SavedIsChosen DEF OneChecked
      <3> QED BY <2>3, <2>1, <3>1 DEF ChangeStep, DraftChange, VerifyAdmin, EditFails
    <2>4. ASSUME NEW d \in Dirs, NEW c \in Configurations, CreateDirectory(d, c)
          PROVE  EntriesChosen' /\ OneChecked'
      BY <2>4, SavedIsChosen DEF CreateDirectory, OneChecked
    <2>5. ASSUME NEW d \in Dirs, DeleteDirectory(d) PROVE EntriesChosen' /\ OneChecked'
      <3>1. config' = [config EXCEPT ![d] = Nobody] /\ login' = login
        BY <2>5 DEF DeleteDirectory
      <3>2. \A x \in Dirs : config'[x] = IF x = d THEN Nobody ELSE config[x]
        BY <3>1 DEF DirectoryInv, DirectoryShaped
      <3> QED BY <3>1, <3>2 DEF EntriesChosen, OneChecked
    <2>6. ASSUME NEW b \in BOOLEAN, RestartWith(b) PROVE EntriesChosen' /\ OneChecked'
      BY <2>6 DEF RestartWith, EntriesChosen, OneChecked, NoLogin
    <2> QED BY <2>1, <2>2, <2>3, <2>4, <2>5, <2>6
            DEF DirectoryNext, directoryVars, UseSession, SetActive, ChangeLocalAdmins, ChangeMembers
  <1>3. ASSUME DirectoryInv, EntriesChosen, OneChecked PROVE DirectoryTypeOK
    <2>1. ASSUME NEW d \in Dirs
          PROVE  /\ config[d] \in {Nobody} \cup DirectoryRows
                 /\ users[d] \in [Subjects -> {Nobody} \cup [role : {"admin", "viewer"}, active : BOOLEAN]]
      BY <1>3 DEF DirectoryInv, DirectoryShaped, EntriesChosen, UserRows
    <2>2. ASSUME NEW d \in Dirs
          PROVE  Cardinality({p \in Logins : login[p].pc = "checked" /\ login[p].dir = d}) <= 1
      <3>1. \A x, y \in {p \in Logins : login[p].pc = "checked" /\ login[p].dir = d} : x = y
        BY <1>3 DEF OneChecked
      <3> QED BY <3>1, OneIsEnough
    <2>3. \A s \in sessions : s.dir \in Dirs /\ s.subject \in Subjects
      BY <1>3 DEF DirectoryInv, DirectoryShaped
    <2> QED BY <1>3, <2>1, <2>2, <2>3 DEF DirectoryInv, DirectoryShaped, DirectoryTypeOK
  <1> QED BY <1>1, <1>2, <1>3, DirectoryInv_Always, PTL DEF DirectorySpec

\* Digests are of a kind and have an outcome, and a cycle has no more than it may.
DaysTrue ==
    /\ happened \subseteq [type : EventTypes, day : 0 .. LastDay]
    /\ digests \subseteq DigestRecord
    /\ Len(cycle.targets) <= MaxPerCycle
    /\ \A k \in Tasks :
          /\ writing[k].pc # "idle" => writing[k].kind \in {"daily", "weekly"}
          /\ writing[k].pc \in {"attaching", "storing"} =>
                writing[k].status \in {"ok", "ok_llm_failed", "error"}

\* The digest a task works at, with one that another task works at left alone.
WritingIs(k, row) == writing' = [writing EXCEPT ![k] = row]

LEMMA WritingTrue ==
    ASSUME DigestsInv, DaysTrue, NEW k \in Tasks, NEW row, WritingIs(k, row),
           row.pc # "idle" => row.kind \in {"daily", "weekly"},
           row.pc \in {"attaching", "storing"} => row.status \in {"ok", "ok_llm_failed", "error"},
           UNCHANGED <<happened, digests, cycle>>
    PROVE  DaysTrue'
  <1>1. \A t \in Tasks : writing'[t] = IF t = k THEN row ELSE writing[t]
    BY DEF DigestsInv, DigestsShaped, WritingIs
  <1> QED BY <1>1 DEF DaysTrue

LEMMA DaysTrue_Next == DigestsInv /\ DaysTrue /\ [DigestsNext]_digestVars => DaysTrue'
  <1> USE DigestsAssumption
  <1> SUFFICES ASSUME DigestsInv, DaysTrue, [DigestsNext]_digestVars PROVE DaysTrue'
    OBVIOUS
  <1>1. CASE UNCHANGED <<happened, digests, writing, cycle>>
    BY <1>1 DEF DaysTrue
  <1>2. ASSUME NEW k \in Tasks, NEW kind \in {"daily", "weekly"}, NEW from, NEW to,
               BeginDigest(k, kind, from, to), UNCHANGED <<happened, digests, cycle>>
        PROVE  DaysTrue'
    <2>1. PICK row : row = [NoDigest EXCEPT !.pc = "summarising", !.kind = kind, !.from = from, !.to = to]
      OBVIOUS
    <2>2. row.pc = "summarising" /\ row.kind = kind
      BY <2>1 DEF NoDigest
    <2>3. WritingIs(k, row)
      BY <1>2, <2>1 DEF BeginDigest, WritingIs
    <2> QED BY <1>2, <2>2, <2>3, WritingTrue
  <1>3. ASSUME NEW t \in EventTypes, NEW day \in 0 .. LastDay, EventStored(t, day) PROVE DaysTrue'
    BY <1>3 DEF EventStored, DaysTrue
  <1>4. \A k \in Tasks : writing[k] \in DigestShapes
    BY DEF DigestsInv, DigestsShaped
  <1>5. ASSUME NEW k \in Tasks, TemplateFails(k) PROVE DaysTrue'
    <2>1. PICK row : row = [writing[k] EXCEPT !.pc = "storing", !.status = "error"]
      OBVIOUS
    <2>2. writing[k].pc = "summarising" /\ UNCHANGED <<happened, digests, cycle>>
      BY <1>5 DEF TemplateFails
    <2>3. WritingIs(k, row)
      BY <1>5, <2>1 DEF TemplateFails, WritingIs
    <2>4. row.pc = "storing" /\ row.kind = writing[k].kind /\ row.status = "error"
      BY <1>4, <2>1 DEF DigestShapes
    <2>5. row.kind \in {"daily", "weekly"}
      BY <2>2, <2>4 DEF DaysTrue
    <2> QED BY <2>2, <2>3, <2>4, <2>5, WritingTrue
  <1>6. ASSUME NEW k \in Tasks, NEW answered \in BOOLEAN, Summarised(k, answered) PROVE DaysTrue'
    <2>1. PICK row : row = [writing[k] EXCEPT
               !.pc = IF writing[k].kind = "daily" THEN "attaching" ELSE "storing",
               !.status = IF answered THEN "ok" ELSE "ok_llm_failed"]
      OBVIOUS
    <2>2. writing[k].pc = "summarising" /\ UNCHANGED <<happened, digests, cycle>>
      BY <1>6 DEF Summarised
    <2>3. WritingIs(k, row)
      BY <1>6, <2>1 DEF Summarised, WritingIs
    <2>4. row.kind = writing[k].kind /\ row.status \in {"ok", "ok_llm_failed"}
      BY <1>4, <2>1 DEF DigestShapes
    <2>5. row.kind \in {"daily", "weekly"}
      BY <2>2, <2>4 DEF DaysTrue
    <2> QED BY <2>2, <2>3, <2>4, <2>5, WritingTrue
  <1>7. ASSUME NEW k \in Tasks, ResearchAttached(k) PROVE DaysTrue'
    <2>1. PICK found : writing' = [writing EXCEPT ![k].pc = "storing", ![k].attached = found]
      BY <1>7 DEF ResearchAttached
    <2>2. PICK row : row = [writing[k] EXCEPT !.pc = "storing", !.attached = found]
      OBVIOUS
    <2>3. writing[k].pc = "attaching" /\ UNCHANGED <<happened, digests, cycle>>
      BY <1>7 DEF ResearchAttached
    <2>4. WritingIs(k, row)
      BY <2>1, <2>2 DEF WritingIs
    <2>5. row.kind = writing[k].kind /\ row.status = writing[k].status
      BY <1>4, <2>2 DEF DigestShapes
    <2>6. row.kind \in {"daily", "weekly"} /\ row.status \in {"ok", "ok_llm_failed", "error"}
      BY <2>3, <2>5 DEF DaysTrue
    <2> QED BY <2>3, <2>4, <2>6, WritingTrue
  <1>8. ASSUME NEW k \in Tasks, DigestStored(k) \/ DigestLost(k) PROVE DaysTrue'
    <2>1. /\ \A t \in Tasks : writing'[t] = IF t = k THEN NoDigest ELSE writing[t]
          /\ UNCHANGED <<happened, cycle>>
      BY <1>8 DEF DigestStored, DigestLost, DigestsInv, DigestsShaped
    <2>2. NoDigest.pc = "idle"
      BY DEF NoDigest
    <2>3. CASE DigestLost(k)
      BY <2>1, <2>2, <2>3 DEF DigestLost, DaysTrue
    <2>4. CASE DigestStored(k)
      <3>1. PICK row : row = [task |-> k, kind |-> writing[k].kind, from |-> writing[k].from,
                to |-> writing[k].to, status |-> writing[k].status, attached |-> writing[k].attached,
                at |-> today]
        OBVIOUS
      <3>2. digests' = digests \cup {row}
        BY <2>4, <3>1 DEF DigestStored
      <3>3. /\ writing[k].kind \in {"daily", "weekly"}
            /\ writing[k].status \in {"ok", "ok_llm_failed", "error"}
        BY <2>4 DEF DigestStored, DaysTrue
      <3>4. writing[k].from \in Int /\ writing[k].to \in Int /\ writing[k].attached \subseteq EventTypes
        BY <1>4 DEF DigestShapes
      <3>5. today \in 1 .. LastDay
        BY DEF DigestsInv, DigestsShaped
      <3>6. row \in DigestRecord
        BY <3>1, <3>3, <3>4, <3>5 DEF DigestRecord
      <3> QED BY <2>1, <2>2, <3>2, <3>6 DEF DaysTrue
    <2> QED BY <1>8, <2>3, <2>4
  <1>9. CASE PurgeOld
    BY <1>9 DEF PurgeOld, DaysTrue
  <1>10. CASE StopAndStart
    <2>1. Len(cycle'.targets) = 0
      BY <1>10 DEF StopAndStart, NoCycle
    <2>2. \A k \in Tasks : writing'[k].pc = "idle"
      BY <1>10 DEF StopAndStart, NoDigest
    <2> QED BY <1>10, <2>1, <2>2 DEF StopAndStart, DaysTrue
  <1>11. cycle.targets \in Seq(EventTypes) /\ (cycle.pc # "idle" => cycle.targets # <<>>)
    BY DEF DigestsInv, CycleTrue
  <1>12. CASE SelectTargets
    <2> DEFINE recent == {e \in happened : e.day >= today - LookbackDays}
               stale == {t \in Notable(recent) : ~ Fresh(t)}
    <2>1. PICK order \in Ranked(stale) :
              cycle' = [NoCycle EXCEPT !.pc = "searching", !.targets = Topmost(MaxPerCycle, order)]
      BY <1>12 DEF SelectTargets
    <2>2. IsFiniteSet(recent) /\ recent \subseteq [type : EventTypes, day : Int]
      BY FS_Subset DEF DigestsInv, DigestsShaped
    <2>3. IsFiniteSet(Notable(recent)) /\ Notable(recent) \subseteq EventTypes
      <3> HIDE DEF recent
      <3> QED BY <2>2, Notable_Finite
    <2>4. IsFiniteSet(stale) /\ stale \subseteq EventTypes
      <3> HIDE DEF recent
      <3> QED BY <2>3, FS_Subset
    <2> HIDE DEF stale, recent
    <2>5. order \in Seq(EventTypes)
      BY <2>1, <2>4, Ranked_Orders
    <2>6. Len(Topmost(MaxPerCycle, order)) <= MaxPerCycle
      BY <2>5, Topmost_Orders
    <2>7. cycle'.targets = Topmost(MaxPerCycle, order)
      BY <2>1 DEF NoCycle
    <2> QED BY <1>12, <2>6, <2>7 DEF SelectTargets, DaysTrue
  <1>13. ASSUME NEW outcome, Searched(outcome) PROVE DaysTrue'
    <2>1. cycle'.targets = cycle.targets
      BY <1>13 DEF Searched
    <2> QED BY <1>13, <2>1 DEF Searched, DaysTrue
  <1>14. ASSUME NEW useless \in BOOLEAN, Condensed(useless) PROVE DaysTrue'
    <2>1. cycle'.targets = cycle.targets
      BY <1>14 DEF Condensed
    <2> QED BY <1>14, <2>1 DEF Condensed, DaysTrue
  <1>15. CASE ResearchKept \/ ResearchLost
    <2>1. /\ cycle' = NextTarget /\ cycle.pc = "keeping"
          /\ UNCHANGED <<happened, digests, writing>>
      BY <1>15 DEF ResearchKept, ResearchLost
    <2>2. Len(cycle'.targets) <= Len(cycle.targets)
      <3>1. CASE Len(cycle.targets) = 1
        <4>1. cycle' = NoCycle
          BY <2>1, <3>1 DEF NextTarget
        <4>2. Len(cycle'.targets) = 0
          BY <4>1 DEF NoCycle
        <4> QED BY <3>1, <4>2
      <3>2. CASE Len(cycle.targets) # 1
        <4>1. cycle'.targets = Tail(cycle.targets)
          BY <2>1, <3>2 DEF NextTarget, NoCycle
        <4>2. PICK s \in Seq(EventTypes) : s = cycle.targets /\ s # <<>>
          BY <1>11, <2>1
        <4>3. Len(Tail(s)) = Len(s) - 1 /\ Len(s) \in Nat
          BY <4>2
        <4> QED BY <4>1, <4>2, <4>3
      <3> QED BY <3>1, <3>2
    <2>3. Len(cycle.targets) \in Nat /\ Len(cycle'.targets) \in Int
      <3>1. cycle'.targets \in Seq(EventTypes)
        <4>1. CASE Len(cycle.targets) = 1
          <5>1. cycle' = NoCycle
            BY <2>1, <4>1 DEF NextTarget
          <5>2. cycle'.targets = <<>>
            BY <5>1 DEF NoCycle
          <5> QED BY <5>2
        <4>2. CASE Len(cycle.targets) # 1
          <5>1. cycle'.targets = Tail(cycle.targets)
            BY <2>1, <4>2 DEF NextTarget, NoCycle
          <5> QED BY <5>1, <1>11, <2>1
        <4> QED BY <4>1, <4>2
      <3> QED BY <3>1, <1>11
    <2> QED BY <2>1, <2>2, <2>3 DEF DaysTrue
  <1>16. CASE DailyDigest
    <2>1. /\ BeginDigest("scheduled", "daily", today - 1, today)
          /\ UNCHANGED <<happened, digests, cycle>> /\ "scheduled" \in Tasks
      BY <1>16 DEF DailyDigest, Tasks
    <2> QED BY <1>2, <2>1
  <1>17. ASSUME NEW kind \in {"daily", "weekly"}, NEW p \in Periods, DigestAskedFor(kind, p[1], p[2])
         PROVE  DaysTrue'
    <2>1. /\ BeginDigest("asked for", kind, p[1], p[2])
          /\ UNCHANGED <<happened, digests, cycle>> /\ "asked for" \in Tasks
      BY <1>17 DEF DigestAskedFor, Tasks
    <2> QED BY <1>2, <2>1
  <1> QED BY <1>1, <1>3, <1>5, <1>6, <1>7, <1>8, <1>9, <1>10, <1>12, <1>13, <1>14, <1>15, <1>16, <1>17
          DEF DigestsNext, digestVars, NextDay, DigestMissed

LEMMA DigestsTypes == DigestsSpec => []DigestsTypeOK
  <1>1. DigestsInit => DaysTrue
    <2> SUFFICES ASSUME DigestsInit PROVE DaysTrue
      OBVIOUS
    <2>1. Len(cycle.targets) = 0
      BY DEF DigestsInit, NoCycle
    <2>2. \A k \in Tasks : writing[k].pc = "idle"
      BY DEF DigestsInit, NoDigest
    <2> QED BY <2>1, <2>2, DigestsAssumption DEF DigestsInit, DaysTrue
  <1>2. DigestsInv /\ DaysTrue => DigestsTypeOK
    BY DEF DigestsInv, DigestsShaped, CycleTrue, DaysTrue, DigestsTypeOK, DigestShapes
  <1> QED BY <1>1, <1>2, DaysTrue_Next, DigestsInv_Always, PTL DEF DigestsSpec

LEMMA PeriodTypes == PeriodSpec => []PeriodTypeOK
  <1> USE PeriodAssumption
  <1>1. PeriodInit => PeriodTypeOK
    BY DEF PeriodInit, PeriodTypeOK, NoView
  <1>2. PeriodTypeOK /\ [PeriodNext]_periodVars => PeriodTypeOK'
    <2> SUFFICES ASSUME PeriodTypeOK, [PeriodNext]_periodVars PROVE PeriodTypeOK'
      OBVIOUS
    <2>1. ASSUME NEW s \in SampleRows, StoreSample(s) PROVE PeriodTypeOK'
      BY <2>1 DEF StoreSample, PeriodTypeOK
    <2>2. ASSUME NEW e \in EventRows, StoreEvent(e) PROVE PeriodTypeOK'
      BY <2>2 DEF StoreEvent, PeriodTypeOK
    <2>3. CASE UNCHANGED periodVars
      BY <2>3 DEF periodVars, PeriodTypeOK
    <2>4. ASSUME NEW q \in Views, AskView(q) PROVE PeriodTypeOK'
      <3> PICK groups : groups = NotableGroups(q, occurred)
        OBVIOUS
      <3> PICK top : top = TopSamples(q, samples, "cpu") \o TopSamples(q, samples, "mem")
        OBVIOUS
      <3> PICK read : read = [NoView EXCEPT !.ask = q, !.groups = groups, !.top = top]
        OBVIOUS
      <3>1. /\ \/ view' = [read EXCEPT !.pc = "metrics"]
               \/ view' = [read EXCEPT !.pc = "shown", !.entries = TimelineEntries(read)]
            /\ UNCHANGED <<samples, occurred>>
        BY <2>4 DEF AskView
      <3>2. view'.pc \in {"metrics", "shown"} /\ view'.ask = q
        BY <3>1 DEF NoView
      <3> QED BY <3>1, <3>2 DEF PeriodTypeOK
    <2>5. CASE ReadSeries
      <3>1. view'.pc = "events" /\ view'.ask = view.ask /\ UNCHANGED <<samples, occurred>>
        BY <2>5 DEF ReadSeries
      <3> QED BY <2>5, <3>1 DEF PeriodTypeOK, ReadSeries
    <2>6. CASE ReadBuckets
      <3>1. /\ view' = NoView \/ (view'.pc = "shown" /\ view'.ask = view.ask)
            /\ UNCHANGED <<samples, occurred>>
        BY <2>6 DEF ReadBuckets
      <3> QED BY <2>6, <3>1 DEF PeriodTypeOK, ReadBuckets, NoView
    <2>7. CASE ViewServed
      BY <2>7 DEF ViewServed, PeriodTypeOK, NoView
    <2> QED BY <2>1, <2>2, <2>3, <2>4, <2>5, <2>6, <2>7 DEF PeriodNext
  <1> QED BY <1>1, <1>2, PTL DEF PeriodSpec

\* A behaviour of the run is one of each machine: what is proved of the eight
\* holds of what runs beside each other, and what the run shows is of them.
THEOREM ServicesSideBySide ==
    MCSpec => /\ PackagesSpec /\ SetupSpec /\ RemoteLogSpec /\ DirectorySpec
              /\ StartupSpec /\ ChatSpec /\ PeriodSpec /\ DigestsSpec
  <1>1. MCInit => /\ PackagesInit /\ SetupInit /\ RemoteLogInit /\ DirectoryInit
                  /\ StartupInit /\ ChatInit /\ PeriodInit /\ DigestsInit
    BY DEF MCInit
  <1>2. [MCNext]_MCVars => [PackagesNext]_packagesVars /\ [SetupNext]_setupVars
    BY DEF MCNext, MCVars, Others
  <1>3. [MCNext]_MCVars => [RemoteLogNext]_remoteLogVars /\ [DirectoryNext]_directoryVars
    BY DEF MCNext, MCVars, Others
  <1>4. [MCNext]_MCVars => [StartupNext]_startupVars /\ [ChatNext]_chatVars
    BY DEF MCNext, MCVars, Others
  <1>5. [MCNext]_MCVars => [PeriodNext]_periodVars /\ [DigestsNext]_digestVars
    BY DEF MCNext, MCVars, Others
  <1> QED BY <1>1, <1>2, <1>3, <1>4, <1>5, PTL
          DEF MCSpec, PackagesSpec, SetupSpec, RemoteLogSpec, DirectorySpec, StartupSpec, ChatSpec,
              PeriodSpec, DigestsSpec

\* ServicesTypeOK: rows, jobs, files, requests and processes keep their shape, for
\* any sizes, where changes are apart and files begin with a record.
THEOREM ServicesTypes ==
    ASSUME Apart, EditsAlone, Headed PROVE MCSpec => []ServicesTypeOK
  <1>1. PackagesTypeOK /\ SetupTypeOK /\ RemoteLogTypeOK /\ DirectoryTypeOK /\ StartupTypeOK
            /\ ChatTypeOK /\ PeriodTypeOK /\ DigestsTypeOK => ServicesTypeOK
    BY DEF ServicesTypeOK
  <1>2. PackagesSpec => []PackagesTypeOK
    BY PackagesTypes
  <1>3. SetupSpec => []SetupTypeOK
    BY SetupTypes
  <1>4. RemoteLogSpec => []RemoteLogTypeOK
    BY RemoteLogTypeCorrect
  <1> QED BY <1>1, <1>2, <1>3, <1>4, ServicesSideBySide, DirectoryTypes, StartupTypes,
             ChatKeepsPromises, PeriodTypes, DigestsTypes, PTL
=============================================================================
