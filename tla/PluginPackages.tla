--------------------------- MODULE PluginPackages ---------------------------
(***************************************************************************)
(* Installing and removing collector plugin packages: the ledger           *)
(* (installed_plugins), the directories below plugin_dir, the background   *)
(* jobs with their staging and upload directories, and a restart.          *)
(*                                                                         *)
(* A directory is plugin_dir/<distribution>/<version>; versions are known  *)
(* by their place in the order of their names.  A staging directory lies   *)
(* below plugin_dir too, in .staging, which sorts before every             *)
(* distribution.                                                           *)
(***************************************************************************)
EXTENDS Integers, FiniteSets

CONSTANTS
    Dists,         \* distributions
    Jobs,          \* installations under way at once
    LastVersion,   \* bound: versions of a distribution
    Processes,     \* process ids the application may run under
    NoPackage,
    MaxRestarts,   \* bound: restarts
    Apart          \* TRUE: no two changes of one distribution overlap

ASSUME PackagesAssumption ==
    /\ LastVersion \in Nat \ {0}
    /\ MaxRestarts \in Nat
    /\ Apart \in BOOLEAN
    /\ NoPackage \notin Dists \cup Jobs
    /\ NoPackage \notin [status : {"installing", "installed", "failed"},
                       version : 0 .. LastVersion]

VARIABLES
    ledger,     \* distribution -> its row, NoPackage when there is none
    dirs,       \* distribution -> versions whose directory is there, whole
    staged,     \* staging directories: [job (NoPackage after a restart), dist, version]
    task,       \* job -> its state
    uploads,    \* upload directories: [job, process]
    removing,   \* distributions whose files are gone and whose row is not
    process,    \* the present process id
    restarts,
    cut         \* ghost: distributions whose change a restart or an error cut
                \* (of the database, or of the file system while it removed or
                \* moved a directory), or whose row or directory a package
                \* asked for by another name has taken away

packagesVars == <<ledger, dirs, staged, task, uploads, removing, process,
                  restarts, cut>>

PackageVersions == 1 .. LastVersion
IdleTask == [pc |-> "idle", dist |-> NoPackage, actual |-> NoPackage, version |-> 0]
LedgerRow(status, version) == [status |-> status, version |-> version]
Has(d, status) == ledger[d] # NoPackage /\ ledger[d].status = status

PackagesInit ==
    /\ ledger = [d \in Dists |-> NoPackage]
    /\ dirs = [d \in Dists |-> {}]
    /\ staged = {}
    /\ task = [j \in Jobs |-> IdleTask]
    /\ uploads = {}
    /\ removing = {}
    /\ process \in Processes
    /\ restarts = 0
    /\ cut = {}

\* A job or its request ends: its upload directory is removed.
EndJob(j) ==
    /\ task' = [task EXCEPT ![j] = IdleTask]
    /\ uploads' = {u \in uploads : u.job # j \/ u.process # process}

Goes(j, pc) == task' = [task EXCEPT ![j].pc = pc]
Changing(d) == \/ d \in removing
           \/ \E j \in Jobs : task[j].pc # "idle" /\ d \in {task[j].dist, task[j].actual}
Quiet == removing = {} /\ \A j \in Jobs : task[j].pc = "idle"

-----------------------------------------------------------------------------
(* The request: install_from_index, install_from_upload, start_install.     *)

CheckInstall(j, d) ==
    /\ task[j].pc = "idle"
    /\ Apart => ~ Changing(d)
    /\ ~ Has(d, "installing")
    /\ task' = [task EXCEPT ![j] = [IdleTask EXCEPT !.pc = "checked", !.dist = d]]
    /\ \E upload \in BOOLEAN :
          uploads' = IF upload THEN uploads \cup {[job |-> j, process |-> process]}
                     ELSE uploads
    /\ UNCHANGED <<ledger, dirs, staged, removing, process, restarts, cut>>

\* _upsert reads the row again, but not its status.
QueueInstall(j) ==
    LET d == task[j].dist
    IN /\ task[j].pc = "checked"
       /\ ledger' = [ledger EXCEPT ![d] =
              LedgerRow("installing", IF ledger[d] = NoPackage THEN 0 ELSE ledger[d].version)]
       /\ Goes(j, "staging")
       /\ UNCHANGED <<dirs, staged, uploads, removing, process, restarts, cut>>

\* The row is not written: who called start_install removes the upload directory.
RequestFails(j) ==
    /\ task[j].pc = "checked"
    /\ EndJob(j)
    /\ UNCHANGED <<ledger, dirs, staged, removing, process, restarts, cut>>

-----------------------------------------------------------------------------
(* The job: install_plugin and _install_and_record.                         *)

(* Mutant: the old directory goes before the new one has been validated. *)
Unpacked_ClearsFirst(j, actual, version) ==
    /\ task[j].pc = "staging"
    /\ Apart /\ actual # task[j].dist => ~ Changing(actual)
    /\ staged' = staged \cup {[job |-> j, dist |-> actual, version |-> version]}
    /\ dirs' = [dirs EXCEPT ![actual] = @ \ {version}]
    /\ task' = [task EXCEPT ![j].pc = "validating", ![j].actual = actual,
                            ![j].version = version]
    /\ UNCHANGED <<ledger, uploads, removing, process, restarts, cut>>

\* uv has filled the staging directory; the package names itself.
Unpacked(j, actual, version) ==
    /\ task[j].pc = "staging"
    /\ Apart /\ actual # task[j].dist => ~ Changing(actual)
    /\ staged' = staged \cup {[job |-> j, dist |-> actual, version |-> version]}
    /\ task' = [task EXCEPT ![j].pc = "validating", ![j].actual = actual,
                            ![j].version = version]
    /\ UNCHANGED <<ledger, dirs, uploads, removing, process, restarts, cut>>

\* uv, the validation or the replacement fails, the latter with the old directory
\* there, partly removed (torn) or gone.  The staging directory is removed, unless
\* that fails too, of which nothing is told (left).
InstallFails(j) ==
    LET t == task[j]
        d == t.actual
    IN /\ t.pc \in {"staging", "validating", "placing"}
       /\ \E left, torn \in BOOLEAN :
             /\ torn => t.pc = "validating" /\ t.version \in dirs[d]
             /\ staged' = {s \in staged : s.job # j} \cup
                    {[s EXCEPT !.job = NoPackage] : s \in {x \in staged : left /\ x.job = j}}
             /\ dirs' = IF torn THEN [dirs EXCEPT ![d] = @ \ {t.version}] ELSE dirs
             /\ cut' = cut \cup {x \in {d} \ {NoPackage} :
                            \/ left \/ torn
                            \/ t.pc = "placing" /\ ledger[x] = LedgerRow("installed", t.version)}
       /\ Goes(j, "failed")
       /\ UNCHANGED <<ledger, uploads, removing, process, restarts>>

\* _replace_directory: the old directory goes ...
ClearFinal(j) ==
    /\ task[j].pc = "validating"
    /\ dirs' = [dirs EXCEPT ![task[j].actual] = @ \ {task[j].version}]
    /\ Goes(j, "placing")
    /\ UNCHANGED <<ledger, staged, uploads, removing, process, restarts, cut>>

\* ... and the staging directory takes its name, which fails when another job
\* has put a directory there again.
Place(j) ==
    LET d == task[j].actual
    IN /\ task[j].pc = "placing"
       /\ staged' = {s \in staged : s.job # j}
       /\ Goes(j, IF task[j].version \in dirs[d] THEN "failed" ELSE "placed")
       /\ dirs' = [dirs EXCEPT ![d] = @ \cup {task[j].version}]
       /\ UNCHANGED <<ledger, uploads, removing, process, restarts, cut>>

RecordFailure(j) ==
    LET d == task[j].dist
    IN /\ task[j].pc = "failed"
       /\ ledger' = [ledger EXCEPT ![d] =
              LedgerRow("failed", IF ledger[d] = NoPackage THEN 0 ELSE ledger[d].version)]
       /\ EndJob(j)
       /\ UNCHANGED <<dirs, staged, removing, process, restarts, cut>>

\* The row of another name that was asked for is deleted; what an earlier
\* installation of that name had put there stays, and is still found.
RecordSuccess(j) ==
    LET t == task[j]
    IN /\ t.pc = "placed"
       /\ ledger' = [d \in Dists |->
              IF d = t.actual THEN LedgerRow("installed", t.version)
              ELSE IF d = t.dist THEN NoPackage ELSE ledger[d]]
       /\ EndJob(j)
       /\ cut' = cut \cup {d \in {t.dist} \ {t.actual} : dirs[d] # {}}
       /\ UNCHANGED <<dirs, staged, removing, process, restarts>>

\* The transaction that records the outcome fails: the row stays as it is.
RecordLost(j) ==
    /\ task[j].pc \in {"failed", "placed"}
    /\ EndJob(j)
    /\ cut' = cut \cup ({task[j].dist, task[j].actual} \ {NoPackage})
    /\ UNCHANGED <<ledger, dirs, staged, removing, process, restarts>>

-----------------------------------------------------------------------------
(* remove_installed_plugin: the files, then the row with the commit.        *)

RemoveFiles(d) ==
    /\ Apart => ~ Changing(d)
    /\ d \notin removing
    /\ dirs[d] # {} \/ ledger[d] # NoPackage
    /\ dirs' = [dirs EXCEPT ![d] = {}]
    /\ removing' = removing \cup {d}
    /\ UNCHANGED <<ledger, staged, task, uploads, process, restarts, cut>>

\* rmtree stops partway: some versions are left, perhaps one of them torn.
RemoveFilesStops(d) ==
    /\ Apart => ~ Changing(d)
    /\ d \notin removing /\ dirs[d] # {}
    /\ \E left \in SUBSET dirs[d] : dirs' = [dirs EXCEPT ![d] = left]
    /\ cut' = cut \cup {d}
    /\ UNCHANGED <<ledger, staged, task, uploads, removing, process, restarts>>

RemoveRow(d) ==
    /\ d \in removing
    /\ removing' = removing \ {d}
    /\ ledger' = [ledger EXCEPT ![d] = NoPackage]
    /\ UNCHANGED <<dirs, staged, task, uploads, process, restarts, cut>>

\* The transaction fails when the files are gone: the row stays.
RemoveFails(d) ==
    /\ d \in removing
    /\ removing' = removing \ {d}
    /\ cut' = cut \cup {d}
    /\ UNCHANGED <<ledger, dirs, staged, task, uploads, process, restarts>>

\* The application ends at any point and starts again.  Staging directories
\* stay, and no job knows them; cleanup_stale_upload_dirs removes what other
\* processes have left.
RestartApplication ==
    /\ restarts < MaxRestarts
    /\ restarts' = restarts + 1
    /\ process' \in Processes
    /\ task' = [j \in Jobs |-> IdleTask]
    /\ removing' = {}
    /\ cut' = cut \cup {d \in Dists : Changing(d)}
    /\ uploads' = {u \in uploads : u.process = process'}
    /\ staged' = {[s EXCEPT !.job = NoPackage] : s \in staged}
    /\ UNCHANGED <<ledger, dirs>>

JobStep(j) ==
    \/ QueueInstall(j) \/ RequestFails(j)
    \/ \E actual \in Dists, version \in PackageVersions : Unpacked(j, actual, version)
    \/ InstallFails(j) \/ ClearFinal(j) \/ Place(j)
    \/ RecordFailure(j) \/ RecordSuccess(j) \/ RecordLost(j)

PackagesNext ==
    \/ \E j \in Jobs, d \in Dists : CheckInstall(j, d)
    \/ \E j \in Jobs : JobStep(j)
    \/ \E d \in Dists : RemoveFiles(d) \/ RemoveFilesStops(d) \/ RemoveRow(d) \/ RemoveFails(d)
    \/ RestartApplication

PackagesSpec == PackagesInit /\ [][PackagesNext]_packagesVars

-----------------------------------------------------------------------------
(* What a reload, or a worker that starts, finds below plugin_dir.          *)

\* plugin_search_paths, in its order: .staging, then the versions by name.
SearchPath(d) ==
    {[staging |-> TRUE, version |-> s.version] : s \in {x \in staged : x.dist = d}}
        \cup {[staging |-> FALSE, version |-> v] : v \in dirs[d]}
FirstOnPath(p, q) == p.staging \/ (~ q.staging /\ p.version <= q.version)

\* _discover: of the directories with one distribution the first on the path;
\* which staging directory that is, their random names decide.
Discovered(d) ==
    {p.version : p \in {x \in SearchPath(d) : \A q \in SearchPath(d) : FirstOnPath(x, q)}}

(***************************************************************************)
(* Properties                                                              *)
(***************************************************************************)
\* Rows, tasks and directories have their shape; a staging directory belongs
\* to a job that fills or checks it, or was left by an earlier process.
PackagesTypeOK ==
    /\ \A d \in Dists :
          /\ ledger[d] \in {NoPackage} \cup [status : {"installing", "installed", "failed"},
                                        version : 0 .. LastVersion]
          /\ dirs[d] \subseteq PackageVersions
    /\ staged \subseteq [job : Jobs \cup {NoPackage}, dist : Dists, version : PackageVersions]
    /\ task \in [Jobs -> [pc : {"idle", "checked", "staging", "validating", "placing",
                                "placed", "failed"},
                          dist : Dists \cup {NoPackage}, actual : Dists \cup {NoPackage},
                          version : 0 .. LastVersion]]
    /\ uploads \subseteq [job : Jobs, process : Processes]
    /\ removing \cup cut \subseteq Dists
    /\ process \in Processes
    /\ restarts \in 0 .. MaxRestarts

\* The directory of an installed row is there and whole, whatever step of an
\* installation fails, unless it is being replaced or removed, or a restart or
\* an error has cut that in the middle; a package that is asked for by another
\* name loses its directory, and keeps its row, when the new one cannot be moved
\* into its place (install_plugin rolls back; _replace_directory).
InstalledIsWhole ==
    \A d \in Dists :
        Has(d, "installed") /\ ~ Changing(d) /\ d \notin cut => ledger[d].version \in dirs[d]

\* A row says "installing" only while a job installs it, unless a restart or an
\* error of the database has cut that (_install_and_record records every outcome).
InstallingHasJob ==
    \A d \in Dists :
        Has(d, "installing") =>
            d \in cut \/ \E j \in Jobs : task[j].pc # "idle" /\ task[j].dist = d

\* A reload finds the version that the row of a distribution says is installed
\* where no older one was left beside it, and finds nothing of a distribution
\* that was never recorded or was removed (discover_collectors_at).
FoundIsRecorded ==
    \A d \in Dists :
        ~ Changing(d) /\ d \notin cut =>
            /\ Has(d, "installed") /\ dirs[d] \subseteq {ledger[d].version} =>
                  Discovered(d) = {ledger[d].version}
            /\ ledger[d] = NoPackage => Discovered(d) = {}

\* Ledger, jobs, directories and what a reload finds agree.
PackagesAccounted == InstalledIsWhole /\ InstallingHasJob /\ FoundIsRecorded
=============================================================================
