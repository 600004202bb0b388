----------------------------- MODULE PluginSetup -----------------------------
(***************************************************************************)
(* Configuring one collector plugin: the draft with its tests, the managed *)
(* SSH connections and keys, applying the draft, changing the saved        *)
(* setting, reloading, and a restart.                                      *)
(*                                                                         *)
(* A configuration is known by the SSH connection it names, Null when it   *)
(* is empty.  A request reads rows, computes what it writes, releases the  *)
(* gate (mutation_gate, the lock of reload.py) and only then commits: the  *)
(* session is an outer dependency of the route and its exit comes last.    *)
(* Apply alone commits by itself, while it holds the gate.                 *)
(*                                                                         *)
(* Only requests that are not refused are steps; a refusal changes nothing.*)
(***************************************************************************)
EXTENDS Integers, FiniteSets

CONSTANTS
    Connections,   \* SSH connections
    Credentials,   \* SSH keys
    Hosts, HostKeys,
    Calls,         \* administrators' requests under way at once
    Null,
    MaxDraft,      \* bound: revisions of the draft
    MaxRevision,   \* bound: revisions of a connection
    MaxVersion,    \* bound: versions of the plugin's package
    EditsAlone     \* TRUE: an edit of a connection overlaps no other request

Results == [digest : Connections \X (1 .. MaxRevision) \X HostKeys \X Credentials,
            version : 1 .. MaxVersion, ok : BOOLEAN]
DraftRows == [values : Connections \cup {Null}, revision : 1 .. MaxDraft,
              tests : {Null} \cup Results]
SavedRows == [values : Connections \cup {Null}, enabled : BOOLEAN, managed : BOOLEAN]
ConnectionRows == [host : Hosts, credential : Credentials, candidate : HostKeys \cup {Null},
                   approved : HostKeys \cup {Null}, revision : 1 .. MaxRevision]

ASSUME SetupAssumption ==
    /\ {MaxDraft, MaxRevision, MaxVersion} \subseteq Nat \ {0}
    /\ EditsAlone \in BOOLEAN
    /\ Null \notin Connections \cup Credentials \cup HostKeys \cup Calls
    /\ Null \notin Results \cup DraftRows \cup SavedRows \cup ConnectionRows
    /\ Null \notin Connections \X (1 .. MaxRevision) \X HostKeys \X Credentials
    /\ Connections \cap {"draft", "saved"} = {}

VARIABLES
    rows,          \* "draft", "saved" and each connection -> its row or Null
    credentials,   \* keys that exist
    registry,      \* the plugin's registration in the active generation
    job,           \* the scheduler has the plugin's job
    gate,          \* the request that holds the reload lock, or Null
    call,          \* request -> what it is doing
    disk,          \* version of the package a new registry would load
    tested         \* ghost: what a required action has succeeded against

setupVars == <<rows, credentials, registry, job, gate, call, disk, tested>>

IdleCall == [pc |-> "idle", key |-> Null, read |-> Null, row |-> Null]
NewDraft == [values |-> Null, revision |-> 1, tests |-> Null]
NewSaved == [values |-> Null, enabled |-> Null, managed |-> FALSE]
Draft == rows["draft"]
Saved == rows["saved"]
Managed == Saved # Null /\ Saved.managed
Running == registry.enabled /\ registry.values # Null

SetupInit ==
    /\ rows = [k \in {"draft", "saved"} \cup Connections |-> Null]
    /\ credentials = {}
    /\ registry = [values |-> Null, enabled |-> FALSE, version |-> 1]
    /\ job = FALSE
    /\ gate = Null
    /\ call = [r \in Calls |-> IdleCall]
    /\ disk = 1
    /\ tested = {}

(***************************************************************************)
(* What the handlers read                                                  *)
(***************************************************************************)
\* reference_digest: the configuration and the connection it names, each
\* with what a change of it would alter; Null when it cannot be made.
Approved(c) == rows[c] # Null /\ rows[c].approved # Null
Digest(values) ==
    IF values = Null \/ ~ Approved(values) THEN Null
    ELSE <<values, rows[values].revision, rows[values].approved, rows[values].credential>>

\* What a worker really uses of a connection (materialize_ssh).
Material(c) == <<c, rows[c].host, rows[c].approved, rows[c].credential>>

(* Mutant: that there is a result for the present digest is enough. *)
TestPassed_AnyOutcome(d) ==
    /\ Digest(d.values) # Null
    /\ d.tests # Null
    /\ d.tests.digest = Digest(d.values) /\ d.tests.version = registry.version

\* The required action succeeded for these values, in the registered version.
TestPassed(d) ==
    /\ Digest(d.values) # Null
    /\ d.tests = [digest |-> Digest(d.values), version |-> registry.version, ok |-> TRUE]

\* ensure_not_active: not collected from, not in an enabled saved setting.
NotActive(c) ==
    /\ ~ (registry.enabled /\ registry.values = c)
    /\ ~ (Saved # Null /\ Saved.enabled = TRUE /\ Saved.values = c)

(***************************************************************************)
(* A request: enter (through the gate, which is free again at the end of   *)
(* the body), then commit what changed.                                    *)
(***************************************************************************)
MayEnter(r) ==
    /\ call[r].pc = "idle"
    /\ EditsAlone => \A other \in Calls : call[other].key \notin Connections
MayEdit(r, key) ==
    /\ MayEnter(r)
    /\ EditsAlone /\ key \in Connections =>
          \A other \in Calls : call[other].pc = "idle"
GateFree == gate = Null

Writes(r, key, read, row) ==
    call' = [call EXCEPT ![r] = [pc |-> "commit", key |-> key, read |-> read, row |-> row]]
Ends(r) == call' = [call EXCEPT ![r] = IdleCall]

Limit(key) == IF key = "draft" THEN MaxDraft ELSE MaxRevision

\* The body of a handler that writes one row, which it read as rows[key].
Edit(r, key, row) ==
    /\ GateFree /\ MayEdit(r, key)
    /\ rows[key] # row
    /\ row.revision <= Limit(key)
    /\ Writes(r, key, rows[key], row)
    /\ UNCHANGED <<rows, credentials, registry, job, gate, disk, tested>>

\* get_draft
CurrentDraft == IF Draft = Null THEN NewDraft ELSE Draft

PutDraft(r, v) ==
    LET d == CurrentDraft
    IN Edit(r, "draft", IF d.values = v THEN d
                        ELSE [values |-> v, revision |-> d.revision + 1, tests |-> Null])

\* import_configuration: the values of the active registry, without keys.
ImportConfiguration(r) ==
    Edit(r, "draft", [values |-> registry.values,
                      revision |-> CurrentDraft.revision + 1, tests |-> Null])

CreateConnection(r, c, h, k) ==
    /\ rows[c] = Null
    /\ k \in credentials
    /\ Edit(r, c, [host |-> h, candidate |-> Null, approved |-> Null,
                   credential |-> k, revision |-> 1])

UpdateConnection(r, c, h, k) ==
    /\ rows[c] # Null
    /\ NotActive(c)
    /\ k \in credentials
    /\ Edit(r, c, [host |-> h, credential |-> k, revision |-> rows[c].revision + 1,
                   candidate |-> IF h = rows[c].host THEN rows[c].candidate ELSE Null,
                   approved |-> IF h = rows[c].host THEN rows[c].approved ELSE Null])

ApproveHostKey(r, c) ==
    /\ rows[c] # Null
    /\ rows[c].candidate # Null
    /\ rows[c].approved # rows[c].candidate => NotActive(c)
    /\ Edit(r, c, [rows[c] EXCEPT !.approved = rows[c].candidate,
                                  !.revision = @ + 1])

\* probe_host_key holds the gate while the server at the host answers.
ProbeHostKey(r, c) ==
    /\ GateFree /\ MayEdit(r, c)
    /\ rows[c] # Null
    /\ rows[c].revision < MaxRevision
    /\ gate' = r
    /\ call' = [call EXCEPT ![r] = [pc |-> "probing", key |-> c, read |-> rows[c], row |-> Null]]
    /\ UNCHANGED <<rows, credentials, registry, job, disk, tested>>

HostKeyAnswered(r, key) ==
    LET was == call[r].read
    IN /\ call[r].pc = "probing"
       /\ gate' = Null
       /\ Writes(r, call[r].key, was, [was EXCEPT !.candidate = key, !.revision = @ + 1])
       /\ UNCHANGED <<rows, credentials, registry, job, disk, tested>>

\* The connection attempt fails: nothing is written.
HostKeyUnanswered(r) ==
    /\ call[r].pc = "probing"
    /\ gate' = Null
    /\ Ends(r)
    /\ UNCHANGED <<rows, credentials, registry, job, disk, tested>>

\* An INSERT flushed in the body of the request and its commit.
CreateCredential(r, k) ==
    /\ GateFree /\ MayEnter(r)
    /\ k \notin credentials
    /\ credentials' = credentials \cup {k}
    /\ UNCHANGED <<rows, registry, job, gate, call, disk, tested>>

DeleteCredential(r, k) ==
    /\ GateFree /\ MayEnter(r)
    /\ k \in credentials
    /\ \A c \in Connections : rows[c] # Null => rows[c].credential # k
    /\ credentials' = credentials \ {k}
    /\ UNCHANGED <<rows, registry, job, gate, call, disk, tested>>

\* update_collector takes no gate.  Enabling a managed configuration needs
\* the test again; without one there must be values in use.
PatchCollector(r, enabled) ==
    /\ MayEnter(r)
    /\ enabled => IF Managed
                  THEN Draft # Null /\ Draft.values = Saved.values /\ TestPassed(Draft)
                  ELSE registry.values # Null
    /\ LET was == IF Saved = Null THEN NewSaved ELSE Saved
       IN Writes(r, "saved", Saved, [was EXCEPT !.enabled = enabled])
    /\ UNCHANGED <<rows, credentials, registry, job, gate, disk, tested>>

\* An UPDATE sets the columns whose values differ from the ones read.
Updated(row, read, new) ==
    [f \in DOMAIN row |-> IF new[f] # read[f] THEN new[f] ELSE row[f]]

\* The commit of get_session, when the gate is free again.  A second INSERT
\* of a row, and a credential deleted meanwhile, roll it back.
Commit(r) ==
    LET w == call[r]
        row == IF w.read = Null THEN w.row ELSE Updated(rows[w.key], w.read, w.row)
    IN /\ w.pc = "commit"
       /\ Ends(r)
       /\ IF \/ w.read = Null /\ rows[w.key] # Null
             \/ w.key \in Connections /\ row.credential \notin credentials
          THEN UNCHANGED rows
          ELSE rows' = [rows EXCEPT ![w.key] = row]
       /\ UNCHANGED <<credentials, registry, job, gate, disk, tested>>

(***************************************************************************)
(* execute_action: the digest is made, the worker is awaited under the     *)
(* gate, then the result is stored for that digest and version.            *)
(***************************************************************************)
ExecuteAction(r) ==
    /\ GateFree /\ MayEnter(r)
    /\ Draft # Null
    /\ Digest(Draft.values) # Null
    /\ gate' = r
    /\ call' = [call EXCEPT ![r] = [pc |-> "acting", key |-> Digest(Draft.values),
                                    read |-> Draft, row |-> Null]]
    /\ UNCHANGED <<rows, credentials, registry, job, disk, tested>>

\* run_setup reads the connections again, in a session of its own, and
\* refuses one that is no longer approved.
ActionDone(r, ok) ==
    LET d == call[r].read
        runs == Approved(d.values)
    IN /\ call[r].pc = "acting"
       /\ gate' = Null
       /\ tested' = IF ok /\ runs THEN tested \cup {Material(d.values)} ELSE tested
       /\ IF runs THEN Writes(r, "draft", d, [d EXCEPT !.tests =
              [digest |-> call[r].key, version |-> registry.version, ok |-> ok]])
          ELSE Ends(r)
       /\ UNCHANGED <<rows, credentials, registry, job, disk>>

(***************************************************************************)
(* apply_configuration, under the gate to its end: a candidate registry is *)
(* built and started, its job scheduled, the setting committed, and only   *)
(* then does the candidate become the active one.                          *)
(***************************************************************************)
ApplyConfiguration(r) ==
    /\ GateFree /\ MayEnter(r)
    /\ Draft # Null
    /\ TestPassed(Draft)
    /\ gate' = r
    /\ call' = [call EXCEPT ![r] =
           [pc |-> "starting", key |-> "saved", read |-> Null,
            row |-> [values |-> Draft.values, enabled |-> TRUE, version |-> disk]]]
    /\ UNCHANGED <<rows, credentials, registry, job, disk, tested>>

\* The candidate, or a plugin that was enabled, fails to start.
ApplyNotStarted(r) ==
    /\ call[r].pc = "starting"
    /\ gate' = Null
    /\ Ends(r)
    /\ UNCHANGED <<rows, credentials, registry, job, disk, tested>>

\* reconcile_collector_jobs for the candidate, the setting row read.
ApplyStarted(r) ==
    /\ call[r].pc = "starting"
    /\ job' = TRUE
    /\ call' = [call EXCEPT ![r].pc = "saving", ![r].read = Saved]
    /\ UNCHANGED <<rows, credentials, registry, gate, disk, tested>>

ApplySaved(r) ==
    LET w == call[r]
        new == [values |-> w.row.values, enabled |-> TRUE, managed |-> TRUE]
    IN /\ w.pc = "saving"
       /\ w.read = Null => Saved = Null
       /\ rows' = [rows EXCEPT !["saved"] =
              IF w.read = Null THEN new ELSE Updated(Saved, w.read, new)]
       /\ call' = [call EXCEPT ![r].pc = "activating"]
       /\ UNCHANGED <<credentials, registry, job, gate, disk, tested>>

\* The commit fails: the jobs follow the previous registry again.
ApplyNotSaved(r) ==
    /\ call[r].pc = "saving"
    /\ job' = registry.enabled
    /\ gate' = Null
    /\ Ends(r)
    /\ UNCHANGED <<rows, credentials, registry, disk, tested>>

\* activate_collector_registry, and the previous generation is shut down.
ApplyActivated(r) ==
    /\ call[r].pc = "activating"
    /\ registry' = call[r].row
    /\ gate' = Null
    /\ Ends(r)
    /\ UNCHANGED <<rows, credentials, job, disk, tested>>

(***************************************************************************)
(* Reload, and a restart of the application                                *)
(***************************************************************************)
\* load_collector_db_overrides and build_collector_registry.
Built == [values |-> IF Managed THEN Saved.values ELSE Null,
          enabled |-> Saved # Null /\ Saved.enabled,
          version |-> disk]

\* start_collector_registry: a plugin that does not start is not enabled.
Started(built, ok) == [built EXCEPT !.enabled = @ /\ ok]

ReloadBegins(r) ==
    /\ GateFree /\ MayEnter(r)
    /\ gate' = r
    /\ call' = [call EXCEPT ![r] = [pc |-> "reloading", key |-> Null,
                                    read |-> Null, row |-> Built]]
    /\ UNCHANGED <<rows, credentials, registry, job, disk, tested>>

ReloadEnds(r, ok) ==
    /\ call[r].pc = "reloading"
    /\ registry' = Started(call[r].row, ok)
    /\ job' = registry'.enabled
    /\ gate' = Null
    /\ Ends(r)
    /\ UNCHANGED <<rows, credentials, disk, tested>>

\* A crash at any point, and build_initial_collector_registry.
Restart(ok) ==
    /\ call' = [r \in Calls |-> IdleCall]
    /\ gate' = Null
    /\ registry' = Started(Built, ok)
    /\ job' = registry'.enabled
    /\ UNCHANGED <<rows, credentials, disk, tested>>

\* A newer package is installed; nothing loads it before the next build.
PackageReplaced ==
    /\ disk < MaxVersion
    /\ disk' = disk + 1
    /\ UNCHANGED <<rows, credentials, registry, job, gate, call, tested>>

EditStep(r) ==
    \/ \E v \in Connections \cup {Null} : PutDraft(r, v)
    \/ ImportConfiguration(r)
    \/ \E c \in Connections :
          \/ \E h \in Hosts, k \in Credentials : CreateConnection(r, c, h, k)
          \/ \E h \in Hosts, k \in Credentials : UpdateConnection(r, c, h, k)
          \/ ProbeHostKey(r, c)
          \/ ApproveHostKey(r, c)
    \/ \E key \in HostKeys : HostKeyAnswered(r, key)
    \/ HostKeyUnanswered(r)
    \/ \E k \in Credentials : CreateCredential(r, k) \/ DeleteCredential(r, k)
    \/ \E enabled \in BOOLEAN : PatchCollector(r, enabled)
    \/ Commit(r)

ApplyStep(r) ==
    \/ ExecuteAction(r)
    \/ \E ok \in BOOLEAN : ActionDone(r, ok)
    \/ ApplyConfiguration(r)
    \/ ApplyNotStarted(r)
    \/ ApplyStarted(r)
    \/ ApplySaved(r)
    \/ ApplyNotSaved(r)
    \/ ApplyActivated(r)
    \/ ReloadBegins(r)
    \/ \E ok \in BOOLEAN : ReloadEnds(r, ok)

SetupNext ==
    \/ \E r \in Calls : EditStep(r) \/ ApplyStep(r)
    \/ \E ok \in BOOLEAN : Restart(ok)
    \/ PackageReplaced

SetupSpec == SetupInit /\ [][SetupNext]_setupVars

(***************************************************************************)
(* Properties                                                              *)
(***************************************************************************)
Registrations == [values : Connections \cup {Null}, enabled : BOOLEAN, version : 1 .. MaxVersion]

\* Every row, registration and request under way has its shape, and the gate
\* is held by exactly the request that is between its acquiring and releasing
\* it (mutation_gate and the lock of reload_collector_registry).
SetupTypeOK ==
    /\ rows["draft"] \in {Null} \cup DraftRows
    /\ rows["saved"] \in {Null} \cup SavedRows
    /\ \A c \in Connections :
          rows[c] \in {Null} \cup ConnectionRows
    /\ credentials \subseteq Credentials
    /\ registry \in Registrations
    /\ \A r \in Calls :
          gate = r <=> call[r].pc \in {"probing", "acting", "starting", "saving",
                                       "activating", "reloading"}

\* What the plugin collects with - configuration, host, approved host key and
\* SSH key - is what its required action succeeded with
\* (required_for_enable; plugin-onboarding.md:35).
EnabledWasTested == Running => Material(registry.values) \in tested

\* A connection that is collected from, or named by an enabled saved setting,
\* keeps its host, approved key and SSH key (ensure_not_active;
\* plugin-onboarding.md:63).
InUse(c) == \/ Running /\ registry.values = c
            \/ Saved # Null /\ Saved.values = c /\ Saved.enabled = TRUE
ConnectionInUseKept ==
    [][\A c \in Connections :
          rows[c] # Null /\ InUse(c) => Material(c)' = Material(c)]_setupVars

\* Apply commits and activates as one: whenever no apply or reload is under
\* way, the active registry has the values of the managed saved setting, and
\* the scheduler has the plugin's job exactly when it is enabled.
AppliedIsSaved ==
    GateFree =>
        /\ Managed => registry.values = Saved.values
        /\ job = registry.enabled
=============================================================================
