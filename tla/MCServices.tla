------------------------------ MODULE MCServices ------------------------------
(* The state machines of the services in one state space: a behaviour is of  *)
(* one of them (scope), and the variables of the others stay at their first  *)
(* initial values.                                                           *)
EXTENDS PluginPackages, PluginSetup, RemoteLogCursor, DirectoryLogin, ServiceStartup,
        ChatRequests, PeriodViews, DigestsAndResearch

CONSTANT Scopes   \* those to check

VARIABLE scope

MCVars == <<scope, packagesVars, setupVars, remoteLogVars, directoryVars, startupVars,
            chatVars, periodVars, digestVars>>

\* A state machine that is not the one of the behaviour.
Others(own) ==
    /\ own # "packages" => UNCHANGED packagesVars
    /\ own # "setup" => UNCHANGED setupVars
    /\ own # "remote logs" => UNCHANGED remoteLogVars
    /\ own # "directory" => UNCHANGED directoryVars
    /\ own # "startup" => UNCHANGED startupVars
    /\ own # "chat" => UNCHANGED chatVars
    /\ own # "period" => UNCHANGED periodVars
    /\ own # "digests" => UNCHANGED digestVars
    /\ UNCHANGED scope

MCInit ==
    /\ scope \in Scopes
    /\ PackagesInit /\ SetupInit /\ RemoteLogInit /\ DirectoryInit /\ StartupInit
    /\ ChatInit /\ PeriodInit /\ DigestsInit
    /\ scope # "directory" => ~ strict
    /\ scope # "startup" => engine = "postgresql" /\ ~ adminDirectory
    /\ scope # "period" => samples = {} /\ occurred = {}

MCNext ==
    \/ scope = "packages" /\ PackagesNext /\ Others("packages")
    \/ scope = "setup" /\ SetupNext /\ Others("setup")
    \/ scope = "remote logs" /\ RemoteLogNext /\ Others("remote logs")
    \/ scope = "directory" /\ DirectoryNext /\ Others("directory")
    \/ scope = "startup" /\ StartupNext /\ Others("startup")
    \/ scope = "chat" /\ ChatNext /\ Others("chat")
    \/ scope = "period" /\ PeriodNext /\ Others("period")
    \/ scope = "digests" /\ DigestsNext /\ Others("digests")

MCSpec == MCInit /\ [][MCNext]_MCVars

\* Plugin requests are interchangeable.
MCSymmetry == Permutations(Calls)

-----------------------------------------------------------------------------
(* The data of the instance.                                                *)

\* The configurations an administrator saves for a directory.
DirectoryChoice(on, safe, attribute, known, role) ==
    [enabled |-> on, secure |-> safe, attribute |-> attribute, secret |-> known,
     mapping |-> [g \in Groups |-> role]]
TheConfigurations ==
    {DirectoryChoice(TRUE, TRUE, "id", TRUE, "admin"),
     DirectoryChoice(TRUE, TRUE, "id", TRUE, "viewer"),
     DirectoryChoice(FALSE, TRUE, "id", TRUE, "admin"),
     DirectoryChoice(TRUE, FALSE, "id", TRUE, "admin"),
     DirectoryChoice(TRUE, TRUE, "uid", TRUE, "admin"),
     DirectoryChoice(TRUE, TRUE, "id", FALSE, "admin")}

\* Empty, of an older release, in step, and of another engine.
TheDatabases ==
    {<<"sqlite", 0, 0>>, <<"sqlite", 1, 0>>, <<"sqlite", 2, 0>>, <<"sqlite", 3, 4>>,
     <<"postgresql", 1, 1>>}

StartChoice(auto, key, plain, production, auth, local, bootstrap) ==
    [auto |-> auto, key |-> key, plain |-> plain, production |-> production,
     auth |-> auth, local |-> local, bootstrap |-> bootstrap]
TheSettings ==
    {StartChoice(TRUE, TRUE, FALSE, TRUE, TRUE, TRUE, "both"),
     StartChoice(TRUE, TRUE, FALSE, TRUE, TRUE, TRUE, "none"),
     StartChoice(TRUE, FALSE, TRUE, FALSE, TRUE, TRUE, "partial"),
     StartChoice(TRUE, FALSE, TRUE, FALSE, FALSE, TRUE, "none"),
     StartChoice(FALSE, TRUE, FALSE, TRUE, TRUE, FALSE, "none")}

\* Two hosts share a first label, one has a label of its own.
FirstLabel(name) ==
    CASE name \in {"web.a", "web.b"} -> "web" [] name = "db.a" -> "db" [] OTHER -> ""

\* Requests whose JSON must be cut, whose turns or attachment must go as well,
\* with names that are known, shared, shortened or unknown.
ChatBody(json, turns, attachment, images, sees, hosts, mentions, renames, production, search) ==
    [json |-> json, turns |-> turns, attachment |-> attachment, images |-> images,
     seesImages |-> sees, hosts |-> hosts, mentions |-> mentions, anonymise |-> renames,
     production |-> production, search |-> search]
TheBodies ==
    {ChatBody(3, <<1>>, 0, 0, TRUE, {"web.a", "db.a"}, {"web", "vc"}, TRUE, TRUE, TRUE),
     ChatBody(9, <<2, 3, 2>>, 2, 1, FALSE, {"web.a", "web.b"}, {"web", "web.b"}, TRUE, FALSE, FALSE),
     ChatBody(4, <<1, 2>>, 7, 0, TRUE, {"web.a", "web"}, {"web.b"}, FALSE, TRUE, TRUE),
     ChatBody(3, <<2, 9>>, 3, 1, TRUE, {"db.a"}, {"db", "web"}, TRUE, FALSE, FALSE)}

TheScores(type) == IF type = "disk" THEN 2 ELSE 1
ThePeriods == {<<1, 2>>}

\* Twelve minutes of samples and events.  Host 2 exists in both vCenters; host 1
\* may be high in three buckets in a row, or in three with a gap.
Sample(vc, host, key, at, value) == [vc |-> vc, host |-> host, key |-> key, at |-> at, value |-> value]
Happening(id, vc, type, at, score) == [id |-> id, vc |-> vc, type |-> type, at |-> at, score |-> score]
TheSamples ==
    {Sample(1, 1, "cpu", 0, 95), Sample(1, 1, "cpu", 3, 92), Sample(1, 1, "cpu", 6, 99),
     Sample(1, 2, "cpu", 1, 50), Sample(2, 2, "cpu", 1, 100), Sample(1, 3, "read", 2, 60)}
TheEvents ==
    {Happening(1, 1, 1, 0, 0), Happening(2, 1, 2, 1, 7), Happening(3, 1, 3, 1, 7),
     Happening(4, 2, 1, 5, 3)}
TheLateRows ==
    {Sample(1, 1, "cpu", 4, 91), Happening(6, 1, 1, 1, 9)}
TheRows(late, given) == given \cup {r \in TheLateRows : ("key" \in DOMAIN r) = late}
TheSampleRows == TheRows(TRUE, TheSamples)
TheEventRows == TheRows(FALSE, TheEvents)
TheKeys == [c \in {"cpu", "memory", "disk"} |->
               CASE c = "cpu" -> {"cpu"} [] c = "memory" -> {"mem"} [] OTHER -> {"read", "write"}]
View(from, to, vc, metrics, level, alerts) ==
    [from |-> from, to |-> to, vc |-> vc, minScore |-> 1, metrics |-> metrics, topAlerts |-> alerts,
     threshold |-> [c \in DOMAIN TheKeys |-> IF c = "cpu" THEN level ELSE 0]]
TheViews ==
    {View(0, 8, 0, {"cpu", "disk"}, 92, 2), View(0, 6, 1, {"cpu"}, 0, 3), View(1, 7, 0, {}, 0, 2)}
TheHorizons == <<6, 12>>
TheWidths == <<1, 2, 4>>

(***************************************************************************)
(* Properties                                                              *)
(***************************************************************************)
\* Every state of them has its shape.
ServicesTypeOK ==
    /\ PackagesTypeOK /\ SetupTypeOK /\ RemoteLogTypeOK /\ DirectoryTypeOK
    /\ StartupTypeOK /\ ChatTypeOK /\ PeriodTypeOK /\ DigestsTypeOK

\* What a plugin collects with was tested as it is, and what is applied was saved
\* (test_configuration, apply_configuration), and stays as it is while it is in use.
ConfigurationInUse == [](EnabledWasTested /\ AppliedIsSaved) /\ ConnectionInUseKept

\* Accounts of a directory are what its present configuration makes them; and
\* somebody can administrate: no change of a directory or of a user takes the last
\* way in away, and a process that serves has found or made one.
AccountsHold == AccountsAsConfigured /\ AdminSourceRemains /\ ServingHasAdmin
===============================================================================
