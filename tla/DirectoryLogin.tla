---------------------------- MODULE DirectoryLogin ----------------------------
(***************************************************************************)
(* Logins through LDAP or Active Directory against administrators who      *)
(* change, disable or delete the directory, disable its users or lose      *)
(* other ways to enter.                                                    *)
(*                                                                         *)
(* A login reads the configuration, waits for the LDAP server, and ends in *)
(* one transaction: it locks and writes the row of the user, then locks    *)
(* and reads the configuration again, then inserts the session.  A change  *)
(* of a directory is drafted, verified at the LDAP server when it could    *)
(* shut everybody out, and saved inside admin_change_guard, one at a time. *)
(* A step that would wait for a row lock is not enabled.                   *)
(***************************************************************************)
EXTENDS Integers, FiniteSets

CONSTANTS
    Dirs,            \* directories
    Accounts,        \* accounts in the directories
    Groups,
    Logins,          \* requests that log in
    Editors,         \* requests that change a directory
    Nobody,
    Configurations,  \* the settings administrators save: enabled, secure,
                     \* attribute (of the unique id), secret (whether the
                     \* service account can bind) and mapping
    MaxSaves         \* bound: directories saved

ASSUME DirectoryAssumption ==
    /\ MaxSaves \in Nat
    /\ IsFiniteSet(Dirs)
    /\ Nobody \notin Dirs \cup Accounts \cup Groups
    /\ Nobody \notin [role : {"admin", "viewer"}, active : BOOLEAN]
    /\ \A c \in Configurations :
          /\ c \in [enabled : BOOLEAN, secure : BOOLEAN, attribute : {c.attribute}, secret : BOOLEAN,
                    mapping : [Groups -> {"none", "viewer", "admin"}]]
          /\ Nobody \notin [enabled : BOOLEAN, secure : BOOLEAN, attribute : {c.attribute},
                            secret : BOOLEAN, mapping : [Groups -> {"none", "viewer", "admin"}],
                            version : 1 .. MaxSaves]

VARIABLES
    config,      \* directory -> its row, or Nobody
    users,       \* directory -> unique id -> row, or Nobody
    sessions,    \* sessions of directory users
    localAdmins, \* administrators with a local password
    strict,      \* settings forbid connections that are not verified
    member,      \* <<account, group>> at the LDAP server
    login,       \* request -> the login under way
    edit,        \* request -> the change under way
    saves,       \* saves so far; the last value stands for updated_at
    tightened    \* ghost: the settings became strict after the start

directoryVars == <<config, users, sessions, localAdmins, strict, member, login, edit,
                   saves, tightened>>

Attributes == {c.attribute : c \in Configurations}
Subjects == Attributes \X Accounts
NoLogin == [pc |-> "idle"]
NoEdit == [pc |-> "idle"]
WithVersion(settings, v) ==
    [f \in DOMAIN settings \cup {"version"} |-> IF f = "version" THEN v ELSE settings[f]]

DirectoryRows == {WithVersion(c, v) : c \in Configurations, v \in 1 .. MaxSaves}

DirectoryInit ==
    /\ config = [d \in Dirs |-> Nobody]
    /\ users = [d \in Dirs |-> [x \in Subjects |-> Nobody]]
    /\ sessions = {}
    /\ localAdmins = 1
    /\ strict \in BOOLEAN
    /\ member = Accounts \X Groups
    /\ login = [p \in Logins |-> NoLogin]
    /\ edit = [e \in Editors |-> NoEdit]
    /\ saves = 0
    /\ tightened = FALSE

-----------------------------------------------------------------------------
(* The LDAP exchange: connect, find the user, bind as it, read the unique   *)
(* id and the groups, take the strongest role of the mapping.               *)

\* check_security and allowed_by_security
AllowedBySecurity(c) == c.secure \/ ~ strict

MappedRoles(c, a) == {c.mapping[g] : g \in {h \in Groups : <<a, h>> \in member}} \ {"none"}
ResolveRole(c, a) ==
    IF "admin" \in MappedRoles(c, a) THEN "admin"
    ELSE IF "viewer" \in MappedRoles(c, a) THEN "viewer" ELSE "none"

UniqueId(c, a) == <<c.attribute, a>>
MayAuthenticate(c, a) ==
    AllowedBySecurity(c) /\ c.secret /\ ResolveRole(c, a) # "none"

-----------------------------------------------------------------------------
(* A login.                                                                 *)

LoginIs(p, state) == login' = [login EXCEPT ![p] = state]
Refuse(p) == LoginIs(p, NoLogin)

LoadDirectory(p, d, a) ==
    /\ login[p].pc = "idle"
    /\ config[d] # Nobody /\ config[d].enabled
    /\ LoginIs(p, [pc |-> "asking", dir |-> d, account |-> a, spec |-> config[d]])
    /\ UNCHANGED <<config, users, sessions, localAdmins, strict, member, edit, saves, tightened>>

LdapAnswers(p) ==
    LET l == login[p]
    IN /\ l.pc = "asking"
       /\ MayAuthenticate(l.spec, l.account)
       /\ LoginIs(p, [pc |-> "known", dir |-> l.dir, account |-> l.account, spec |-> l.spec,
                      role |-> ResolveRole(l.spec, l.account)])
       /\ UNCHANGED <<config, users, sessions, localAdmins, strict, member, edit, saves,
                      tightened>>

\* The server is down, the password is wrong, the request or the database fails.
LoginFails(p) ==
    /\ login[p].pc # "idle"
    /\ Refuse(p)
    /\ UNCHANGED <<config, users, sessions, localAdmins, strict, member, edit, saves, tightened>>

Subject(l) == UniqueId(l.spec, l.account)
UserLocked(d, x) ==
    \E p \in Logins : /\ login[p].pc \in {"written", "checked"}
                      /\ login[p].dir = d /\ Subject(login[p]) = x
ConfigLocked(d) == \E p \in Logins : login[p].pc = "checked" /\ login[p].dir = d

\* Not before the transaction that locks the row has ended; a first login that
\* loses the race to insert it reads it again.
UpsertDirectoryUser(p) ==
    LET l == login[p]
        u == users[l.dir][Subject(l)]
    IN /\ l.pc = "known"
       /\ ~ UserLocked(l.dir, Subject(l))
       /\ IF u # Nobody /\ ~ u.active THEN Refuse(p)
          ELSE LoginIs(p, [l EXCEPT !.pc = "written"])
       /\ UNCHANGED <<config, users, sessions, localAdmins, strict, member, edit, saves,
                      tightened>>

(* Mutant: only whether the directory is still enabled is looked at again. *)
StillTheConfiguration_Enabled(l) == config[l.dir] # Nobody /\ config[l.dir].enabled

StillTheConfiguration(l) ==
    /\ config[l.dir] # Nobody /\ config[l.dir].enabled
    /\ config[l.dir].version = l.spec.version

RecheckConfiguration(p) ==
    /\ login[p].pc = "written"
    /\ ~ ConfigLocked(login[p].dir)
    /\ IF StillTheConfiguration(login[p]) THEN LoginIs(p, [login[p] EXCEPT !.pc = "checked"])
       ELSE Refuse(p)
    /\ UNCHANGED <<config, users, sessions, localAdmins, strict, member, edit, saves, tightened>>

SessionsOf(d, x) == {s \in sessions : s.dir = d /\ s.subject = x}

\* The commit: the user's row, whose other sessions end when its role changes,
\* and the new session.
EnterWithSession(p) ==
    LET l == login[p]
        u == users[l.dir][Subject(l)]
        ended == IF u # Nobody /\ u.role # l.role THEN SessionsOf(l.dir, Subject(l)) ELSE {}
    IN /\ l.pc = "checked"
       /\ users' = [users EXCEPT ![l.dir][Subject(l)] = [role |-> l.role, active |-> TRUE]]
       /\ sessions' = (sessions \ ended) \cup
              {[dir |-> l.dir, subject |-> Subject(l), role |-> l.role, basis |-> l.spec]}
       /\ Refuse(p)
       /\ UNCHANGED <<config, localAdmins, strict, member, edit, saves, tightened>>

-----------------------------------------------------------------------------
(* Sessions in use.                                                         *)

DirectoryUsable(d) ==
    config[d] # Nobody /\ config[d].enabled /\ AllowedBySecurity(config[d])
Usable(s) ==
    LET u == users[s.dir][s.subject]
    IN u # Nobody /\ u.active /\ DirectoryUsable(s.dir)

\* resolve_session deletes one that cannot be used, for good.
UseSession(s) ==
    /\ ~ Usable(s)
    /\ sessions' = sessions \ {s}
    /\ UNCHANGED <<config, users, localAdmins, strict, member, login, edit, saves, tightened>>

-----------------------------------------------------------------------------
(* Changes of a directory.                                                  *)

HasAdminMapping(c) == \E g \in Groups : c.mapping[g] = "admin"
AdminDirectories == {d \in Dirs : DirectoryUsable(d) /\ HasAdminMapping(config[d])}
OtherAdminSources(d) == localAdmins + Cardinality(AdminDirectories \ {d})

\* _validate: of the combinations it refuses only the unverified connection matters
\* here.  _new_config and _edited leave any other combination for a draft.
ValidSettings(c) == AllowedBySecurity(c)
Drafts == {c \in Configurations : ValidSettings(c)}

\* What a session was granted on.
IdentityChanged(c, draft) ==
    \E f \in {"secure", "attribute", "mapping"} : c[f] # draft[f]
LoginAffected(c, draft) == IdentityChanged(c, draft) \/ c.secret # draft.secret

LosesAdmin(d, c, draft) ==
    /\ c.enabled
    /\ \/ ~ draft.enabled
       \/ HasAdminMapping(c) /\ ~ HasAdminMapping(draft)
    /\ OtherAdminSources(d) = 0

\* via: the directory the administrator has logged in through.
RefuseLosingAdmin(d, c, draft, via) ==
    \/ LosesAdmin(d, c, draft)
    \/ c.enabled /\ ~ draft.enabled /\ via = d

VerificationNeeded(d, c, draft, via) ==
    /\ draft.enabled
    /\ c.enabled => LoginAffected(c, draft)
    /\ via = d \/ OtherAdminSources(d) = 0

\* Directories whose sessions are an administrator's; Nobody is the local one.
AdministratorsVia ==
    {s.dir : s \in {t \in sessions : Usable(t) /\ users[t.dir][t.subject].role = "admin"}}
        \cup (IF localAdmins > 0 THEN {Nobody} ELSE {})

CreateDirectory(d, c) ==
    /\ config[d] = Nobody
    /\ AdministratorsVia # {}
    /\ c \in Drafts
    /\ saves < MaxSaves
    /\ saves' = saves + 1
    /\ config' = [config EXCEPT ![d] = WithVersion(c, saves + 1)]
    /\ UNCHANGED <<users, sessions, localAdmins, strict, member, login, edit, tightened>>

DraftChange(e, d, draft, via) ==
    /\ edit[e].pc = "idle"
    /\ config[d] # Nobody
    /\ saves < MaxSaves
    /\ via \in AdministratorsVia
    /\ draft \in Drafts
    /\ ~ RefuseLosingAdmin(d, config[d], draft, via)
    /\ edit' = [edit EXCEPT ![e] =
           [pc |-> IF VerificationNeeded(d, config[d], draft, via) THEN "verify" ELSE "save",
            dir |-> d, read |-> config[d], draft |-> draft, via |-> via, verified |-> Nobody]]
    /\ UNCHANGED <<config, users, sessions, localAdmins, strict, member, login, saves, tightened>>

\* A whole login with the draft's settings, which must give an administrator.
VerifyAdmin(e, a) ==
    /\ edit[e].pc = "verify"
    /\ MayAuthenticate(edit[e].draft, a)
    /\ ResolveRole(edit[e].draft, a) = "admin"
    /\ edit' = [edit EXCEPT ![e].pc = "save", ![e].verified = UniqueId(edit[e].draft, a)]
    /\ UNCHANGED <<config, users, sessions, localAdmins, strict, member, login, saves, tightened>>

EditFails(e) ==
    /\ edit[e].pc # "idle"
    /\ edit' = [edit EXCEPT ![e] = NoEdit]
    /\ UNCHANGED <<config, users, sessions, localAdmins, strict, member, login, saves, tightened>>

\* admin_change_guard locks the rows of the active administrators.
GuardFree ==
    \A d \in Dirs, x \in Subjects :
        /\ users[d][x] # Nobody
        /\ users[d][x].active
        /\ users[d][x].role = "admin"
        => ~ UserLocked(d, x)

VerifierDisabled(w) ==
    LET u == users[w.dir][w.verified]
    IN w.verified # Nobody /\ u # Nobody /\ ~ u.active

KeepsUniqueIds(w) ==
    \/ w.draft.attribute = config[w.dir].attribute
    \/ \A x \in Subjects : users[w.dir][x] = Nobody

SaveChange(e) ==
    LET w == edit[e]
        d == w.dir
    IN /\ w.pc = "save"
       /\ GuardFree /\ ~ ConfigLocked(d)
       /\ config[d] # Nobody /\ config[d].version = w.read.version
       /\ ~ RefuseLosingAdmin(d, config[d], w.draft, w.via)
       /\ w.verified = Nobody => ~ VerificationNeeded(d, config[d], w.draft, w.via)
       /\ ~ VerifierDisabled(w)
       /\ KeepsUniqueIds(w)
       /\ saves < MaxSaves
       /\ saves' = saves + 1
       /\ config' = [config EXCEPT ![d] = WithVersion(w.draft, saves + 1)]
       /\ sessions' = IF ~ w.draft.enabled \/ IdentityChanged(config[d], w.draft)
                      THEN {s \in sessions : s.dir # d} ELSE sessions
       /\ edit' = [edit EXCEPT ![e] = NoEdit]
       /\ UNCHANGED <<users, localAdmins, strict, member, login, tightened>>

DeleteDirectory(d) ==
    /\ config[d] # Nobody /\ ~ config[d].enabled
    /\ AdministratorsVia # {}
    /\ GuardFree /\ ~ ConfigLocked(d)
    /\ \A x \in Subjects : ~ UserLocked(d, x)
    /\ OtherAdminSources(d) > 0
    /\ config' = [config EXCEPT ![d] = Nobody]
    /\ users' = [users EXCEPT ![d] = [x \in Subjects |-> Nobody]]
    /\ sessions' = {s \in sessions : s.dir # d}
    /\ UNCHANGED <<localAdmins, strict, member, login, edit, saves, tightened>>

-----------------------------------------------------------------------------
(* Users.                                                                   *)

\* ensure_not_last_admin for a user of a directory.
LastDirectoryAdmin(d, x) ==
    /\ users[d][x].role = "admin"
    /\ d \in AdminDirectories
    /\ OtherAdminSources(d) = 0

SetActive(d, x, active) ==
    /\ users[d][x] # Nobody /\ users[d][x].active # active
    /\ AdministratorsVia # {}
    /\ GuardFree /\ ~ UserLocked(d, x)
    /\ ~ active => ~ LastDirectoryAdmin(d, x)
    /\ users' = [users EXCEPT ![d][x].active = active]
    /\ sessions' = sessions \ SessionsOf(d, x)
    /\ UNCHANGED <<config, localAdmins, strict, member, login, edit, saves, tightened>>

\* A local administrator is created, or demoted, disabled or deleted.
ChangeLocalAdmins(n) ==
    /\ n # localAdmins
    /\ AdministratorsVia # {}
    /\ GuardFree
    /\ n < localAdmins => n + Cardinality(AdminDirectories) > 0
    /\ localAdmins' = n
    /\ UNCHANGED <<config, users, sessions, strict, member, login, edit, saves, tightened>>

-----------------------------------------------------------------------------
(* Outside, and a restart with other settings.                              *)

ChangeMembers(a, g) ==
    /\ member' = IF <<a, g>> \in member THEN member \ {<<a, g>>} ELSE member \cup {<<a, g>>}
    /\ UNCHANGED <<config, users, sessions, localAdmins, strict, login, edit, saves, tightened>>

RestartWith(b) ==
    /\ strict' = b
    /\ tightened' = (tightened \/ (b /\ ~ strict))
    /\ login' = [p \in Logins |-> NoLogin]
    /\ edit' = [e \in Editors |-> NoEdit]
    /\ UNCHANGED <<config, users, sessions, localAdmins, member, saves>>

LoginStep(p) ==
    \/ \E d \in Dirs, a \in Accounts : LoadDirectory(p, d, a)
    \/ LdapAnswers(p) \/ UpsertDirectoryUser(p) \/ RecheckConfiguration(p)
    \/ EnterWithSession(p) \/ LoginFails(p)

ChangeStep(e) ==
    \/ \E d \in Dirs, c \in Configurations, via \in Dirs \cup {Nobody} : DraftChange(e, d, c, via)
    \/ \E a \in Accounts : VerifyAdmin(e, a)
    \/ SaveChange(e)
    \/ EditFails(e)

DirectoryNext ==
    \/ \E p \in Logins : LoginStep(p)
    \/ \E e \in Editors : ChangeStep(e)
    \/ \E s \in sessions : UseSession(s)
    \/ \E d \in Dirs, c \in Configurations : CreateDirectory(d, c)
    \/ \E d \in Dirs : DeleteDirectory(d)
    \/ \E d \in Dirs, x \in Subjects, b \in BOOLEAN : SetActive(d, x, b)
    \/ \E n \in 0 .. 1 : ChangeLocalAdmins(n)
    \/ \E a \in Accounts, g \in Groups : ChangeMembers(a, g)
    \/ \E b \in BOOLEAN : RestartWith(b)

DirectorySpec == DirectoryInit /\ [][DirectoryNext]_directoryVars

(***************************************************************************)
(* Properties                                                              *)
(***************************************************************************)
\* Rows, sessions and requests have their shape, and no row lock is held twice.
DirectoryTypeOK ==
    /\ \A d \in Dirs :
          /\ config[d] \in {Nobody} \cup DirectoryRows
          /\ users[d] \in [Subjects -> {Nobody} \cup [role : {"admin", "viewer"}, active : BOOLEAN]]
          /\ Cardinality({p \in Logins : login[p].pc = "checked" /\ login[p].dir = d}) <= 1
    /\ \A s \in sessions : s.dir \in Dirs /\ s.subject \in Subjects
    /\ localAdmins \in 0 .. 1
    /\ saves \in 0 .. MaxSaves

\* A session that can be used was granted under the settings and the mapping
\* the directory has now, and its user has the role it was granted with
\* (the recheck after the LDAP exchange; the revocations of update_directory
\* and of a login that changes the role).
SessionsOnPresentTerms ==
    \A s \in sessions :
        Usable(s) => /\ ~ IdentityChanged(config[s.dir], s.basis)
                     /\ users[s.dir][s.subject].role = s.role

\* A way to log in as an administrator remains, whatever is changed, as long as
\* the settings do not become stricter (RefuseLosingAdmin, ensure_not_last_admin).
AdminSourceRemains == tightened \/ localAdmins + Cardinality(AdminDirectories) > 0

\* An account has one user row in a directory, so that one that was disabled
\* cannot come back as another (the check of unique_id_attribute).
OneRowPerAccount ==
    \A d \in Dirs, a \in Accounts :
        Cardinality({t \in Attributes : users[d][<<t, a>>] # Nobody}) <= 1

\* Accounts of the directory are what its present configuration makes them.
AccountsAsConfigured == SessionsOnPresentTerms /\ OneRowPerAccount
=============================================================================
