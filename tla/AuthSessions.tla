---------------------------- MODULE AuthSessions ----------------------------
(***************************************************************************)
(* Local users, their login with its lockout, the sessions it creates, the *)
(* requests that resolve a session, and the changes that revoke sessions:  *)
(* password, role, activation, deletion, unlocking.                        *)
(*                                                                         *)
(* A password is known by its generation (User.password_changed_at): the   *)
(* password of generation g is g, and 0 is no password at all.  One action *)
(* is one statement or one run of statements that a row lock makes atomic; *)
(* the awaits between statements are steps of a process.                   *)
(***************************************************************************)
EXTENDS Integers, FiniteSets

CONSTANTS
    Users, Logins, Requests,
    Changers,      \* administrators' requests and CLI commands under way
    Null,
    Roles,         \* of "admin", "viewer"
    MaxSessions,   \* bound: sessions ever created
    MaxGen,        \* bound: passwords a user ever has
    MaxTime,       \* bound: the clock
    MaxBusy,       \* bound: logins, requests and changes under way at once
    MaxFailed,     \* settings.login_max_failed_attempts
    Lockout,       \* settings.login_lockout_minutes
    IdleTimeout, AbsoluteTimeout, TouchInterval,   \* SessionPolicy
    OneGuard,      \* one admin_change_guard excludes every changer: TRUE in one
                   \* process and on PostgreSQL, FALSE for two of them on SQLite
    OneWriter      \* a transaction that has written excludes every other
                   \* writer: TRUE on SQLite, FALSE on PostgreSQL

ASSUME AuthAssumption ==
    /\ {MaxSessions, MaxBusy} \subseteq Nat
    /\ {MaxGen, MaxTime} \subseteq Nat \ {0}
    /\ {MaxFailed, Lockout, IdleTimeout, AbsoluteTimeout, TouchInterval}
          \subseteq Nat \ {0}
    /\ {OneGuard, OneWriter} \subseteq BOOLEAN

VARIABLES
    clock,
    user,      \* user -> its row, Null when there is none
    session,   \* session -> its row, Null when there is none
    issued,    \* sessions created so far
    login,     \* login -> the state of one authentication
    request,   \* request -> the state of one resolve_session
    change,    \* changer -> the state of one change
    since      \* user -> failed checks since the last success, lock or reset

vars == <<clock, user, session, issued, login, request, change, since>>

Sessions == 1 .. MaxSessions
Exists(u) == user[u] # Null
IdleLogin   == [pc |-> "idle", user |-> Null, row |-> Null, typed |-> 0, now |-> 0]
IdleRequest == [pc |-> "idle", id |-> 0, row |-> Null, now |-> 0, touch |-> FALSE]
IdleChange  == [pc |-> "idle", user |-> Null, op |-> Null, row |-> Null, keep |-> 0]
NewUser(role) == [role |-> role, active |-> TRUE, gen |-> 1, failed |-> 0, locked |-> 0]

Init ==
    /\ clock = 1
    /\ user = [u \in Users |-> NewUser("admin")]
    /\ session = [s \in Sessions |-> Null]
    /\ issued = 0
    /\ login = [l \in Logins |-> IdleLogin]
    /\ request = [r \in Requests |-> IdleRequest]
    /\ change = [c \in Changers |-> IdleChange]
    /\ since = [u \in Users |-> 0]

Busy(processes) == {p \in DOMAIN processes : processes[p].pc # "idle"}
MayBegin ==
    Cardinality(Busy(login)) + Cardinality(Busy(request)) + Cardinality(Busy(change))
        < MaxBusy

\* revoke_all_for_user, as one DELETE; `keep` is 0 or the session it spares.
\* `revoked` marks what a change of the user should have ended.
Revoked(u, keep) ==
    [s \in Sessions |->
        IF session[s] # Null /\ session[s].user = u /\ s # keep
        THEN Null ELSE session[s]]
MarkRevoked(rows, u) ==
    [s \in Sessions |->
        IF rows[s] # Null /\ rows[s].user = u
        THEN [rows[s] EXCEPT !.revoked = TRUE] ELSE rows[s]]

-----------------------------------------------------------------------------
(* Login: _authenticate_local, then _login_response.                        *)

Fails(l) == login' = [login EXCEPT ![l] = IdleLogin]

\* The row is read; a missing or locked user fails whatever was typed.
ReadUser(l) ==
    /\ login[l].pc = "idle" /\ MayBegin
    /\ \E u \in Users, typed \in 0 .. MaxGen :
         /\ Exists(u)
         /\ user[u].locked <= clock
         /\ login' = [login EXCEPT ![l] =
                        [pc |-> "verify", user |-> u, row |-> user[u],
                         typed |-> typed, now |-> clock]]
    /\ UNCHANGED <<clock, user, session, issued, request, change, since>>

\* _record_failure: the count is raised in the database; at the limit the user
\* is locked and the count starts again.
(* Mutant: the count is raised from the value that was read.                *)
Counted_FromRead(l) == login[l].row.failed + 1
Counted(l) == user[login[l].user].failed + 1

(* Mutant: the lock leaves the count as it is.                              *)
FailureRecorded_NoReset(l) ==
    IF Counted(l) < MaxFailed
    THEN [user[login[l].user] EXCEPT !.failed = Counted(l)]
    ELSE [user[login[l].user] EXCEPT !.failed = Counted(l), !.locked = login[l].now + Lockout]
FailureRecorded(l) ==
    IF Counted(l) < MaxFailed
    THEN [user[login[l].user] EXCEPT !.failed = Counted(l)]
    ELSE [user[login[l].user] EXCEPT !.failed = 0, !.locked = login[l].now + Lockout]

\* verify_password against the hash that was read.
Verify(l) ==
    LET at == login[l] IN
    /\ at.pc = "verify"
    /\ IF at.typed = at.row.gen
       THEN /\ IF at.row.active
               THEN login' = [login EXCEPT ![l].pc = "recheck"]
               ELSE Fails(l)
            /\ UNCHANGED <<user, since>>
       ELSE /\ Fails(l)
            /\ IF Exists(at.user)
               THEN /\ user' = [user EXCEPT ![at.user] = FailureRecorded(l)]
                    /\ since' = [since EXCEPT ![at.user] =
                                   IF Counted(l) < MaxFailed THEN @ + 1 ELSE 0]
               ELSE UNCHANGED <<user, since>>
    /\ UNCHANGED <<clock, session, issued, request, change>>

\* The row is read again: deleted, disabled or another password is a refusal.
Recheck(l) ==
    LET at == login[l] IN
    /\ at.pc = "recheck"
    /\ IF Exists(at.user) /\ user[at.user].active /\ user[at.user].gen = at.row.gen
       THEN login' = [login EXCEPT ![l].pc = "enter"]
       ELSE Fails(l)
    /\ UNCHANGED <<clock, user, session, issued, request, change, since>>

\* The condition of _record_success.
(* Mutant: a user locked meanwhile is let in.                               *)
MayEnter_EvenLocked(l) == Exists(login[l].user)
MayEnter(l) == Exists(login[l].user) /\ user[login[l].user].locked <= login[l].now

\* _record_success holds the row until the commit, so with it go the deletion
\* of the browser's old session and the insertion of the new one.
Enter(l) ==
    LET at == login[l]
        u  == at.user
    IN  /\ at.pc = "enter"
        /\ Fails(l)
        /\ IF MayEnter(l)
           THEN /\ issued < MaxSessions
                /\ issued' = issued + 1
                /\ user' = [user EXCEPT ![u].failed = 0, ![u].locked = 0]
                /\ since' = [since EXCEPT ![u] = 0]
                /\ \E old \in 0 .. issued :
                     session' = [s \in Sessions |->
                         IF s = issued + 1
                         THEN [user |-> u, marker |-> at.row.gen, seen |-> clock,
                               expires |-> clock + AbsoluteTimeout,
                               via |-> at.typed, revoked |-> FALSE]
                         ELSE IF s = old THEN Null ELSE session[s]]
           ELSE UNCHANGED <<issued, user, since, session>>
        /\ UNCHANGED <<clock, request, change>>

-----------------------------------------------------------------------------
(* A request with a session cookie: resolve_session.                        *)

Expired(row, now) == row.expires <= now \/ row.seen + IdleTimeout <= now
Answers(r) == request' = [request EXCEPT ![r] = IdleRequest]

ReadSession(r) ==
    /\ request[r].pc = "idle" /\ MayBegin
    /\ \E s \in 1 .. issued, touch \in BOOLEAN :
         /\ session[s] # Null
         /\ request' = [request EXCEPT ![r] =
                [pc |-> IF Expired(session[s], clock) THEN "expired" ELSE "user",
                 id |-> s, row |-> session[s], now |-> clock, touch |-> touch]]
    /\ UNCHANGED <<clock, user, session, issued, login, change, since>>

\* _delete_if_still_expired, whose condition the database evaluates again.
(* Mutant: the row that was read as expired is deleted by its id.           *)
StillExpired_ById(r) == TRUE
StillExpired(r) == Expired(session[request[r].id], request[r].now)

DeleteExpired(r) ==
    LET s == request[r].id IN
    /\ request[r].pc = "expired"
    /\ IF session[s] # Null /\ StillExpired(r)
       THEN Answers(r) /\ session' = [session EXCEPT ![s] = Null]
       ELSE /\ request' = [request EXCEPT ![r].pc = "reread"]
            /\ UNCHANGED session
    /\ UNCHANGED <<clock, user, issued, login, change, since>>

\* Another request has renewed the row, or deleted it.
ReadAgain(r) ==
    LET s == request[r].id IN
    /\ request[r].pc = "reread"
    /\ IF session[s] = Null
       THEN Answers(r)
       ELSE request' = [request EXCEPT ![r].pc = "user", ![r].row = session[s]]
    /\ UNCHANGED <<clock, user, session, issued, login, change, since>>

\* The user must be there, active, and of the generation of the session.
(* Mutant: the generation is not compared.                                  *)
Accepts_AnyMarker(row) == Exists(row.user) /\ user[row.user].active
Accepts(row) ==
    /\ Exists(row.user)
    /\ user[row.user].active
    /\ user[row.user].gen = row.marker

ResolveUser(r) ==
    LET at == request[r] IN
    /\ at.pc = "user"
    /\ IF ~Accepts(at.row)
       THEN /\ Answers(r)
            /\ session' = [session EXCEPT ![at.id] = Null]
       ELSE /\ IF at.touch /\ at.now - at.row.seen >= TouchInterval
               THEN request' = [request EXCEPT ![r].pc = "touch"]
               ELSE Answers(r)
            /\ UNCHANGED session
    /\ UNCHANGED <<clock, user, issued, login, change, since>>

\* _touch: last_seen_at moves forward only.
Touched(row, now) == IF row.seen < now THEN [row EXCEPT !.seen = now] ELSE row

Touch(r) ==
    LET s == request[r].id IN
    /\ request[r].pc = "touch"
    /\ Answers(r)
    /\ session' = IF session[s] = Null THEN session
                  ELSE [session EXCEPT ![s] = Touched(session[s], request[r].now)]
    /\ UNCHANGED <<clock, user, issued, login, change, since>>

Logout(s) ==
    /\ session[s] # Null
    /\ session' = [session EXCEPT ![s] = Null]
    /\ UNCHANGED <<clock, user, issued, login, request, change, since>>

PurgeExpiredSessions ==
    /\ \E s \in Sessions : session[s] # Null /\ Expired(session[s], clock)
    /\ session' = [s \in Sessions |->
          IF session[s] # Null /\ Expired(session[s], clock)
          THEN Null ELSE session[s]]
    /\ UNCHANGED <<clock, user, issued, login, request, change, since>>

-----------------------------------------------------------------------------
(* Passwords: set_local_password.                                           *)

\* The new row of the user, the revocation of its sessions but `keep`, which
\* is given the new generation.
SetPassword(u, keep) ==
    LET gen == user[u].gen + 1 IN
    /\ gen <= MaxGen
    /\ user' = [user EXCEPT ![u].gen = gen, ![u].failed = 0, ![u].locked = 0]
    /\ since' = [since EXCEPT ![u] = 0]
    /\ session' = [s \in Sessions |->
          IF s = keep /\ session[s] # Null /\ session[s].user = u
          THEN [session[s] EXCEPT !.marker = gen, !.via = gen]
          ELSE MarkRevoked(Revoked(u, keep), u)[s]]

Usable(s) ==
    session[s] # Null /\ ~Expired(session[s], clock) /\ Accepts(session[s])

\* change_own_password: the current password is verified against the hash that
\* was read ...
BeginOwnPassword(c) ==
    /\ change[c].pc = "idle" /\ MayBegin
    /\ \E s \in Sessions :
         /\ Usable(s)
         /\ change' = [change EXCEPT ![c] =
              [pc |-> "password", user |-> session[s].user, op |-> Null,
               row |-> user[session[s].user], keep |-> s]]
    /\ UNCHANGED <<clock, user, session, issued, login, request, since>>

\* ... and the new one is written only over that hash.
HashUnchanged(c) ==
    Exists(change[c].user) /\ user[change[c].user].gen = change[c].row.gen

OwnPassword(c) ==
    /\ change[c].pc = "password"
    /\ change' = [change EXCEPT ![c] = IdleChange]
    /\ IF HashUnchanged(c)
       THEN SetPassword(change[c].user, change[c].keep)
       ELSE UNCHANGED <<user, session, since>>
    /\ UNCHANGED <<clock, issued, login, request>>

\* reset_password of an administrator, for another user or for himself.
ResetPassword(u) ==
    /\ Exists(u)
    /\ \E keep \in {0} \cup {s \in Sessions : Usable(s) /\ session[s].user = u} :
         SetPassword(u, keep)
    /\ UNCHANGED <<clock, issued, login, request, change>>

\* unlock: the row is read ...
BeginUnlock(c) ==
    /\ change[c].pc = "idle" /\ MayBegin
    /\ \E u \in Users :
         /\ Exists(u)
         /\ change' = [change EXCEPT ![c] =
              [IdleChange EXCEPT !.pc = "unlock", !.user = u, !.row = user[u]]]
    /\ UNCHANGED <<clock, user, session, issued, login, request, since>>

\* ... and the columns that were not already clear when read are cleared.
EndUnlock(c) ==
    LET u    == change[c].user
        read == change[c].row
    IN  /\ change[c].pc = "unlock"
        /\ change' = [change EXCEPT ![c] = IdleChange]
        /\ IF Exists(u)
           THEN /\ user' = [user EXCEPT ![u].failed = IF read.failed = 0 THEN @ ELSE 0,
                                        ![u].locked = IF read.locked = 0 THEN @ ELSE 0]
                /\ since' = [since EXCEPT ![u] = IF read.failed = 0 THEN @ ELSE 0]
           ELSE UNCHANGED <<user, since>>
        /\ UNCHANGED <<clock, session, issued, login, request>>

\* The unlock command of the CLI also activates the user.  Clearing a lock
\* writes the row before the sessions are deleted, which makes all one step.
Activated(u) ==
    /\ user' = [user EXCEPT ![u].failed = 0, ![u].locked = 0, ![u].active = TRUE]
    /\ since' = [since EXCEPT ![u] = 0]

CliUnlock(u) ==
    /\ Exists(u) /\ ~user[u].active
    /\ OneWriter \/ user[u].failed > 0 \/ user[u].locked > 0
    /\ Activated(u)
    /\ session' = MarkRevoked(Revoked(u, 0), u)
    /\ UNCHANGED <<clock, issued, login, request, change>>

\* Otherwise the row is written at the commit only, after the deletion.
CliRevoke(c) ==
    /\ change[c].pc = "idle" /\ MayBegin
    /\ ~OneWriter
    /\ \E u \in Users :
         /\ Exists(u) /\ ~user[u].active /\ user[u].failed = 0 /\ user[u].locked = 0
         /\ session' = Revoked(u, 0)
         /\ change' = [change EXCEPT ![c] =
              [IdleChange EXCEPT !.pc = "activate", !.user = u]]
    /\ UNCHANGED <<clock, user, issued, login, request, since>>

CliActivate(c) ==
    LET u == change[c].user IN
    /\ change[c].pc = "activate"
    /\ change' = [change EXCEPT ![c] = IdleChange]
    /\ IF Exists(u)
       THEN /\ user' = [user EXCEPT ![u].active = TRUE]
            /\ session' = MarkRevoked(session, u)
       ELSE UNCHANGED <<user, session>>
    /\ UNCHANGED <<clock, issued, login, request, since>>

RevokeSessions(u) ==
    /\ Exists(u)
    /\ \E keep \in {0} \cup {s \in Sessions : Usable(s) /\ session[s].user = u} :
         session' = Revoked(u, keep)
    /\ UNCHANGED <<clock, user, issued, login, request, change, since>>

-----------------------------------------------------------------------------
(* Changes under admin_change_guard: update_user, delete_user and set-role. *)

IsAdmin(u) == Exists(u) /\ user[u].role = "admin" /\ user[u].active

\* ensure_not_last_admin, with local logins and no directory.
LastAdmin(u) == IsAdmin(u) /\ \A v \in Users \ {u} : ~IsAdmin(v)

(* Mutant: the guard is released between the count and the write.           *)
GuardFree_Always(c) == TRUE
GuardFree(c) == OneGuard => \A d \in Changers : change[d].pc # "write"

\* Which changes say something new of the row, and which endanger the admins.
Applies(u, op) ==
    CASE op = "promote" -> user[u].role # "admin"
      [] op = "demote"  -> user[u].role = "admin" /\ "viewer" \in Roles
      [] op = "enable"  -> ~user[u].active
      [] op = "disable" -> user[u].active
      [] op = "delete"  -> TRUE
Endangers(op) == op \in {"demote", "disable", "delete"}

\* The row and the count of administrators are read ...
CountAdmins(c) ==
    /\ change[c].pc = "idle" /\ MayBegin
    /\ GuardFree(c)
    /\ \E u \in Users, op \in {"promote", "demote", "enable", "disable", "delete"} :
         /\ Exists(u) /\ Applies(u, op)
         /\ Endangers(op) => ~LastAdmin(u)
         /\ change' = [change EXCEPT ![c] =
              [IdleChange EXCEPT !.pc = "write", !.user = u, !.op = op]]
    /\ UNCHANGED <<clock, user, session, issued, login, request, since>>

\* ... and the change is written, with all sessions of the user revoked.
(* Mutant: activating a user leaves the sessions as they are.               *)
RevokedBy_ExceptEnable(op, u) == IF op = "enable" THEN session ELSE Revoked(u, 0)
RevokedBy(op, u) == Revoked(u, 0)

WriteChange(c) ==
    LET u  == change[c].user
        op == change[c].op
    IN  /\ change[c].pc = "write"
        /\ change' = [change EXCEPT ![c] = IdleChange]
        /\ IF ~Exists(u) THEN UNCHANGED <<user, session>>
           ELSE /\ user' = [user EXCEPT ![u] =
                     CASE op = "delete"  -> Null
                       [] op = "promote" -> [@ EXCEPT !.role = "admin"]
                       [] op = "demote"  -> [@ EXCEPT !.role = "viewer"]
                       [] OTHER          -> [@ EXCEPT !.active = (op = "enable")]]
                /\ session' = MarkRevoked(RevokedBy(op, u), u)
        /\ UNCHANGED <<clock, issued, login, request, since>>

Tick ==
    /\ clock < MaxTime
    /\ clock' = clock + 1
    /\ UNCHANGED <<user, session, issued, login, request, change, since>>

LoginStep(l) == ReadUser(l) \/ Verify(l) \/ Recheck(l) \/ Enter(l)

RequestStep(r) ==
    \/ ReadSession(r) \/ DeleteExpired(r) \/ ReadAgain(r)
    \/ ResolveUser(r) \/ Touch(r)

ChangeStep(c) ==
    \/ BeginOwnPassword(c) \/ OwnPassword(c)
    \/ BeginUnlock(c) \/ EndUnlock(c)
    \/ CliRevoke(c) \/ CliActivate(c)
    \/ CountAdmins(c) \/ WriteChange(c)

Next ==
    \/ \E l \in Logins : LoginStep(l)
    \/ \E r \in Requests : RequestStep(r)
    \/ \E c \in Changers : ChangeStep(c)
    \/ \E s \in Sessions : Logout(s)
    \/ \E u \in Users :
          ResetPassword(u) \/ CliUnlock(u) \/ RevokeSessions(u)
    \/ PurgeExpiredSessions
    \/ Tick

Spec == Init /\ [][Next]_vars

-----------------------------------------------------------------------------
(* Properties.                                                              *)

Times == 0 .. MaxTime + Lockout + AbsoluteTimeout
UserRows == [role : {"admin", "viewer"}, active : BOOLEAN, gen : 1 .. MaxGen,
             failed : 0 .. MaxFailed - 1, locked : Times]
SessionRows == [user : Users, marker : 1 .. MaxGen, seen : Times, expires : Times,
                via : 1 .. MaxGen, revoked : BOOLEAN]

(* NULL is no row of either table.                                          *)
ASSUME NullAssumption == Null \notin UserRows /\ Null \notin SessionRows

\* What a login, a request and a change keep across their awaits.
LoginStates == [pc : {"idle", "verify", "recheck", "enter"}, user : Users \cup {Null},
                row : UserRows \cup {Null}, typed : 0 .. MaxGen, now : Times]
RequestStates == [pc : {"idle", "expired", "reread", "user", "touch"},
                  id : 0 .. MaxSessions, row : SessionRows \cup {Null},
                  now : Times, touch : BOOLEAN]
ChangeStates == [pc : {"idle", "password", "unlock", "activate", "write"},
                 user : Users \cup {Null},
                 op : {"promote", "demote", "enable", "disable", "delete", Null},
                 row : UserRows \cup {Null}, keep : 0 .. MaxSessions]

(* The types of users, sessions and the processes that work on them.        *)
TypeOK ==
    /\ clock \in 1 .. MaxTime
    /\ user \in [Users -> UserRows \cup {Null}]
    /\ session \in [Sessions -> SessionRows \cup {Null}]
    /\ issued \in 0 .. MaxSessions
    /\ login \in [Logins -> LoginStates]
    /\ request \in [Requests -> RequestStates]
    /\ change \in [Changers -> ChangeStates]
    /\ since \in [Users -> Nat]

(* A session that is accepted was opened, or re-tagged, with the present     *)
(* password of its user: no login that was under way while the password      *)
(* changed is of use to whoever knew the old one (credential_marker).        *)
OnlyPresentPassword ==
    \A s \in Sessions : Usable(s) => session[s].via = user[session[s].user].gen

(* No session outlives a change of its user's role, password or activation:  *)
(* what a login under way opens for a disabled user is not usable once the   *)
(* user is active again (revoke_all_for_user in update_user, _set_role and   *)
(* the unlock command).                                                      *)
NoneRevived == \A s \in Sessions : Usable(s) => ~session[s].revoked

(* A request never removes a session that could still be used: one that is   *)
(* late with what it has read leaves alone what others have renewed          *)
(* (_delete_if_still_expired).  The one exception is a request that read the *)
(* session before a change of the password re-tagged it (resolve_session     *)
(* compares the marker it read and then deletes by id).                      *)
UseNeverCutOff ==
    [][\A s \in Sessions, r \in Requests :
          Usable(s) /\ session'[s] = Null /\ request'[r] # request[r]
              => request[r].row.marker # session[s].marker]_<<session, request>>


(* The time of last use never moves back, in whatever order the requests of  *)
(* one session write it (_touch).                                            *)
SeenNeverBack ==
    [][\A s \in Sessions :
          session[s] # Null /\ session'[s] # Null
              => session'[s].seen >= session[s].seen]_session

(* Failed checks lock a user at the limit, however many logins fail at once: *)
(* none of their counts is lost (_record_failure).                           *)
FailuresLock == \A u \in Users : since[u] < MaxFailed

(* No login opens a session of a user that is locked by then, also not one   *)
(* whose password was verified before the lock (_record_success).            *)
LockedNeverEnters ==
    [][\A s \in Sessions :
          session[s] = Null /\ session'[s] # Null
              => user[session'[s].user].locked <= clock]_session

(* There is always an active administrator, whatever changes overlap         *)
(* (admin_change_guard, ensure_not_last_admin).                              *)
AdminRemains == \E u \in Users : IsAdmin(u)
=============================================================================
