----------------------------- MODULE BrowserTabs -----------------------------
(***************************************************************************)
(* One browser tab of the application (AuthGate, the API layer) against    *)
(* the sessions of the server.  All tabs of the browser share the cookie:  *)
(* another tab may log in or out at any time, and answers arrive in any    *)
(* order.  A request carries the cookie of the moment it is sent and the   *)
(* principal the tab shows; the server refuses it when the two differ.     *)
(*                                                                         *)
(* A session stands for its marker too (user and session, principal_id):   *)
(* no two sessions have the same one.                                      *)
(***************************************************************************)
EXTENDS Naturals, FiniteSets

CONSTANTS
    Slots,        \* bound: requests under way at once
    MaxOpened   \* bound: sessions ever opened

ASSUME BrowserTabsAssumption == IsFiniteSet(Slots) /\ MaxOpened \in Nat

VARIABLES
    cookie,       \* the session of the browser's cookie, 0: none
    valid,        \* sessions the server accepts
    opened,       \* sessions ever opened
    tab,          \* the state of AuthGate and its refs
    flights,      \* requests under way, by slot
    shownData,    \* principals whose data the screen has been given
    wronged,      \* ghost: the server has changed its state as a principal the tab did not show
    told,         \* ghost: the last answer to name a session named the cookie's, since it was set
    excused       \* ghost: a check has failed or was overtaken since then

tabVars == <<cookie, valid, opened, tab, flights, shownData, wronged, told, excused>>

NoFlight == [kind |-> "none"]
SentWith(session, kind, expected) ==
    [kind |-> kind, session |-> session, expected |-> expected,
     fresh |-> TRUE, current |-> TRUE, status |-> "none", principal |-> 0]
Sent(kind, expected) == SentWith(cookie, kind, expected)

TabsInit ==
    /\ opened = 1
    /\ cookie \in {0, 1} /\ valid \in SUBSET {1}
    /\ tab = [screen |-> "closed", shown |-> 0, checking |-> FALSE, reconciling |-> FALSE,
              pending |-> FALSE, latest |-> 0]
    /\ flights = [c \in Slots |-> NoFlight]
    /\ shownData = {}
    /\ wronged = FALSE
    /\ told = FALSE /\ excused = FALSE

Free(c) == flights[c].kind = "none"
In == tab.screen = "in"

-----------------------------------------------------------------------------
(* The server.                                                              *)

\* refuse_if_principal_switched, on the session the cookie resolves to.
Switched(m) == m.expected # 0 /\ m.expected # m.session

Answer(m, status, principal) == [m EXCEPT !.status = status, !.principal = principal]

\* get_current_principal: 401, 409 with the principal, or the route runs.
ServeApi(c) ==
    LET m == flights[c]
    IN /\ m.kind = "data" /\ m.status = "none"
       /\ flights' = [flights EXCEPT ![c] =
             IF m.session \notin valid THEN Answer(m, "401", 0)
             ELSE IF Switched(m) THEN Answer(m, "409", m.session)
             ELSE Answer(m, "200", m.session)]
       /\ wronged' = (wronged \/ (flights'[c].status = "200" /\ m.session # m.expected))
       /\ UNCHANGED <<cookie, valid, opened, tab, shownData, told, excused>>

\* get_me and get_realms: neither is told what the tab shows.
ServeMe(c) ==
    LET m == flights[c]
    IN /\ m.kind \in {"load", "check", "reconcile", "confirm", "confirm again", "realms"}
       /\ m.status = "none"
       /\ flights' = [flights EXCEPT ![c] =
             IF m.session \in valid \/ m.kind = "realms" THEN Answer(m, "200", m.session)
             ELSE Answer(m, "401", 0)]
       /\ UNCHANGED <<cookie, valid, opened, tab, shownData, wronged, told, excused>>

\* logout succeeds without a session, and spares one the tab does not show.
ServeLogout(c) ==
    LET m == flights[c]
        refused == m.session \in valid /\ Switched(m)
    IN /\ m.kind \in {"logout", "other logout"} /\ m.status = "none"
       /\ flights' = [flights EXCEPT ![c] =
             Answer(m, IF refused THEN "409" ELSE "204", IF m.session \in valid THEN m.session ELSE 0)]
       /\ valid' = IF refused THEN valid ELSE valid \ {m.session}
       /\ wronged' = (wronged \/ (valid' # valid /\ m.session # m.expected))
       /\ UNCHANGED <<cookie, opened, tab, shownData, told, excused>>

\* login replaces the session of the cookie it was sent with.
ServeLogin(c) ==
    LET m == flights[c]
    IN /\ m.kind \in {"login", "other login"} /\ m.status = "none"
       /\ opened < MaxOpened
       /\ opened' = opened + 1
       /\ valid' = (valid \ {m.session}) \cup {opened + 1}
       /\ flights' = [flights EXCEPT ![c] = Answer(m, "200", opened + 1)]
       /\ UNCHANGED <<cookie, tab, shownData, wronged, told, excused>>

\* A session expires or is revoked.
SessionEnds(s) ==
    /\ s \in valid /\ tab.screen # "closed"
    /\ valid' = valid \ {s}
    /\ UNCHANGED <<cookie, opened, tab, flights, shownData, wronged, told, excused>>

-----------------------------------------------------------------------------
(* AuthGate.  A change of what it shows makes the generation of checks      *)
(* under way stale, and a new operation makes earlier ones outdated.        *)

Stale(fl) == [c \in Slots |-> IF fl[c].kind = "none" THEN NoFlight
                              ELSE [fl[c] EXCEPT !.fresh = FALSE]]
Outdated(fl) == [c \in Slots |-> IF fl[c].kind = "none" THEN NoFlight
                                 ELSE [fl[c] EXCEPT !.current = FALSE]]

\* setState, after beginOperation where the code has it.
Show(screen, session, fl, t) ==
    /\ tab' = [t EXCEPT !.screen = screen, !.shown = session]
    /\ flights' = Stale(fl)
    /\ shownData' = {}

\* showLogin: the screen is taken away before the realms are asked for.
ShowLogin(c, t) ==
    Show("loading", 0, [Outdated(flights) EXCEPT ![c] = NoFlight], t)

\* The answer in c is done with, and nothing on the screen changes.
Done(c, t) ==
    /\ tab' = t
    /\ flights' = [flights EXCEPT ![c] = NoFlight]
    /\ UNCHANGED shownData

\* Its place is taken by a request that follows from it, with the cookie as the
\* answer has left it.
Follow(c, kind, t) ==
    /\ tab' = t
    /\ flights' = [flights EXCEPT ![c] = SentWith(cookie', kind, 0)]
    /\ UNCHANGED shownData

\* applySession.
ApplySession(c, s, t) ==
    IF In /\ tab.shown # s
    THEN Show("in", s, [Outdated(flights) EXCEPT ![c] = NoFlight], t)
    ELSE Done(c, t)

\* onUnauthorized: one confirmation at a time.
Unauthorized(c, t) ==
    IF In /\ ~ tab.checking THEN Follow(c, "confirm", [t EXCEPT !.checking = TRUE])
    ELSE Done(c, t)

(* Mutant: a difference seen while another is being checked is dropped.     *)
PrincipalSeen_Dropped(c, p) ==
    LET t == [tab EXCEPT !.latest = p]
    IN IF ~ In THEN Done(c, tab)
       ELSE IF p = tab.shown \/ tab.reconciling THEN Done(c, t)
       ELSE Follow(c, "reconcile", [t EXCEPT !.reconciling = TRUE, !.pending = FALSE])
\* onPrincipalSeen, of a tab that is logged in: a difference is checked, and
\* remembered during a check.
PrincipalSeen(c, p) ==
    LET t == [tab EXCEPT !.latest = p]
    IN IF ~ In THEN Done(c, tab)
       ELSE IF p = tab.shown THEN Done(c, t)
       ELSE IF tab.reconciling THEN Done(c, [t EXCEPT !.pending = TRUE])
       ELSE Follow(c, "reconcile", [t EXCEPT !.reconciling = TRUE, !.pending = FALSE])

\* An answer that the tab looks at may name the session of the browser, or an
\* earlier one: a late answer takes the place of a newer one.
Notice(m, seen) ==
    /\ told' = (IF seen /\ m.principal # 0 THEN m.principal = cookie ELSE told)
    /\ UNCHANGED excused

-----------------------------------------------------------------------------
(* Answers.                                                                 *)

Arrived(c, kinds) == flights[c].kind \in kinds /\ flights[c].status # "none"

\* send: an answer for a principal the tab does not show is not handed out.
ReceiveData(c) ==
    LET m == flights[c]
    IN /\ Arrived(c, {"data"})
       /\ Notice(m, In)
       /\ UNCHANGED <<cookie, valid, opened, wronged>>
       /\ \/ /\ m.status = "401"
             /\ Unauthorized(c, tab)
          \/ /\ m.status = "200" /\ In /\ m.principal = tab.shown
             /\ tab' = [tab EXCEPT !.latest = m.principal]
             /\ flights' = [flights EXCEPT ![c] = NoFlight]
             /\ shownData' = shownData \cup {m.principal}
          \/ /\ m.status # "401" /\ ~ (m.status = "200" /\ In /\ m.principal = tab.shown)
             /\ PrincipalSeen(c, m.principal)

\* A stale result is dropped.
Check(c, t) ==
    LET m == flights[c]
    IN IF ~ m.fresh \/ ~ In THEN Done(c, t)
       ELSE IF m.status = "200" THEN ApplySession(c, m.principal, t)
       ELSE Unauthorized(c, t)

\* checkSession, when the tab becomes visible or reports activity.
ReceiveCheck(c) ==
    /\ Arrived(c, {"check"})
    /\ UNCHANGED <<cookie, valid, opened, wronged, told, excused>>
    /\ Check(c, tab)

\* The loop of the reconciliation: again, when another difference was seen.
Again(t) == t.pending /\ t.screen = "in" /\ t.latest # t.shown

ReceiveReconcile(c) ==
    LET m == flights[c]
        ended == [tab EXCEPT !.reconciling = FALSE, !.pending = FALSE]
        shows == IF m.fresh /\ In /\ m.status = "200" THEN [tab EXCEPT !.shown = m.principal] ELSE tab
    IN /\ Arrived(c, {"reconcile"})
       /\ excused' = (excused \/ ~ m.fresh)
       /\ UNCHANGED <<cookie, valid, opened, wronged, told>>
       /\ \/ /\ ~ Again(shows)
             /\ Check(c, ended)
          \/ /\ Again(shows) /\ shows.shown # tab.shown
             /\ tab' = [shows EXCEPT !.pending = FALSE]
             /\ flights' = [Stale(Outdated(flights)) EXCEPT ![c] = Sent("reconcile", 0)]
             /\ shownData' = {}
          \/ /\ Again(shows) /\ shows.shown = tab.shown
             /\ \/ /\ ~ (m.fresh /\ m.status = "401" /\ ~ tab.checking)
                   /\ Follow(c, "reconcile", [tab EXCEPT !.pending = FALSE])
                \/ /\ m.fresh /\ m.status = "401" /\ ~ tab.checking
                   /\ \E d \in Slots :
                         /\ Free(d)
                         /\ flights' = [flights EXCEPT ![c] = Sent("reconcile", 0),
                                                       ![d] = Sent("confirm", 0)]
                   /\ tab' = [tab EXCEPT !.pending = FALSE, !.checking = TRUE]
                   /\ UNCHANGED shownData

\* Whether the session is really over is asked twice before the login screen.
ReceiveConfirm(c) ==
    LET m == flights[c]
        ended == [tab EXCEPT !.checking = FALSE]
    IN /\ Arrived(c, {"confirm", "confirm again"})
       /\ UNCHANGED <<cookie, valid, opened, wronged, told>>
       /\ excused' = (excused \/ ~ m.fresh)
       /\ IF m.status = "401" /\ m.fresh /\ m.kind = "confirm" THEN Follow(c, "confirm again", tab)
          ELSE IF ~ m.fresh \/ ~ In THEN Done(c, ended)
          ELSE IF m.status = "200" THEN ApplySession(c, m.principal, ended)
          ELSE ShowLogin(c, ended)

\* load and the realms of the login screen: an outdated result is dropped.
ReceiveLoad(c) ==
    LET m == flights[c]
    IN /\ Arrived(c, {"load", "realms"})
       /\ UNCHANGED <<cookie, valid, opened, wronged, told, excused>>
       /\ IF ~ m.current THEN Done(c, tab)
          ELSE IF m.kind = "realms" THEN Show("anonymous", 0, [flights EXCEPT ![c] = NoFlight], tab)
          ELSE IF m.status = "200"
               THEN Show("in", m.principal, [flights EXCEPT ![c] = NoFlight], tab)
          ELSE ShowLogin(c, tab)

\* The login screen asks for the realms.
AskRealms(c) ==
    /\ tab.screen = "loading"
    /\ ~ \E d \in Slots : flights[d].kind \in {"load", "realms"} /\ flights[d].current
    /\ Free(c)
    /\ flights' = [flights EXCEPT ![c] = Sent("realms", 0)]
    /\ UNCHANGED <<cookie, valid, opened, tab, shownData, wronged, told, excused>>

\* The browser sets or deletes the cookie as the answer arrives.
SetCookie(s) ==
    /\ cookie' = s
    /\ told' = FALSE /\ excused' = FALSE
    /\ UNCHANGED <<valid, opened, wronged>>

ReceiveLogin(c) ==
    /\ Arrived(c, {"login"})
    /\ SetCookie(flights[c].principal)
    /\ Show("in", flights[c].principal, [Outdated(flights) EXCEPT ![c] = NoFlight], tab)

ReceiveLogout(c) ==
    LET m == flights[c]
        mismatched == In /\ m.principal # 0 /\ m.principal # tab.shown
    IN /\ Arrived(c, {"logout"})
       /\ IF m.status = "204" THEN SetCookie(0)
          ELSE Notice(m, In) /\ UNCHANGED <<cookie, valid, opened, wronged>>
       /\ IF mismatched THEN PrincipalSeen(c, m.principal)
          ELSE IF m.status = "204" THEN ShowLogin(c, tab)
          ELSE Done(c, tab)

ReceiveOther(c) ==
    LET m == flights[c]
    IN /\ Arrived(c, {"other login", "other logout"})
       /\ IF m.status = "409" THEN UNCHANGED <<cookie, valid, opened, wronged, told, excused>>
          ELSE SetCookie(IF m.kind = "other login" THEN m.principal ELSE 0)
       /\ Done(c, tab)

\* A network error, before or after the server has seen the request.
Lost(c) ==
    LET m == flights[c]
    IN /\ ~ Free(c)
       /\ UNCHANGED <<cookie, valid, opened, wronged, told>>
       /\ excused' = (excused \/ m.kind \in {"reconcile", "confirm", "confirm again"})
       /\ IF m.kind \in {"load", "realms"} /\ m.current
          THEN Show("error", 0, [flights EXCEPT ![c] = NoFlight], tab)
          ELSE IF m.kind = "reconcile" /\ Again(tab)
               THEN Follow(c, "reconcile", [tab EXCEPT !.pending = FALSE])
          ELSE IF m.kind = "reconcile"
               THEN Done(c, [tab EXCEPT !.reconciling = FALSE, !.pending = FALSE])
          ELSE IF m.kind \in {"confirm", "confirm again"} THEN Done(c, [tab EXCEPT !.checking = FALSE])
          ELSE Done(c, tab)

-----------------------------------------------------------------------------
(* What users and screens start.                                            *)

Start(c, kind, expected) ==
    /\ Free(c)
    /\ flights' = [flights EXCEPT ![c] = Sent(kind, expected)]
    /\ UNCHANGED <<cookie, valid, opened, tab, shownData, wronged, told, excused>>

StartInTab(c) ==
    \/ \E kind \in {"data", "logout"} : In /\ Start(c, kind, tab.shown)
    \/ In /\ Start(c, "check", 0)
    \/ /\ tab.screen = "anonymous"
       /\ ~ \E d \in Slots : flights[d].kind = "login"
       /\ Start(c, "login", 0)

\* load, when the tab is opened and when the user retries.
Load(c) ==
    /\ tab.screen \in {"closed", "error"} /\ Free(c)
    /\ Show("loading", 0, [Outdated(flights) EXCEPT ![c] = Sent("load", 0)], tab)
    /\ UNCHANGED <<cookie, valid, opened, wronged, told, excused>>

\* Another tab: it shows a session of its own.  (What others did before this tab
\* was opened is a choice of TabsInit.)
StartElsewhere(c) ==
    /\ tab.screen # "closed"
    /\ \/ opened < MaxOpened /\ Start(c, "other login", 0)
       \/ \E s \in 1..opened : Start(c, "other logout", s)

TabsNext ==
    \/ \E s \in 1..MaxOpened : SessionEnds(s)
    \/ \E c \in Slots :
          \/ ServeApi(c) \/ ServeMe(c) \/ ServeLogout(c) \/ ServeLogin(c)
          \/ ReceiveData(c) \/ ReceiveCheck(c) \/ ReceiveReconcile(c) \/ ReceiveConfirm(c)
          \/ ReceiveLoad(c) \/ ReceiveLogin(c) \/ ReceiveLogout(c) \/ ReceiveOther(c)
          \/ AskRealms(c) \/ Lost(c) \/ StartInTab(c) \/ Load(c) \/ StartElsewhere(c)

TabsSpec == TabsInit /\ [][TabsNext]_tabVars

(***************************************************************************)
(* Properties                                                              *)
(***************************************************************************)
\* What the server changes for a tab, it changes as the principal the tab showed
\* when it sent the request, whoever has logged in elsewhere since.
ChangedAsShown == ~ wronged

\* A screen holds the data of the principal it shows and of nobody else, however
\* late an answer comes.
OnlyShownData == In => shownData \subseteq {tab.shown}

\* While the last answer that named a session named the browser's, a tab that
\* shows another one is checking, unless its check failed or another change
\* overtook it.
DifferencePursued ==
    In /\ told /\ ~ excused /\ tab.shown # cookie /\ cookie \in valid
        => tab.reconciling \/ tab.checking

\* The flags of the tab say which of its checks are under way: a flag that stayed
\* would suppress every later check.
FlagsTrue ==
    /\ tab.reconciling <=> \E c \in Slots : flights[c].kind = "reconcile"
    /\ tab.checking <=> \E c \in Slots : flights[c].kind \in {"confirm", "confirm again"}

\* Tab and server agree about the principal, or the tab is finding out.
TabsTrue == ChangedAsShown /\ OnlyShownData /\ DifferencePursued /\ FlagsTrue
===============================================================================
