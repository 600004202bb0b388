------------------------- MODULE AuthSessions_proofs -------------------------
(***************************************************************************)
(* Theorems of AuthSessions, for any number of users, logins, requests and *)
(* changers and any settings.                                              *)
(***************************************************************************)
EXTENDS AuthSessions, TLAPS

(* What a process under way has read, and when.                            *)
LoginRead(at) ==
    at.pc # "idle" =>
        /\ at.user \in Users /\ at.row \in UserRows /\ at.now \in 1 .. clock
        /\ at.pc # "verify" => at.typed = at.row.gen
LoginShape == \A l \in Logins : LoginRead(login[l])

RequestRead(at, rows, last, time) ==
    at.pc # "idle" =>
        /\ at.id \in 1 .. last /\ at.row \in SessionRows /\ at.now \in 1 .. time
        /\ rows[at.id] # Null => rows[at.id].user = at.row.user
RequestShape == \A r \in Requests : RequestRead(request[r], session, issued, clock)

ChangeRead(at) ==
    /\ at.pc # "idle" => at.user \in Users
    /\ at.pc \in {"password", "unlock"} => at.row \in UserRows
    /\ at.pc = "write" => at.op \in {"promote", "demote", "enable", "disable", "delete"}
ChangeShape == \A c \in Changers : ChangeRead(change[c])

(* Ids are handed out in order, and the marker of a session is that of the *)
(* password it was opened or re-tagged with.                               *)
SessionShape ==
    \A s \in Sessions : session[s] # Null =>
        s <= issued /\ session[s].via = session[s].marker

TypeInv == TypeOK /\ LoginShape /\ RequestShape /\ ChangeShape /\ SessionShape

(* The rows the model starts from, and what an ended process leaves.       *)
LEMMA IdleTypes ==
  /\ IdleLogin \in LoginStates /\ IdleRequest \in RequestStates /\ IdleChange \in ChangeStates
  /\ NewUser("admin") \in UserRows
  /\ IdleLogin.pc = "idle" /\ IdleRequest.pc = "idle" /\ IdleChange.pc = "idle"
BY AuthAssumption
   DEF IdleLogin, IdleRequest, IdleChange, NewUser, UserRows, Times,
       LoginStates, RequestStates, ChangeStates

LEMMA ConstantTypes ==
  /\ MaxSessions \in Nat /\ MaxBusy \in Nat
  /\ MaxGen \in Nat \ {0} /\ MaxTime \in Nat \ {0} /\ MaxFailed \in Nat \ {0}
  /\ Lockout \in Nat \ {0} /\ AbsoluteTimeout \in Nat \ {0} /\ IdleTimeout \in Nat \ {0}
  /\ 0 \in 0 .. MaxFailed - 1 /\ 0 \in Times
  /\ \A n \in 1 .. MaxTime :
        n \in Times /\ n + Lockout \in Times /\ n + AbsoluteTimeout \in Times
BY AuthAssumption DEF Times

(* The rows that the changes of a user write.                              *)
LEMMA EditTypes ==
  ASSUME NEW row \in UserRows, NEW n \in 0 .. MaxFailed - 1, NEW t \in Times, NEW b \in BOOLEAN
  PROVE  /\ [row EXCEPT !.failed = n] \in UserRows
         /\ [row EXCEPT !.failed = n, !.locked = t] \in UserRows
         /\ [row EXCEPT !.failed = n, !.locked = t, !.active = b] \in UserRows
BY DEF UserRows

LEMMA RowTypes ==
  ASSUME NEW row \in UserRows
  PROVE  /\ row.failed \in 0 .. MaxFailed - 1 /\ row.locked \in Times /\ row.gen \in 1 .. MaxGen
         /\ [row EXCEPT !.failed = 0, !.locked = 0] \in UserRows
         /\ [row EXCEPT !.failed = 0, !.locked = 0, !.active = TRUE] \in UserRows
         /\ [row EXCEPT !.active = TRUE] \in UserRows
         /\ [row EXCEPT !.active = FALSE] \in UserRows
         /\ [row EXCEPT !.role = "admin"] \in UserRows
         /\ [row EXCEPT !.role = "viewer"] \in UserRows
<1>1. /\ [row EXCEPT !.failed = 0, !.locked = 0] \in UserRows
      /\ [row EXCEPT !.failed = 0, !.locked = 0, !.active = TRUE] \in UserRows
  BY EditTypes, ConstantTypes
<1>2. row.failed \in 0 .. MaxFailed - 1 /\ row.locked \in Times /\ row.gen \in 1 .. MaxGen
  BY DEF UserRows
<1>3. /\ [row EXCEPT !.active = TRUE] \in UserRows
      /\ [row EXCEPT !.active = FALSE] \in UserRows
      /\ [row EXCEPT !.role = "admin"] \in UserRows
      /\ [row EXCEPT !.role = "viewer"] \in UserRows
  BY DEF UserRows
<1> QED
  BY <1>1, <1>2, <1>3

LEMMA GenTypes ==
  ASSUME NEW row \in UserRows, NEW gen \in 1 .. MaxGen,
         NEW n \in 0 .. MaxFailed - 1, NEW t \in Times
  PROVE  [row EXCEPT !.gen = gen, !.failed = n, !.locked = t] \in UserRows
BY DEF UserRows

LEMMA TypeInit == Init => TypeInv
<1> SUFFICES ASSUME Init PROVE TypeInv
  OBVIOUS
<1>1. TypeOK
  BY IdleTypes, AuthAssumption DEF Init, TypeOK
<1>2. LoginShape /\ RequestShape /\ ChangeShape
  BY DEF Init, LoginShape, LoginRead, RequestShape, RequestRead, ChangeShape, ChangeRead, IdleLogin, IdleRequest, IdleChange
<1>3. SessionShape
  BY DEF Init, SessionShape
<1> QED
  BY <1>1, <1>2, <1>3 DEF TypeInv

(* A change of users alone touches the types of nothing else.              *)
LEMMA TypeUsers ==
  ASSUME TypeInv, user' \in [Users -> UserRows \cup {Null}], since' \in [Users -> Nat],
         UNCHANGED <<clock, session, issued, login, request, change>>
  PROVE  TypeInv'
BY DEF TypeInv, TypeOK, LoginShape, LoginRead, RequestShape, RequestRead, ChangeShape, ChangeRead, SessionShape

(* A login that ends or goes on.                                           *)
LEMMA LoginMoves ==
  ASSUME TypeInv, NEW l \in Logins, NEW next \in LoginStates,
         login' = [login EXCEPT ![l] = next], LoginRead(next), UNCHANGED clock
  PROVE  LoginShape' /\ login' \in [Logins -> LoginStates]
BY DEF TypeInv, TypeOK, LoginShape, LoginRead

LEMMA LoginEnds ==
  ASSUME TypeInv, NEW l \in Logins, Fails(l), UNCHANGED clock
  PROVE  LoginShape' /\ login' \in [Logins -> LoginStates]
<1>1. IdleLogin \in LoginStates /\ LoginRead(IdleLogin)
  BY IdleTypes DEF LoginRead
<1> QED
  BY <1>1, LoginMoves DEF Fails

LEMMA TypeLogin ==
  ASSUME TypeInv, NEW l \in Logins, LoginStep(l)
  PROVE  TypeInv'
<1> DEFINE at == login[l]
<1>0. at \in LoginStates /\ clock \in 1 .. MaxTime
  BY DEF TypeInv, TypeOK
<1>1. CASE ReadUser(l)
  <2>1. PICK u \in Users, typed \in 0 .. MaxGen :
            /\ Exists(u)
            /\ login' = [login EXCEPT ![l] =
                   [pc |-> "verify", user |-> u, row |-> user[u], typed |-> typed, now |-> clock]]
    BY <1>1 DEF ReadUser
  <2> DEFINE next == [pc |-> "verify", user |-> u, row |-> user[u], typed |-> typed, now |-> clock]
  <2>2. user[u] \in UserRows
    BY <2>1 DEF Exists, TypeInv, TypeOK
  <2>3. next \in LoginStates
    BY <1>0, <2>2, ConstantTypes DEF LoginStates
  <2>4. LoginShape' /\ login' \in [Logins -> LoginStates]
    <3>1. LoginRead(next)
      BY <1>0, <2>2 DEF LoginRead
    <3>2. login' = [login EXCEPT ![l] = next] /\ UNCHANGED clock
      BY <1>1, <2>1 DEF ReadUser
    <3> HIDE DEF next
    <3> QED
      BY <2>3, <3>1, <3>2, LoginMoves
  <2> QED
    BY <1>1, <2>4 DEF ReadUser, TypeInv, TypeOK, RequestShape, RequestRead, ChangeShape, ChangeRead, SessionShape
<1>2. CASE Verify(l)
  <2>1. at.user \in Users /\ at.row \in UserRows /\ at.now \in 1 .. clock
    BY <1>2 DEF Verify, TypeInv, LoginShape, LoginRead
  <2>2. ASSUME Exists(at.user)
        PROVE  FailureRecorded(l) \in UserRows
    <3>1. user[at.user] \in UserRows
      BY <2>1, <2>2 DEF Exists, TypeInv, TypeOK
    <3>2. Counted(l) \in Nat
      <4>1. user[at.user].failed \in 0 .. MaxFailed - 1
        BY <3>1, RowTypes
      <4> QED
        BY SMTT(30), <4>1, ConstantTypes DEF Counted
    <3>3. at.now + Lockout \in Times
      BY <1>0, <2>1, ConstantTypes
    <3>4. Counted(l) < MaxFailed => Counted(l) \in 0 .. MaxFailed - 1
      BY <3>2, ConstantTypes
    <3> QED
      BY <3>1, <3>2, <3>3, <3>4, EditTypes, ConstantTypes DEF FailureRecorded
  <2>3. [at EXCEPT !.pc = "recheck"] \in LoginStates
    BY <1>0 DEF LoginStates
  <2>4. user' \in [Users -> UserRows \cup {Null}] /\ since' \in [Users -> Nat]
    BY <1>2, <2>2 DEF Verify, TypeInv, TypeOK
  <2>5. LoginShape' /\ login' \in [Logins -> LoginStates]
    <3>1. CASE at.typed = at.row.gen /\ at.row.active
      <4> DEFINE next == [at EXCEPT !.pc = "recheck"]
      <4>1. login' = [login EXCEPT ![l] = next] /\ UNCHANGED clock
        BY <1>2, <3>1 DEF Verify, TypeInv, TypeOK
      <4>2. LoginRead(next)
        BY <1>0, <2>1, <3>1 DEF LoginRead, LoginStates
      <4> HIDE DEF next
      <4> QED
        BY <2>3, <4>1, <4>2, LoginMoves DEF next
    <3>2. CASE ~(at.typed = at.row.gen /\ at.row.active)
      BY <1>2, <3>2, LoginEnds DEF Verify
    <3> QED
      BY <3>1, <3>2
  <2> QED
    BY <1>2, <2>4, <2>5 DEF Verify, TypeInv, TypeOK, RequestShape, RequestRead, ChangeShape, ChangeRead, SessionShape
<1>3. CASE Recheck(l)
  <2> DEFINE next == [at EXCEPT !.pc = "enter"]
  <2>1. at.user \in Users /\ at.row \in UserRows /\ at.now \in 1 .. clock /\ at.typed = at.row.gen
    BY <1>3 DEF Recheck, TypeInv, LoginShape, LoginRead
  <2>2. next \in LoginStates /\ LoginRead(next)
    BY <1>0, <2>1 DEF LoginStates, LoginRead
  <2>3. login' = [login EXCEPT ![l] = next] \/ Fails(l)
    BY <1>3 DEF Recheck
  <2> HIDE DEF next
  <2>4. LoginShape' /\ login' \in [Logins -> LoginStates]
    BY <1>3, <2>2, <2>3, LoginMoves, LoginEnds DEF Recheck
  <2> QED
    BY <1>3, <2>4 DEF Recheck, TypeInv, TypeOK, RequestShape, RequestRead, ChangeShape, ChangeRead, SessionShape
<1>4. CASE Enter(l)
  <2>0. LoginShape' /\ login' \in [Logins -> LoginStates]
    BY <1>4, LoginEnds DEF Enter
  <2>1. CASE ~MayEnter(l)
    BY <1>4, <2>0, <2>1 DEF Enter, TypeInv, TypeOK, RequestShape, RequestRead, ChangeShape, ChangeRead, SessionShape
  <2>2. CASE MayEnter(l)
    <3> DEFINE u == at.user
               new == [user |-> u, marker |-> at.row.gen, seen |-> clock,
                       expires |-> clock + AbsoluteTimeout,
                       via |-> at.typed, revoked |-> FALSE]
    <3>0. u \in Users /\ user[u] \in UserRows
      BY <1>4, <2>2 DEF Enter, MayEnter, Exists, TypeInv, TypeOK, LoginShape, LoginRead
    <3>1. new \in SessionRows /\ new.via = new.marker
      BY <1>0, <1>4, ConstantTypes DEF Enter, TypeInv, LoginShape, LoginRead, SessionRows, UserRows
    <3>2. PICK old \in 0 .. issued :
              session' = [s \in Sessions |->
                  IF s = issued + 1 THEN new ELSE IF s = old THEN Null ELSE session[s]]
      BY <1>4, <2>2 DEF Enter
    <3>3. /\ issued' = issued + 1 /\ issued' \in 0 .. MaxSessions
          /\ user' = [user EXCEPT ![u].failed = 0, ![u].locked = 0]
          /\ since' = [since EXCEPT ![u] = 0]
          /\ UNCHANGED <<clock, request, change>>
      BY SMTT(30), <1>4, <2>2, ConstantTypes DEF Enter, TypeInv, TypeOK
    <3> HIDE DEF new
    <3>4. [user[u] EXCEPT !.failed = 0, !.locked = 0] \in UserRows
      BY <3>0, RowTypes
    <3>5. user' \in [Users -> UserRows \cup {Null}] /\ since' \in [Users -> Nat]
      BY <3>0, <3>3, <3>4 DEF TypeInv, TypeOK
    <3>6. session' \in [Sessions -> SessionRows \cup {Null}]
      BY <3>1, <3>2 DEF TypeInv, TypeOK
    <3>7. SessionShape'
      BY <3>1, <3>2, <3>3 DEF SessionShape, Sessions, TypeInv, TypeOK
    <3>9. RequestShape'
      <4> SUFFICES ASSUME NEW r \in Requests, request[r].pc # "idle"
                   PROVE  RequestRead(request[r], session', issued', clock')
        BY <3>3 DEF RequestShape, RequestRead
      <4>1. RequestRead(request[r], session, issued, clock) /\ issued \in 0 .. MaxSessions
        BY DEF TypeInv, TypeOK, RequestShape
      <4>2. request[r].id \in Sessions /\ request[r].id # issued + 1
        BY <4>1, ConstantTypes DEF Sessions, RequestRead
      <4>3. session'[request[r].id] \in {Null, session[request[r].id]}
        BY <3>2, <4>2
      <4> QED
        BY <3>3, <4>1, <4>3 DEF RequestRead
    <3>8. ChangeShape'
      BY <3>3 DEF ChangeShape, ChangeRead, TypeInv
    <3> QED
      BY <2>0, <3>3, <3>5, <3>6, <3>7, <3>8, <3>9 DEF TypeInv, TypeOK
  <2> QED
    BY <2>1, <2>2
<1> QED
  BY <1>1, <1>2, <1>3, <1>4 DEF LoginStep

(* A request that ends or goes on, while at most its own session changes,  *)
(* in ways that keep the session's user.                                   *)
LEMMA RequestMoves ==
  ASSUME TypeInv, NEW r \in Requests, NEW next \in RequestStates,
         request' = [request EXCEPT ![r] = next], RequestRead(next, session', issued', clock'),
         session' \in [Sessions -> SessionRows \cup {Null}],
         \A s \in Sessions : session'[s] # Null =>
             /\ session[s] # Null /\ session'[s].user = session[s].user
             /\ session'[s].via = session[s].via /\ session'[s].marker = session[s].marker,
         UNCHANGED <<clock, user, issued, login, change, since>>
  PROVE  TypeInv'
<1>1. TypeOK'
  BY DEF TypeInv, TypeOK
<1>2. LoginShape' /\ ChangeShape'
  BY DEF TypeInv, LoginShape, LoginRead, ChangeShape, ChangeRead
<1>3. SessionShape'
  BY DEF TypeInv, SessionShape
<1>4. RequestShape'
  <2> SUFFICES ASSUME NEW q \in Requests PROVE RequestRead(request'[q], session', issued', clock')
    BY DEF RequestShape
  <2>1. CASE q = r
    BY <2>1 DEF TypeInv, TypeOK
  <2>2. CASE q # r
    <3>1. request'[q] = request[q] /\ RequestRead(request[q], session, issued, clock) /\ issued \in 0 .. MaxSessions
      BY <2>2 DEF TypeInv, TypeOK, RequestShape
    <3>2. request[q].pc # "idle" => request[q].id \in Sessions
      BY <3>1, ConstantTypes DEF RequestRead, Sessions
    <3> QED
      BY <3>1, <3>2 DEF RequestRead
  <2> QED
    BY <2>1, <2>2
<1> QED
  BY <1>1, <1>2, <1>3, <1>4 DEF TypeInv

LEMMA TypeRequest ==
  ASSUME TypeInv, NEW r \in Requests, RequestStep(r)
  PROVE  TypeInv'
<1> DEFINE at == request[r]
<1>1. at \in RequestStates /\ clock \in 1 .. MaxTime /\ issued \in 0 .. MaxSessions
      /\ session \in [Sessions -> SessionRows \cup {Null}] /\ request \in [Requests -> RequestStates]
  BY DEF TypeInv, TypeOK
<1>2. at.pc # "idle" => RequestRead(at, session, issued, clock) /\ at.id \in Sessions
  <2>1. RequestRead(at, session, issued, clock)
    BY DEF TypeInv, RequestShape
  <2> QED
    BY <1>1, <2>1, ConstantTypes DEF RequestRead, Sessions
<1>3. IdleRequest \in RequestStates /\ RequestRead(IdleRequest, session', issued', clock')
  BY IdleTypes DEF RequestRead
<1>4. CASE ReadSession(r)
  <2>1. PICK s \in 1 .. issued, touch \in BOOLEAN :
            /\ session[s] # Null
            /\ request' = [request EXCEPT ![r] =
                   [pc |-> IF Expired(session[s], clock) THEN "expired" ELSE "user",
                    id |-> s, row |-> session[s], now |-> clock, touch |-> touch]]
    BY <1>4 DEF ReadSession
  <2> DEFINE next == [pc |-> IF Expired(session[s], clock) THEN "expired" ELSE "user",
                      id |-> s, row |-> session[s], now |-> clock, touch |-> touch]
  <2>2. s \in Sessions /\ s \in 0 .. MaxSessions
    BY <1>1, ConstantTypes DEF Sessions
  <2>3. session[s] \in SessionRows
    BY <1>1, <2>1, <2>2
  <2>4. next \in RequestStates
    BY <1>1, <2>2, <2>3, ConstantTypes DEF RequestStates
  <2>5. UNCHANGED <<clock, user, session, issued, login, change, since>>
    BY <1>4 DEF ReadSession
  <2>6. RequestRead(next, session', issued', clock')
    BY <1>1, <2>3, <2>5 DEF RequestRead
  <2> HIDE DEF next
  <2> QED
    BY <1>1, <2>1, <2>4, <2>5, <2>6, RequestMoves DEF next
<1>5. CASE DeleteExpired(r)
  <2> DEFINE next == [at EXCEPT !.pc = "reread"]
  <2>1. next \in RequestStates
    BY <1>1 DEF RequestStates
  <2>2. at.pc = "expired" /\ UNCHANGED <<clock, user, issued, login, change, since>>
    BY <1>5 DEF DeleteExpired
  <2>3. session' \in [Sessions -> SessionRows \cup {Null}]
        /\ \A s \in Sessions : session'[s] # Null => session'[s] = session[s]
    BY <1>1, <1>2, <1>5, <2>2 DEF DeleteExpired
  <2>4. RequestRead(next, session', issued', clock')
    BY <1>1, <1>2, <2>2, <2>3 DEF RequestRead, RequestStates
  <2>5. request' = [request EXCEPT ![r] = next] \/ Answers(r)
    BY <1>5 DEF DeleteExpired
  <2> HIDE DEF next
  <2> QED
    BY <1>3, <2>1, <2>2, <2>3, <2>4, <2>5, RequestMoves DEF Answers
<1>6. CASE ReadAgain(r)
  <2> DEFINE next == [at EXCEPT !.pc = "user", !.row = session[at.id]]
  <2>1. at.pc = "reread" /\ UNCHANGED <<clock, user, session, issued, login, change, since>>
    BY <1>6 DEF ReadAgain
  <2>2. CASE session[at.id] = Null
    BY <1>1, <1>3, <1>6, <2>1, <2>2, RequestMoves DEF ReadAgain, Answers
  <2>3. CASE session[at.id] # Null
    <3>1. next \in RequestStates
      BY <1>1, <1>2, <2>1, <2>3 DEF RequestStates
    <3>2. RequestRead(next, session', issued', clock')
      BY <1>1, <1>2, <2>1, <2>3 DEF RequestRead, RequestStates
    <3>3. request' = [request EXCEPT ![r] = next]
      BY <1>6, <2>3 DEF ReadAgain
    <3> HIDE DEF next
    <3> QED
      BY <1>1, <2>1, <3>1, <3>2, <3>3, RequestMoves
  <2> QED
    BY <2>2, <2>3
<1>7. CASE ResolveUser(r)
  <2> DEFINE next == [at EXCEPT !.pc = "touch"]
  <2>1. next \in RequestStates
    BY <1>1 DEF RequestStates
  <2>2. at.pc = "user" /\ UNCHANGED <<clock, user, issued, login, change, since>>
    BY <1>7 DEF ResolveUser
  <2>3. session' \in [Sessions -> SessionRows \cup {Null}]
        /\ \A s \in Sessions : session'[s] # Null => session'[s] = session[s]
    BY <1>1, <1>2, <1>7, <2>2 DEF ResolveUser
  <2>4. RequestRead(next, session', issued', clock')
    BY <1>1, <1>2, <2>2, <2>3 DEF RequestRead, RequestStates
  <2>5. request' = [request EXCEPT ![r] = next] \/ Answers(r)
    BY <1>7 DEF ResolveUser
  <2> HIDE DEF next
  <2> QED
    BY <1>3, <2>1, <2>2, <2>3, <2>4, <2>5, RequestMoves DEF Answers
<1>8. CASE Touch(r)
  <2>1. at.pc = "touch" /\ UNCHANGED <<clock, user, issued, login, change, since>> /\ Answers(r)
    BY <1>8 DEF Touch
  <2>2. ASSUME session[at.id] # Null
        PROVE  LET row == Touched(session[at.id], at.now) IN
               /\ row \in SessionRows /\ row.user = session[at.id].user
               /\ row.via = session[at.id].via /\ row.marker = session[at.id].marker
    <3>1. session[at.id] \in SessionRows /\ at.now \in Times
      BY <1>1, <1>2, <2>1, <2>2, ConstantTypes DEF RequestRead
    <3> QED
      BY <3>1 DEF Touched, SessionRows
  <2>3. session' = IF session[at.id] = Null THEN session
                   ELSE [session EXCEPT ![at.id] = Touched(session[at.id], at.now)]
    BY <1>8 DEF Touch
  <2>4. /\ session' \in [Sessions -> SessionRows \cup {Null}]
        /\ \A s \in Sessions : session'[s] # Null =>
             /\ session[s] # Null /\ session'[s].user = session[s].user
             /\ session'[s].via = session[s].via /\ session'[s].marker = session[s].marker
    BY <1>1, <1>2, <2>1, <2>2, <2>3
  <2> QED
    BY <1>3, <2>1, <2>4, RequestMoves DEF Answers
<1> QED
  BY <1>4, <1>5, <1>6, <1>7, <1>8 DEF RequestStep

-----------------------------------------------------------------------------
(* Changes of users revoke or re-tag sessions and create none.             *)
Tamed(rows) ==
    /\ rows \in [Sessions -> SessionRows \cup {Null}]
    /\ \A s \in Sessions : rows[s] # Null =>
          /\ session[s] # Null /\ rows[s].user = session[s].user
          /\ rows[s].via = rows[s].marker

LEMMA RevokingTames ==
  ASSUME TypeInv, NEW u \in Users, NEW keep
  PROVE  /\ Tamed(session) /\ Tamed(Revoked(u, keep))
         /\ Tamed(MarkRevoked(session, u)) /\ Tamed(MarkRevoked(Revoked(u, keep), u))
<1>1. Tamed(session)
  BY DEF Tamed, TypeInv, TypeOK, SessionShape
<1>2. Tamed(Revoked(u, keep))
  BY <1>1 DEF Tamed, Revoked
<1>3. ASSUME NEW rows, Tamed(rows)
      PROVE  Tamed(MarkRevoked(rows, u))
  <2>1. ASSUME NEW row \in SessionRows
        PROVE  LET new == [row EXCEPT !.revoked = TRUE] IN
               /\ new \in SessionRows /\ new.user = row.user
               /\ new.via = row.via /\ new.marker = row.marker
    BY DEF SessionRows
  <2> QED
    BY <1>3, <2>1 DEF Tamed, MarkRevoked
<1> QED
  BY <1>1, <1>2, <1>3

LEMMA TypeChange ==
  ASSUME TypeInv,
         change' \in [Changers -> ChangeStates], \A c \in Changers : ChangeRead(change'[c]),
         user' \in [Users -> UserRows \cup {Null}], since' \in [Users -> Nat],
         Tamed(session'), UNCHANGED <<clock, issued, login, request>>
  PROVE  TypeInv'
<1>1. TypeOK'
  BY DEF TypeInv, TypeOK, Tamed
<1>2. LoginShape' /\ ChangeShape'
  BY DEF TypeInv, LoginShape, LoginRead, ChangeShape
<1>3. SessionShape'
  BY DEF TypeInv, SessionShape, Tamed
<1>4. RequestShape'
  <2> SUFFICES ASSUME NEW q \in Requests PROVE RequestRead(request[q], session', issued, clock)
    BY DEF RequestShape
  <2>1. RequestRead(request[q], session, issued, clock) /\ issued \in 0 .. MaxSessions
    BY DEF TypeInv, TypeOK, RequestShape
  <2>2. request[q].pc # "idle" => request[q].id \in Sessions
    BY <2>1, ConstantTypes DEF RequestRead, Sessions
  <2> QED
    BY <2>1, <2>2 DEF RequestRead, Tamed
<1> QED
  BY <1>1, <1>2, <1>3, <1>4 DEF TypeInv

LEMMA ChangeMoves ==
  ASSUME TypeInv, NEW c \in Changers, NEW next \in ChangeStates, ChangeRead(next),
         change' = [change EXCEPT ![c] = next]
  PROVE  change' \in [Changers -> ChangeStates] /\ \A d \in Changers : ChangeRead(change'[d])
BY DEF TypeInv, TypeOK, ChangeShape

LEMMA ChangeEnds ==
  ASSUME TypeInv, NEW c \in Changers, change' = [change EXCEPT ![c] = IdleChange]
  PROVE  change' \in [Changers -> ChangeStates] /\ \A d \in Changers : ChangeRead(change'[d])
<1>1. IdleChange \in ChangeStates /\ ChangeRead(IdleChange)
  BY IdleTypes DEF ChangeRead
<1> QED
  BY <1>1, ChangeMoves

LEMMA ChangeStays ==
  ASSUME TypeInv, UNCHANGED change
  PROVE  change' \in [Changers -> ChangeStates] /\ \A d \in Changers : ChangeRead(change'[d])
BY DEF TypeInv, TypeOK, ChangeShape

LEMMA PasswordSet ==
  ASSUME TypeInv, NEW u \in Users, Exists(u), NEW keep, SetPassword(u, keep)
  PROVE  /\ user' \in [Users -> UserRows \cup {Null}] /\ since' \in [Users -> Nat]
         /\ Tamed(session')
<1> DEFINE gen == user[u].gen + 1
<1>1. user[u] \in UserRows
  BY DEF Exists, TypeInv, TypeOK
<1>2. gen \in 1 .. MaxGen
  <2>1. user[u].gen \in 1 .. MaxGen
    BY <1>1, RowTypes
  <2>2. gen <= MaxGen
    BY DEF SetPassword
  <2> QED
    BY <2>1, <2>2, ConstantTypes
<1>3. /\ user' = [user EXCEPT ![u].gen = gen, ![u].failed = 0, ![u].locked = 0]
      /\ since' = [since EXCEPT ![u] = 0]
      /\ session' = [s \in Sessions |->
            IF s = keep /\ session[s] # Null /\ session[s].user = u
            THEN [session[s] EXCEPT !.marker = gen, !.via = gen]
            ELSE MarkRevoked(Revoked(u, keep), u)[s]]
  BY DEF SetPassword
<1> HIDE DEF gen
<1>4. [user[u] EXCEPT !.gen = gen, !.failed = 0, !.locked = 0] \in UserRows
  BY <1>1, <1>2, GenTypes, ConstantTypes
<1>5. user' \in [Users -> UserRows \cup {Null}] /\ since' \in [Users -> Nat]
  BY <1>3, <1>4 DEF TypeInv, TypeOK
<1>6. ASSUME NEW row \in SessionRows
      PROVE  LET new == [row EXCEPT !.marker = gen, !.via = gen] IN
             new \in SessionRows /\ new.user = row.user /\ new.via = new.marker
  BY <1>2 DEF SessionRows
<1>7. Tamed(MarkRevoked(Revoked(u, keep), u)) /\ session \in [Sessions -> SessionRows \cup {Null}]
  BY RevokingTames DEF TypeInv, TypeOK
<1>8. Tamed(session')
  BY <1>3, <1>6, <1>7 DEF Tamed
<1> QED
  BY <1>5, <1>8

LEMMA TypeStays ==
  ASSUME TypeInv
  PROVE  user \in [Users -> UserRows \cup {Null}] /\ since \in [Users -> Nat] /\ Tamed(session)
BY DEF TypeInv, TypeOK, SessionShape, Tamed

(* What a changer goes on with.                                            *)
LEMMA ChangeEdits ==
  ASSUME NEW row \in ChangeStates, NEW u \in Users
  PROVE  /\ \A read \in UserRows :
               LET new == [row EXCEPT !.pc = "unlock", !.user = u, !.row = read]
               IN  new \in ChangeStates /\ ChangeRead(new)
         /\ LET new == [row EXCEPT !.pc = "activate", !.user = u]
            IN  new \in ChangeStates /\ ChangeRead(new)
         /\ \A op \in {"promote", "demote", "enable", "disable", "delete"} :
               LET new == [row EXCEPT !.pc = "write", !.user = u, !.op = op]
               IN  new \in ChangeStates /\ ChangeRead(new)
BY DEF ChangeStates, ChangeRead

LEMMA TypeChanger ==
  ASSUME TypeInv, NEW c \in Changers, ChangeStep(c)
  PROVE  TypeInv'
<1> DEFINE at == change[c]
<1>1. at \in ChangeStates /\ ChangeRead(at)
  BY DEF TypeInv, TypeOK, ChangeShape
<1>2. \A u \in Users : Exists(u) => user[u] \in UserRows
  BY DEF Exists, TypeInv, TypeOK
<1>3. at.pc # "idle" => at.user \in Users
  BY <1>1 DEF ChangeRead
<1>4. user \in [Users -> UserRows \cup {Null}] /\ since \in [Users -> Nat] /\ Tamed(session)
  BY TypeStays
<1>5. CASE BeginOwnPassword(c)
  <2>1. PICK s \in Sessions :
            /\ Usable(s)
            /\ change' = [change EXCEPT ![c] =
                 [pc |-> "password", user |-> session[s].user, op |-> Null,
                  row |-> user[session[s].user], keep |-> s]]
    BY <1>5 DEF BeginOwnPassword
  <2> DEFINE next == [pc |-> "password", user |-> session[s].user, op |-> Null,
                      row |-> user[session[s].user], keep |-> s]
  <2>2. session[s] \in SessionRows /\ Exists(session[s].user)
    BY <2>1 DEF Usable, Accepts, TypeInv, TypeOK
  <2>3. session[s].user \in Users /\ user[session[s].user] \in UserRows
    BY <1>2, <2>2 DEF SessionRows
  <2>4. next \in ChangeStates
    BY <2>3, ConstantTypes DEF ChangeStates, Sessions
  <2>5. ChangeRead(next)
    BY <2>3 DEF ChangeRead
  <2> HIDE DEF next
  <2>6. change' = [change EXCEPT ![c] = next]
    BY <2>1 DEF next
  <2> QED
    BY <1>4, <1>5, <2>4, <2>5, <2>6, ChangeMoves, TypeChange DEF BeginOwnPassword
<1>6. CASE OwnPassword(c)
  <2>1. CASE HashUnchanged(c)
    <3>1. Exists(at.user) /\ SetPassword(at.user, at.keep) /\ at.user \in Users
      BY <1>3, <1>6, <2>1 DEF OwnPassword, HashUnchanged
    <3> QED
      BY <1>6, <3>1, PasswordSet, ChangeEnds, TypeChange DEF OwnPassword
  <2>2. CASE ~HashUnchanged(c)
    BY <1>4, <1>6, <2>2, ChangeEnds, TypeChange DEF OwnPassword
  <2> QED
    BY <2>1, <2>2
<1>7. CASE BeginUnlock(c)
  <2>1. PICK u \in Users :
            /\ Exists(u)
            /\ change' = [change EXCEPT ![c] =
                 [IdleChange EXCEPT !.pc = "unlock", !.user = u, !.row = user[u]]]
    BY <1>7 DEF BeginUnlock
  <2> DEFINE next == [IdleChange EXCEPT !.pc = "unlock", !.user = u, !.row = user[u]]
  <2>4. next \in ChangeStates /\ ChangeRead(next)
    BY <1>2, <2>1, IdleTypes, ChangeEdits
  <2> HIDE DEF next
  <2>3. change' = [change EXCEPT ![c] = next]
    BY <2>1 DEF next
  <2> QED
    BY <1>4, <1>7, <2>3, <2>4, ChangeMoves, TypeChange DEF BeginUnlock
<1>8. CASE EndUnlock(c)
  <2>1. CASE Exists(at.user)
    <3>1. at.user \in Users /\ user[at.user] \in UserRows
      BY <1>2, <1>3, <1>8, <2>1 DEF EndUnlock
    <3> DEFINE failed == IF at.row.failed = 0 THEN user[at.user].failed ELSE 0
               locked == IF at.row.locked = 0 THEN user[at.user].locked ELSE 0
    <3>2. failed \in 0 .. MaxFailed - 1 /\ locked \in Times
      BY <3>1, RowTypes, ConstantTypes
    <3>3. user' = [user EXCEPT ![at.user].failed = failed, ![at.user].locked = locked]
          /\ since' = [since EXCEPT ![at.user] = IF at.row.failed = 0 THEN @ ELSE 0]
      BY <1>4, <1>8, <2>1, <3>1 DEF EndUnlock
    <3> HIDE DEF failed, locked
    <3>4. [user[at.user] EXCEPT !.failed = failed, !.locked = locked] \in UserRows
      BY <3>1, <3>2, EditTypes
    <3>5. user' \in [Users -> UserRows \cup {Null}] /\ since' \in [Users -> Nat]
      BY <1>4, <3>1, <3>3, <3>4
    <3> QED
      BY <1>4, <1>8, <3>5, ChangeEnds, TypeChange DEF EndUnlock
  <2>2. CASE ~Exists(at.user)
    BY <1>4, <1>8, <2>2, ChangeEnds, TypeChange DEF EndUnlock
  <2> QED
    BY <2>1, <2>2
<1>9. CASE CliRevoke(c)
  <2>1. PICK u \in Users :
            /\ session' = Revoked(u, 0)
            /\ change' = [change EXCEPT ![c] =
                 [IdleChange EXCEPT !.pc = "activate", !.user = u]]
    BY <1>9 DEF CliRevoke
  <2> DEFINE next == [IdleChange EXCEPT !.pc = "activate", !.user = u]
  <2>4. next \in ChangeStates /\ ChangeRead(next)
    BY IdleTypes, ChangeEdits
  <2> HIDE DEF next
  <2>3. change' = [change EXCEPT ![c] = next] /\ Tamed(session')
    BY <2>1, RevokingTames DEF next
  <2> QED
    BY <1>4, <1>9, <2>3, <2>4, ChangeMoves, TypeChange DEF CliRevoke
<1>10. CASE CliActivate(c)
  <2>1. CASE Exists(at.user)
    <3>1. at.user \in Users /\ user[at.user] \in UserRows
      BY <1>2, <1>3, <1>10, <2>1 DEF CliActivate
    <3>2. user' = [user EXCEPT ![at.user].active = TRUE] /\ session' = MarkRevoked(session, at.user)
      BY <1>10, <2>1 DEF CliActivate
    <3>3. user' \in [Users -> UserRows \cup {Null}] /\ Tamed(session')
      BY <1>4, <3>1, <3>2, RowTypes, RevokingTames
    <3> QED
      BY <1>4, <1>10, <3>3, ChangeEnds, TypeChange DEF CliActivate
  <2>2. CASE ~Exists(at.user)
    BY <1>4, <1>10, <2>2, ChangeEnds, TypeChange DEF CliActivate
  <2> QED
    BY <2>1, <2>2
<1>11. CASE CountAdmins(c)
  <2>1. PICK u \in Users, op \in {"promote", "demote", "enable", "disable", "delete"} :
            change' = [change EXCEPT ![c] =
                [IdleChange EXCEPT !.pc = "write", !.user = u, !.op = op]]
    BY ZenonT(60), <1>11 DEF CountAdmins
  <2> DEFINE next == [IdleChange EXCEPT !.pc = "write", !.user = u, !.op = op]
  <2>3. next \in ChangeStates /\ ChangeRead(next)
    BY IdleTypes, ChangeEdits
  <2> HIDE DEF next
  <2>4. change' = [change EXCEPT ![c] = next]
    BY <2>1 DEF next
  <2> QED
    BY <1>4, <1>11, <2>3, <2>4, ChangeMoves, TypeChange DEF CountAdmins
<1>12. CASE WriteChange(c)
  <2>1. CASE Exists(at.user)
    <3> DEFINE u == at.user
    <3>1. u \in Users /\ user[u] \in UserRows
      BY <1>2, <1>3, <1>12, <2>1 DEF WriteChange
    <3>2. session' = MarkRevoked(Revoked(u, 0), u)
      BY <1>12, <2>1 DEF WriteChange, RevokedBy
    <3>3. \E row \in UserRows \cup {Null} : user' = [user EXCEPT ![u] = row]
      <4>1. user' = [user EXCEPT ![u] =
               CASE at.op = "delete"  -> Null
                 [] at.op = "promote" -> [user[u] EXCEPT !.role = "admin"]
                 [] at.op = "demote"  -> [user[u] EXCEPT !.role = "viewer"]
                 [] OTHER             -> [user[u] EXCEPT !.active = (at.op = "enable")]]
        BY <1>4, <1>12, <2>1, <3>1 DEF WriteChange
      <4>2. [user[u] EXCEPT !.active = (at.op = "enable")] \in UserRows
        BY <3>1 DEF UserRows
      <4> QED
        BY <3>1, <4>1, <4>2, RowTypes
    <3>4. user' \in [Users -> UserRows \cup {Null}] /\ Tamed(session')
      BY <1>4, <3>1, <3>2, <3>3, RevokingTames
    <3> QED
      BY <1>4, <1>12, <3>4, ChangeEnds, TypeChange DEF WriteChange
  <2>2. CASE ~Exists(at.user)
    BY <1>4, <1>12, <2>2, ChangeEnds, TypeChange DEF WriteChange
  <2> QED
    BY <2>1, <2>2
<1> QED
  BY <1>5, <1>6, <1>7, <1>8, <1>9, <1>10, <1>11, <1>12 DEF ChangeStep

LEMMA TypeOther ==
  ASSUME TypeInv,
         \/ \E s \in Sessions : Logout(s)
         \/ \E u \in Users : ResetPassword(u) \/ CliUnlock(u) \/ RevokeSessions(u)
         \/ PurgeExpiredSessions
  PROVE  TypeInv'
<1>1. user \in [Users -> UserRows \cup {Null}] /\ since \in [Users -> Nat] /\ Tamed(session)
  BY TypeStays
<1>2. ASSUME NEW s \in Sessions, Logout(s) PROVE TypeInv'
  BY <1>1, <1>2, ChangeStays, TypeChange DEF Logout, Tamed
<1>3. ASSUME NEW u \in Users, ResetPassword(u) PROVE TypeInv'
  BY <1>3, PasswordSet, ChangeStays, TypeChange DEF ResetPassword
<1>4. ASSUME NEW u \in Users, CliUnlock(u) PROVE TypeInv'
  <2>1. user[u] \in UserRows
    BY <1>1, <1>4 DEF CliUnlock, Exists
  <2>2. /\ user' = [user EXCEPT ![u].failed = 0, ![u].locked = 0, ![u].active = TRUE]
        /\ since' = [since EXCEPT ![u] = 0] /\ session' = MarkRevoked(Revoked(u, 0), u)
    BY <1>4 DEF CliUnlock, Activated
  <2>3. user' \in [Users -> UserRows \cup {Null}] /\ since' \in [Users -> Nat] /\ Tamed(session')
    BY <1>1, <2>1, <2>2, RowTypes, RevokingTames
  <2> QED
    BY <1>4, <2>3, ChangeStays, TypeChange DEF CliUnlock
<1>5. ASSUME NEW u \in Users, RevokeSessions(u) PROVE TypeInv'
  BY <1>1, <1>5, RevokingTames, ChangeStays, TypeChange DEF RevokeSessions
<1>6. CASE PurgeExpiredSessions
  BY <1>1, <1>6, ChangeStays, TypeChange DEF PurgeExpiredSessions, Tamed
<1> QED
  BY <1>2, <1>3, <1>4, <1>5, <1>6

LEMMA TypeTick == ASSUME TypeInv, Tick PROVE TypeInv'
<1>1. clock' \in 1 .. MaxTime /\ \A n \in 1 .. clock : n \in 1 .. clock'
  BY ConstantTypes DEF Tick, TypeInv, TypeOK
<1> QED
  BY <1>1 DEF Tick, TypeInv, TypeOK, LoginShape, LoginRead, RequestShape, RequestRead,
              ChangeShape, ChangeRead, SessionShape

LEMMA TypeStep == TypeInv /\ [Next]_vars => TypeInv'
<1> SUFFICES ASSUME TypeInv, [Next]_vars PROVE TypeInv'
  OBVIOUS
<1>1. CASE Next
  BY <1>1, TypeLogin, TypeRequest, TypeChanger, TypeOther, TypeTick DEF Next
<1>2. CASE UNCHANGED vars
  BY <1>2 DEF vars, TypeInv, TypeOK, LoginShape, LoginRead, RequestShape, RequestRead,
              ChangeShape, ChangeRead, SessionShape
<1> QED
  BY <1>1, <1>2

(* Every reachable state is well typed, and every process under way holds  *)
(* what the code between its awaits reads.                                 *)
THEOREM TypeCorrect == Spec => []TypeInv
BY TypeInit, TypeStep, PTL DEF Spec

(* Rows of the users and sessions tables, and the local variables of logins, *)
(* requests and changes, keep their types through every step.              *)
THEOREM TypeOKHolds == Spec => []TypeOK
BY TypeCorrect, PTL DEF TypeInv

-----------------------------------------------------------------------------
(* Passwords and counts of failures.                                       *)

(* A session that is accepted was opened, or re-tagged, with the present   *)
(* password: the marker it is compared by never parts from it.             *)
THEOREM PresentPasswordOnly == Spec => []OnlyPresentPassword
<1>1. TypeInv => OnlyPresentPassword
  BY DEF TypeInv, SessionShape, OnlyPresentPassword, Usable, Accepts
<1> QED
  BY <1>1, TypeCorrect, PTL

(* No failed check is lost: the stored count is the number of failures     *)
(* since the last success, lock or reset.                                  *)
Counts ==
    \A u \in Users :
        since[u] < MaxFailed /\ (Exists(u) => since[u] = user[u].failed)

LEMMA EditFields ==
  ASSUME NEW row \in UserRows, NEW n, NEW t, NEW b, NEW g
  PROVE  /\ [row EXCEPT !.failed = n].failed = n
         /\ [row EXCEPT !.failed = n, !.locked = t].failed = n
         /\ [row EXCEPT !.failed = n, !.locked = t, !.active = b].failed = n
         /\ [row EXCEPT !.gen = g, !.failed = n, !.locked = t].failed = n
         /\ [row EXCEPT !.active = b].failed = row.failed
         /\ [row EXCEPT !.role = b].failed = row.failed
BY DEF UserRows

LEMMA CountsFrame == ASSUME Counts, UNCHANGED <<user, since>> PROVE Counts'
BY DEF Counts, Exists

(* One user's row and count are written together.                          *)
LEMMA CountsWritten ==
  ASSUME Counts, NEW u \in Users,
         \A v \in Users \ {u} : user'[v] = user[v] /\ since'[v] = since[v],
         since'[u] < MaxFailed, user'[u] # Null => since'[u] = user'[u].failed
  PROVE  Counts'
BY DEF Counts, Exists

(* What an EXCEPT of both functions says.                                  *)
Written(u, row, n) ==
    /\ user' = [user EXCEPT ![u] = row] /\ since' = [since EXCEPT ![u] = n]
    /\ n < MaxFailed /\ (row # Null => row.failed = n)

LEMMA CountsUpdated ==
  ASSUME TypeInv, Counts, NEW u \in Users, NEW row, NEW n, Written(u, row, n)
  PROVE  Counts'
<1>1. /\ \A v \in Users \ {u} : user'[v] = user[v] /\ since'[v] = since[v]
      /\ user'[u] = row /\ since'[u] = n
  BY DEF Written, TypeInv, TypeOK
<1> QED
  BY <1>1, CountsWritten DEF Written

LEMMA CountsLogin ==
  ASSUME TypeInv, Counts, NEW l \in Logins, LoginStep(l)
  PROVE  Counts'
<1> DEFINE u == login[l].user
<1>1. CASE ReadUser(l) \/ Recheck(l)
  BY <1>1, CountsFrame DEF ReadUser, Recheck
<1>2. CASE Verify(l)
  <2>1. u \in Users
    BY <1>2 DEF Verify, TypeInv, LoginShape, LoginRead
  <2>2. CASE UNCHANGED <<user, since>>
    BY <2>2, CountsFrame
  <2>3. CASE ~UNCHANGED <<user, since>>
    <3>1. /\ Exists(u) /\ user' = [user EXCEPT ![u] = FailureRecorded(l)]
          /\ since' = [since EXCEPT ![u] = IF Counted(l) < MaxFailed THEN since[u] + 1 ELSE 0]
      BY <1>2, <2>1, <2>3 DEF Verify, TypeInv, TypeOK
    <3>2. user[u] \in UserRows /\ since[u] \in Nat /\ Counted(l) = since[u] + 1
      BY <2>1, <3>1 DEF TypeInv, TypeOK, Exists, Counts, Counted
    <3>3. CASE Counted(l) < MaxFailed
      <4>1. FailureRecorded(l).failed = since[u] + 1
        BY <3>2, <3>3, EditFields DEF FailureRecorded
      <4> QED
        <5>1. Written(u, FailureRecorded(l), since[u] + 1)
          BY <3>1, <3>2, <3>3, <4>1 DEF Written
        <5> QED
          BY <2>1, <5>1, CountsUpdated
    <3>4. CASE ~(Counted(l) < MaxFailed)
      <4>1. FailureRecorded(l).failed = 0
        BY <3>2, <3>4, EditFields DEF FailureRecorded
      <4> QED
        <5>1. Written(u, FailureRecorded(l), 0)
          BY <3>1, <3>2, <3>4, <4>1, ConstantTypes DEF Written
        <5> QED
          BY <2>1, <5>1, CountsUpdated
    <3> QED
      BY <3>3, <3>4
  <2> QED
    BY <2>2, <2>3
<1>3. CASE Enter(l)
  <2>1. CASE ~MayEnter(l)
    BY <1>3, <2>1, CountsFrame DEF Enter
  <2>2. CASE MayEnter(l)
    <3>1. u \in Users /\ user[u] \in UserRows
      BY <1>3, <2>2 DEF Enter, MayEnter, Exists, TypeInv, TypeOK, LoginShape, LoginRead
    <3>2. /\ user' = [user EXCEPT ![u] = [user[u] EXCEPT !.failed = 0, !.locked = 0]]
          /\ since' = [since EXCEPT ![u] = 0]
      BY <1>3, <2>2, <3>1 DEF Enter, TypeInv, TypeOK
    <3>3. Written(u, [user[u] EXCEPT !.failed = 0, !.locked = 0], 0)
      BY <3>1, <3>2, EditFields, ConstantTypes DEF Written
    <3> QED
      BY <3>1, <3>3, CountsUpdated
  <2> QED
    BY <2>1, <2>2
<1> QED
  BY <1>1, <1>2, <1>3 DEF LoginStep

LEMMA CountsPassword ==
  ASSUME TypeInv, Counts, NEW u \in Users, Exists(u), NEW keep, SetPassword(u, keep)
  PROVE  Counts'
<1>1. user[u] \in UserRows
  BY DEF Exists, TypeInv, TypeOK
<1> DEFINE row == [user[u] EXCEPT !.gen = user[u].gen + 1, !.failed = 0, !.locked = 0]
<1>2. user' = [user EXCEPT ![u] = row] /\ since' = [since EXCEPT ![u] = 0]
  BY DEF SetPassword, TypeInv, TypeOK
<1>3. row.failed = 0
  BY <1>1, EditFields
<1> HIDE DEF row
<1>4. Written(u, row, 0)
  BY <1>2, <1>3, ConstantTypes DEF Written
<1> QED
  BY <1>4, CountsUpdated

LEMMA CountsChange ==
  ASSUME TypeInv, Counts, NEW c \in Changers, ChangeStep(c)
  PROVE  Counts'
<1> DEFINE u == change[c].user
<1>1. change[c].pc # "idle" => u \in Users
  BY DEF TypeInv, ChangeShape, ChangeRead
<1>2. Exists(u) /\ u \in Users => user[u] \in UserRows /\ since[u] \in Nat /\ since[u] < MaxFailed
                                  /\ since[u] = user[u].failed
  BY DEF Exists, TypeInv, TypeOK, Counts
<1>3. CASE BeginOwnPassword(c) \/ BeginUnlock(c) \/ CliRevoke(c) \/ CountAdmins(c)
  BY <1>3, CountsFrame DEF BeginOwnPassword, BeginUnlock, CliRevoke, CountAdmins
<1>4. CASE OwnPassword(c)
  BY <1>1, <1>4, CountsFrame, CountsPassword DEF OwnPassword, HashUnchanged
<1>5. CASE EndUnlock(c)
  <2>1. CASE ~Exists(u)
    BY <1>5, <2>1, CountsFrame DEF EndUnlock
  <2>2. CASE Exists(u)
    <3> DEFINE n == IF change[c].row.failed = 0 THEN since[u] ELSE 0
               t == IF change[c].row.locked = 0 THEN user[u].locked ELSE 0
               row == [user[u] EXCEPT !.failed = n, !.locked = t]
    <3>1. u \in Users /\ user[u] \in UserRows /\ n \in Nat /\ n < MaxFailed
      BY <1>1, <1>2, <1>5, <2>2, ConstantTypes DEF EndUnlock
    <3>2. user' = [user EXCEPT ![u] = row] /\ since' = [since EXCEPT ![u] = n]
      BY <1>2, <1>5, <2>2, <3>1 DEF EndUnlock, TypeInv, TypeOK
    <3>3. row.failed = n
      BY <3>1, EditFields
    <3> HIDE DEF n, row
    <3> QED
      <4>1. Written(u, row, n)
        BY <3>1, <3>2, <3>3 DEF Written
      <4> QED
        BY <3>1, <4>1, CountsUpdated
  <2> QED
    BY <2>1, <2>2
<1>6. CASE CliActivate(c)
  <2>1. CASE ~Exists(u)
    BY <1>6, <2>1, CountsFrame DEF CliActivate
  <2>2. CASE Exists(u)
    <3>1. /\ u \in Users /\ user' = [user EXCEPT ![u] = [user[u] EXCEPT !.active = TRUE]]
          /\ since' = [since EXCEPT ![u] = since[u]]
      BY <1>1, <1>6, <2>2 DEF CliActivate, TypeInv, TypeOK
    <3>2. Written(u, [user[u] EXCEPT !.active = TRUE], since[u])
      BY <1>2, <2>2, <3>1, EditFields DEF Written
    <3> QED
      BY <3>1, <3>2, CountsUpdated
  <2> QED
    BY <2>1, <2>2
<1>7. CASE WriteChange(c)
  <2>1. CASE ~Exists(u)
    BY <1>7, <2>1, CountsFrame DEF WriteChange
  <2>2. CASE Exists(u)
    <3>1. u \in Users /\ since' = [since EXCEPT ![u] = since[u]]
      BY <1>1, <1>7 DEF WriteChange, TypeInv, TypeOK
    <3> DEFINE op == change[c].op
               row == CASE op = "delete"  -> Null
                        [] op = "promote" -> [user[u] EXCEPT !.role = "admin"]
                        [] op = "demote"  -> [user[u] EXCEPT !.role = "viewer"]
                        [] OTHER          -> [user[u] EXCEPT !.active = (op = "enable")]
    <3>2. user' = [user EXCEPT ![u] = row]
      BY <1>7, <2>2, <3>1 DEF WriteChange, TypeInv, TypeOK
    <3>3. row # Null => row.failed = user[u].failed
      BY <1>2, <2>2, <3>1, EditFields
    <3> HIDE DEF row
    <3>4. Written(u, row, since[u])
      BY <1>2, <2>2, <3>1, <3>2, <3>3 DEF Written
    <3> QED
      BY <3>1, <3>4, CountsUpdated
  <2> QED
    BY <2>1, <2>2
<1> QED
  BY <1>3, <1>4, <1>5, <1>6, <1>7 DEF ChangeStep

LEMMA CountsStep == TypeInv /\ Counts /\ [Next]_vars => Counts'
<1> SUFFICES ASSUME TypeInv, Counts, [Next]_vars PROVE Counts'
  OBVIOUS
<1>1. ASSUME NEW r \in Requests, RequestStep(r) PROVE Counts'
  BY <1>1, CountsFrame DEF RequestStep, ReadSession, DeleteExpired, ReadAgain, ResolveUser, Touch
<1>2. CASE \/ \E s \in Sessions : Logout(s)
           \/ \E u \in Users : RevokeSessions(u)
           \/ PurgeExpiredSessions \/ Tick
  BY <1>2, CountsFrame DEF Logout, RevokeSessions, PurgeExpiredSessions, Tick
<1>3. ASSUME NEW u \in Users, ResetPassword(u) PROVE Counts'
  BY <1>3, CountsPassword DEF ResetPassword
<1>4. ASSUME NEW u \in Users, CliUnlock(u) PROVE Counts'
  <2>1. /\ user' = [user EXCEPT ![u] = [user[u] EXCEPT !.failed = 0, !.locked = 0, !.active = TRUE]]
        /\ since' = [since EXCEPT ![u] = 0] /\ user[u] \in UserRows
    BY <1>4 DEF CliUnlock, Activated, Exists, TypeInv, TypeOK
  <2>2. Written(u, [user[u] EXCEPT !.failed = 0, !.locked = 0, !.active = TRUE], 0)
    BY <2>1, EditFields, ConstantTypes DEF Written
  <2> QED
    BY <2>2, CountsUpdated
<1>5. CASE UNCHANGED vars
  BY <1>5, CountsFrame DEF vars
<1> QED
  BY <1>1, <1>2, <1>3, <1>4, <1>5, CountsLogin, CountsChange DEF Next

(* However many logins fail at once, MaxFailed failed checks lock the user. *)
THEOREM FailuresAlwaysLock == Spec => []FailuresLock
<1>1. Init => Counts
  BY ConstantTypes DEF Init, Counts, NewUser
<1>2. Counts => FailuresLock
  BY DEF Counts, FailuresLock
<1> QED
  BY <1>1, <1>2, CountsStep, TypeCorrect, PTL DEF Spec

-----------------------------------------------------------------------------
(* Administrators.                                                         *)

(* One change at a time is between its count and its write, and if it      *)
(* takes an administrator away there is another one.                       *)
Guarded ==
    /\ AdminRemains
    /\ \A c, d \in Changers : change[c].pc = "write" /\ change[d].pc = "write" => c = d
    /\ \A c \in Changers :
          change[c].pc = "write" /\ Endangers(change[c].op)
          => \E v \in Users \ {change[c].user} : IsAdmin(v)

AdminRow(row) == row # Null /\ row.role = "admin" /\ row.active
AdminsStay == \A v \in Users : AdminRow(user[v]) => AdminRow(user'[v])

LEMMA GuardedFrame ==
  ASSUME Guarded, AdminsStay,
         \A c \in Changers : change'[c].pc = "write" => change'[c] = change[c]
  PROVE  Guarded'
<1>1. \A v \in Users : IsAdmin(v) => IsAdmin(v)'
  BY DEF AdminsStay, AdminRow, IsAdmin, Exists
<1> QED
  BY <1>1 DEF Guarded, AdminRemains

(* Only role and activation make an administrator.                         *)
LEMMA AdminEdits ==
  ASSUME NEW row \in UserRows, AdminRow(row), NEW n \in 0 .. MaxFailed - 1, NEW t \in Times
  PROVE  /\ AdminRow([row EXCEPT !.failed = n])
         /\ AdminRow([row EXCEPT !.failed = n, !.locked = t])
         /\ AdminRow([row EXCEPT !.failed = n, !.locked = t, !.active = TRUE])
<1>1. /\ [row EXCEPT !.failed = n] \in UserRows
      /\ [row EXCEPT !.failed = n, !.locked = t] \in UserRows
      /\ [row EXCEPT !.failed = n, !.locked = t, !.active = TRUE] \in UserRows
  BY EditTypes
<1> QED
  BY <1>1, NullAssumption DEF AdminRow, UserRows

LEMMA AdminRoleEdits ==
  ASSUME NEW row \in UserRows, AdminRow(row)
  PROVE  /\ AdminRow([row EXCEPT !.failed = 0, !.locked = 0])
         /\ AdminRow([row EXCEPT !.failed = 0, !.locked = 0, !.active = TRUE])
         /\ AdminRow([row EXCEPT !.active = TRUE])
         /\ AdminRow([row EXCEPT !.role = "admin"])
<1>1. /\ [row EXCEPT !.active = TRUE] \in UserRows
      /\ [row EXCEPT !.role = "admin"] \in UserRows
  BY RowTypes
<1>2. /\ AdminRow([row EXCEPT !.active = TRUE])
      /\ AdminRow([row EXCEPT !.role = "admin"])
  BY <1>1, NullAssumption DEF AdminRow, UserRows
<1> QED
  BY <1>2, AdminEdits, ConstantTypes

LEMMA AdminPasswordEdit ==
  ASSUME NEW row \in UserRows, AdminRow(row), NEW g \in 1 .. MaxGen
  PROVE  AdminRow([row EXCEPT !.gen = g, !.failed = 0, !.locked = 0])
<1>1. [row EXCEPT !.gen = g, !.failed = 0, !.locked = 0] \in UserRows
  BY GenTypes, ConstantTypes
<1> QED
  BY <1>1, NullAssumption DEF AdminRow, UserRows

LEMMA AdminsWritten ==
  ASSUME TypeInv, NEW u \in Users, NEW row, user' = [user EXCEPT ![u] = row],
         AdminRow(user[u]) => AdminRow(row)
  PROVE  AdminsStay
BY DEF AdminsStay, TypeInv, TypeOK

LEMMA AdminsUntouched == ASSUME UNCHANGED user PROVE AdminsStay
BY DEF AdminsStay

LEMMA AdminsLogin ==
  ASSUME TypeInv, NEW l \in Logins, LoginStep(l)
  PROVE  AdminsStay
<1> DEFINE u == login[l].user
<1>1. CASE UNCHANGED user
  BY <1>1, AdminsUntouched
<1>2. CASE ~UNCHANGED user /\ Verify(l)
  <2>0. u \in Users /\ login[l].now \in 1 .. clock /\ clock \in 1 .. MaxTime
    BY <1>2 DEF Verify, TypeInv, TypeOK, LoginShape, LoginRead
  <2>1. Exists(u) /\ user' = [user EXCEPT ![u] = FailureRecorded(l)]
    BY <1>2 DEF Verify
  <2>2. user[u] \in UserRows
    BY <2>0, <2>1 DEF Exists, TypeInv, TypeOK
  <2>3. user[u].failed \in 0 .. MaxFailed - 1
    BY <2>2, RowTypes
  <2>4. Counted(l) < MaxFailed => Counted(l) \in 0 .. MaxFailed - 1
    BY <2>3, ConstantTypes DEF Counted
  <2>5. login[l].now + Lockout \in Times
    BY <2>0, ConstantTypes
  <2>6. AdminRow(user[u]) => AdminRow(FailureRecorded(l))
    BY <2>2, <2>4, <2>5, AdminEdits, ConstantTypes DEF FailureRecorded
  <2> QED
    BY <2>0, <2>1, <2>6, AdminsWritten
<1>3. CASE ~UNCHANGED user /\ Enter(l)
  <2>1. u \in Users /\ user[u] \in UserRows
    BY <1>3 DEF Enter, MayEnter, Exists, TypeInv, TypeOK, LoginShape, LoginRead
  <2>2. user' = [user EXCEPT ![u] = [user[u] EXCEPT !.failed = 0, !.locked = 0]]
    BY <1>3, <2>1 DEF Enter, TypeInv, TypeOK
  <2>3. AdminRow(user[u]) => AdminRow([user[u] EXCEPT !.failed = 0, !.locked = 0])
    BY <2>1, AdminRoleEdits
  <2> QED
    BY <2>1, <2>2, <2>3, AdminsWritten
<1> QED
  BY <1>1, <1>2, <1>3 DEF LoginStep, ReadUser, Recheck

LEMMA AdminsPassword ==
  ASSUME TypeInv, NEW u \in Users, Exists(u), NEW keep, SetPassword(u, keep)
  PROVE  AdminsStay
<1> DEFINE gen == user[u].gen + 1
           row == [user[u] EXCEPT !.gen = gen, !.failed = 0, !.locked = 0]
<1>1. user[u] \in UserRows
  BY DEF Exists, TypeInv, TypeOK
<1>2. gen \in 1 .. MaxGen
  <2>1. user[u].gen \in 1 .. MaxGen
    BY <1>1, RowTypes
  <2>2. gen <= MaxGen
    BY DEF SetPassword
  <2> QED
    BY <2>1, <2>2, ConstantTypes
<1>3. user' = [user EXCEPT ![u] = row]
  BY DEF SetPassword, TypeInv, TypeOK
<1> HIDE DEF gen
<1>4. AdminRow(user[u]) => AdminRow(row)
  BY <1>1, <1>2, AdminPasswordEdit
<1> HIDE DEF row
<1> QED
  BY <1>3, <1>4, AdminsWritten

LEMMA GuardedChange ==
  ASSUME TypeInv, OneGuard, Guarded, NEW c \in Changers, ChangeStep(c)
  PROVE  Guarded'
<1> DEFINE at == change[c]
           u == at.user
<1>1. at.pc # "idle" => u \in Users
  BY DEF TypeInv, ChangeShape, ChangeRead
<1>2. Exists(u) /\ u \in Users => user[u] \in UserRows
  BY DEF Exists, TypeInv, TypeOK
<1>3. /\ change \in [Changers -> ChangeStates] /\ IdleChange.pc = "idle"
      /\ user \in [Users -> UserRows \cup {Null}]
  BY IdleTypes DEF TypeInv, TypeOK
<1>4. ASSUME change' = [change EXCEPT ![c] = IdleChange]
      PROVE  \A d \in Changers : change'[d].pc = "write" => change'[d] = change[d] /\ d # c
  BY <1>3, <1>4
<1>5. ASSUME BeginOwnPassword(c) \/ BeginUnlock(c) \/ CliRevoke(c) PROVE Guarded'
  <2>1. PICK next : next.pc # "write" /\ change' = [change EXCEPT ![c] = next]
    <3>1. CASE BeginOwnPassword(c)
      BY <3>1 DEF BeginOwnPassword
    <3>2. CASE BeginUnlock(c)
      <4>1. PICK v \in Users :
                change' = [change EXCEPT ![c] =
                  [IdleChange EXCEPT !.pc = "unlock", !.user = v, !.row = user[v]]]
        BY <3>2 DEF BeginUnlock
      <4> DEFINE next == [IdleChange EXCEPT !.pc = "unlock", !.user = v, !.row = user[v]]
      <4>2. next.pc = "unlock"
        BY DEF IdleChange
      <4> HIDE DEF next
      <4>3. change' = [change EXCEPT ![c] = next]
        BY <4>1 DEF next
      <4> QED
        BY <4>2, <4>3
    <3>3. CASE CliRevoke(c)
      <4>1. PICK v \in Users :
                change' = [change EXCEPT ![c] =
                  [IdleChange EXCEPT !.pc = "activate", !.user = v]]
        BY <3>3 DEF CliRevoke
      <4> DEFINE next == [IdleChange EXCEPT !.pc = "activate", !.user = v]
      <4>2. next.pc = "activate"
        BY DEF IdleChange
      <4> HIDE DEF next
      <4>3. change' = [change EXCEPT ![c] = next]
        BY <4>1 DEF next
      <4> QED
        BY <4>2, <4>3
    <3> QED
      BY <1>5, <3>1, <3>2, <3>3
  <2>2. \A d \in Changers : change'[d].pc = "write" => change'[d] = change[d]
    BY <1>3, <2>1
  <2> QED
    BY <1>5, <2>2, AdminsUntouched, GuardedFrame DEF BeginOwnPassword, BeginUnlock, CliRevoke
<1>6. CASE OwnPassword(c)
  <2>1. AdminsStay
    BY <1>1, <1>6, AdminsUntouched, AdminsPassword DEF OwnPassword, HashUnchanged
  <2> QED
    BY <1>4, <1>6, <2>1, GuardedFrame DEF OwnPassword
<1>7. CASE EndUnlock(c)
  <2>1. CASE ~Exists(u)
    BY <1>4, <1>7, <2>1, AdminsUntouched, GuardedFrame DEF EndUnlock
  <2>2. CASE Exists(u)
    <3> DEFINE failed == IF at.row.failed = 0 THEN user[u].failed ELSE 0
               locked == IF at.row.locked = 0 THEN user[u].locked ELSE 0
               row == [user[u] EXCEPT !.failed = failed, !.locked = locked]
    <3>1. u \in Users /\ user[u] \in UserRows
      BY <1>1, <1>2, <1>7, <2>2 DEF EndUnlock
    <3>2. failed \in 0 .. MaxFailed - 1 /\ locked \in Times
      BY <3>1, RowTypes, ConstantTypes
    <3>3. user' = [user EXCEPT ![u] = row]
      BY <1>3, <1>7, <2>2, <3>1 DEF EndUnlock
    <3> HIDE DEF failed, locked
    <3>4. AdminRow(user[u]) => AdminRow(row)
      BY <3>1, <3>2, AdminEdits
    <3> HIDE DEF row
    <3> QED
      BY <1>4, <1>7, <3>1, <3>3, <3>4, AdminsWritten, GuardedFrame DEF EndUnlock
  <2> QED
    BY <2>1, <2>2
<1>8. CASE CliActivate(c)
  <2>1. CASE ~Exists(u)
    BY <1>4, <1>8, <2>1, AdminsUntouched, GuardedFrame DEF CliActivate
  <2>2. CASE Exists(u)
    <3> DEFINE row == [user[u] EXCEPT !.active = TRUE]
    <3>1. u \in Users /\ user' = [user EXCEPT ![u] = row]
      BY <1>1, <1>3, <1>8, <2>2 DEF CliActivate
    <3>2. AdminRow(user[u]) => AdminRow(row)
      BY <1>2, <2>2, <3>1, AdminRoleEdits
    <3> HIDE DEF row
    <3> QED
      BY <1>4, <1>8, <3>1, <3>2, AdminsWritten, GuardedFrame DEF CliActivate
  <2> QED
    BY <2>1, <2>2
<1>9. CASE CountAdmins(c)
  <2>1. PICK v \in Users, op \in {"promote", "demote", "enable", "disable", "delete"} :
            /\ Endangers(op) => ~LastAdmin(v)
            /\ change' = [change EXCEPT ![c] =
                 [IdleChange EXCEPT !.pc = "write", !.user = v, !.op = op]]
    BY <1>9 DEF CountAdmins
  <2> DEFINE next == [IdleChange EXCEPT !.pc = "write", !.user = v, !.op = op]
  <2>2. next.pc = "write" /\ next.user = v /\ next.op = op
    BY DEF IdleChange
  <2> HIDE DEF next
  <2>3. change' = [change EXCEPT ![c] = next]
    BY <2>1 DEF next
  <2>4. Endangers(op) => \E w \in Users \ {v} : IsAdmin(w)
    BY <2>1 DEF LastAdmin, Guarded, AdminRemains
  <2>5. \A d \in Changers : change[d].pc # "write"
    BY <1>9 DEF CountAdmins, GuardFree
  <2>6. \A d \in Changers : change'[d].pc = "write" => d = c /\ change'[d] = next
    BY <1>3, <2>3, <2>5
  <2>7. UNCHANGED user
    BY <1>9 DEF CountAdmins
  <2> QED
    BY <2>2, <2>4, <2>6, <2>7 DEF Guarded, AdminRemains, IsAdmin, Exists
<1>10. CASE WriteChange(c)
  <2>1. CASE ~Exists(u)
    BY <1>4, <1>10, <2>1, AdminsUntouched, GuardedFrame DEF WriteChange
  <2>2. CASE Exists(u)
    <3>1. u \in Users /\ user[u] \in UserRows
      BY <1>1, <1>2, <1>10, <2>2 DEF WriteChange
    <3>2. at.op \in {"promote", "demote", "enable", "disable", "delete"} /\ at.pc = "write"
      BY <1>10 DEF WriteChange, TypeInv, ChangeShape, ChangeRead
    <3>3. change' = [change EXCEPT ![c] = IdleChange]
      BY <1>10 DEF WriteChange
    <3>4. CASE at.op \in {"promote", "enable"}
      <4> DEFINE row == IF at.op = "promote" THEN [user[u] EXCEPT !.role = "admin"]
                                             ELSE [user[u] EXCEPT !.active = TRUE]
      <4>1. user' = [user EXCEPT ![u] = row]
        BY <1>3, <1>10, <2>2, <3>1, <3>4 DEF WriteChange
      <4>2. AdminRow(user[u]) => AdminRow(row)
        BY <3>1, AdminRoleEdits
      <4> HIDE DEF row
      <4> QED
        BY <1>4, <3>1, <3>3, <4>1, <4>2, AdminsWritten, GuardedFrame
    <3>5. CASE at.op \notin {"promote", "enable"}
      <4>1. PICK v \in Users \ {u} : IsAdmin(v)
        BY <3>2, <3>5 DEF Guarded, Endangers
      <4>2. user'[v] = user[v]
        BY <1>3, <1>10, <2>2, <3>1, <4>1 DEF WriteChange
      <4>3. AdminRemains'
        BY <4>1, <4>2 DEF AdminRemains, IsAdmin, Exists
      <4>4. \A d \in Changers : change'[d].pc # "write"
        BY <1>4, <3>2, <3>3 DEF Guarded
      <4> QED
        BY <4>3, <4>4 DEF Guarded
    <3> QED
      BY <3>4, <3>5
  <2> QED
    BY <2>1, <2>2
<1> QED
  BY <1>5, <1>6, <1>7, <1>8, <1>9, <1>10 DEF ChangeStep

LEMMA GuardedStep == ASSUME OneGuard PROVE TypeInv /\ Guarded /\ [Next]_vars => Guarded'
<1> SUFFICES ASSUME TypeInv, Guarded, [Next]_vars PROVE Guarded'
  OBVIOUS
<1>1. ASSUME NEW l \in Logins, LoginStep(l) PROVE Guarded'
  <2>1. UNCHANGED change
    BY <1>1 DEF LoginStep, ReadUser, Verify, Recheck, Enter
  <2> QED
    BY <1>1, <2>1, AdminsLogin, GuardedFrame
<1>2. ASSUME NEW r \in Requests, RequestStep(r) PROVE Guarded'
  <2>1. UNCHANGED <<user, change>>
    BY <1>2 DEF RequestStep, ReadSession, DeleteExpired, ReadAgain, ResolveUser, Touch
  <2> QED
    BY <2>1, AdminsUntouched, GuardedFrame
<1>3. CASE \/ \E s \in Sessions : Logout(s)
           \/ \E u \in Users : RevokeSessions(u)
           \/ PurgeExpiredSessions \/ Tick \/ UNCHANGED vars
  <2>1. UNCHANGED <<user, change>>
    BY <1>3 DEF Logout, RevokeSessions, PurgeExpiredSessions, Tick, vars
  <2> QED
    BY <2>1, AdminsUntouched, GuardedFrame
<1>4. ASSUME NEW u \in Users, ResetPassword(u) PROVE Guarded'
  BY <1>4, AdminsPassword, GuardedFrame DEF ResetPassword
<1>5. ASSUME NEW u \in Users, CliUnlock(u) PROVE Guarded'
  <2> DEFINE row == [user[u] EXCEPT !.failed = 0, !.locked = 0, !.active = TRUE]
  <2>1. user' = [user EXCEPT ![u] = row] /\ user[u] \in UserRows
    BY <1>5 DEF CliUnlock, Activated, Exists, TypeInv, TypeOK
  <2>2. AdminRow(user[u]) => AdminRow(row)
    BY <2>1, AdminRoleEdits
  <2> HIDE DEF row
  <2> QED
    BY <1>5, <2>1, <2>2, AdminsWritten, GuardedFrame DEF CliUnlock
<1> QED
  BY <1>1, <1>2, <1>3, <1>4, <1>5, GuardedChange DEF Next

(* Where one guard excludes all changers (one process, or PostgreSQL), an  *)
(* active administrator remains, whatever changes overlap.  Without it     *)
(* that is false: the run auth_two_processes.                              *)
THEOREM AnAdminRemains ==
  ASSUME OneGuard, Users # {}
  PROVE  Spec => []AdminRemains
<1>1. Init => Guarded
  <2> SUFFICES ASSUME Init PROVE Guarded
    OBVIOUS
  <2>1. \A u \in Users : user[u] = NewUser("admin") /\ user[u] # Null
    BY IdleTypes, NullAssumption DEF Init
  <2>2. AdminRemains
    BY <2>1 DEF AdminRemains, IsAdmin, Exists, NewUser
  <2>3. \A c \in Changers : change[c].pc # "write"
    BY DEF Init, IdleChange
  <2> QED
    BY <2>2, <2>3 DEF Guarded
<1>2. Guarded => AdminRemains
  BY DEF Guarded
<1>3. TypeInv /\ Guarded /\ [Next]_vars => Guarded'
  BY GuardedStep
<1> QED
  BY <1>1, <1>2, <1>3, TypeCorrect, PTL DEF Spec
-----------------------------------------------------------------------------
(* Sessions: only a login opens one, and only a request that still sees it *)
(* expired, or a change of its user, ends one that is in use.              *)

Ages(rows) ==
    \A s \in Sessions : rows[s] # Null =>
        session[s] # Null /\ rows[s].seen >= session[s].seen

LEMMA SessionTypes ==
  ASSUME TypeInv
  PROVE  /\ session \in [Sessions -> SessionRows \cup {Null}] /\ Ages(session)
         /\ clock \in Nat
<1>1. session \in [Sessions -> SessionRows \cup {Null}] /\ clock \in Nat
  BY ConstantTypes DEF TypeInv, TypeOK
<1>2. \A row \in SessionRows : row.seen >= row.seen
  BY ConstantTypes DEF SessionRows, Times
<1> QED
  BY <1>1, <1>2 DEF Ages

LEMMA SessionEdits ==
  ASSUME NEW row \in SessionRows, NEW g, NEW n
  PROVE  /\ [row EXCEPT !.revoked = TRUE].seen = row.seen
         /\ [row EXCEPT !.marker = g, !.via = g].seen = row.seen
         /\ [row EXCEPT !.marker = g, !.via = g].revoked = row.revoked
         /\ [row EXCEPT !.seen = n].seen = n
         /\ [row EXCEPT !.seen = n].revoked = row.revoked
BY DEF SessionRows

LEMMA RevokingAges ==
  ASSUME TypeInv, NEW u \in Users, NEW keep
  PROVE  /\ Ages(Revoked(u, keep)) /\ Ages(MarkRevoked(session, u))
         /\ Ages(MarkRevoked(Revoked(u, keep), u))
<1>1. Ages(Revoked(u, keep)) /\ \A s \in Sessions : Revoked(u, keep)[s] \in SessionRows \cup {Null}
  BY SessionTypes DEF Revoked, Ages
<1>2. ASSUME NEW rows, Ages(rows), \A s \in Sessions : rows[s] \in SessionRows \cup {Null}
      PROVE  Ages(MarkRevoked(rows, u))
  BY <1>2, SessionEdits DEF Ages, MarkRevoked
<1> QED
  BY <1>1, <1>2, SessionTypes

LEMMA AgesRequest ==
  ASSUME TypeInv, NEW r \in Requests, RequestStep(r)
  PROVE  Ages(session')
<1> DEFINE at == request[r]
<1>1. CASE ReadSession(r) \/ ReadAgain(r)
  BY <1>1, SessionTypes DEF ReadSession, ReadAgain
<1>2. CASE DeleteExpired(r) \/ ResolveUser(r)
  BY <1>2, SessionTypes, NullAssumption DEF DeleteExpired, ResolveUser, Ages
<1>3. CASE Touch(r)
  <2>1. session' = IF session[at.id] = Null THEN session
                   ELSE [session EXCEPT ![at.id] = Touched(session[at.id], at.now)]
    BY <1>3 DEF Touch
  <2>2. at.id \in Sessions /\ at.now \in Nat
    <3>1. at.pc # "idle" /\ RequestRead(at, session, issued, clock) /\ issued \in 0 .. MaxSessions
      BY <1>3 DEF Touch, TypeInv, RequestShape, TypeOK
    <3> QED
      BY <3>1, SessionTypes, ConstantTypes DEF RequestRead, Sessions
  <2>3. ASSUME NEW row \in SessionRows
        PROVE  Touched(row, at.now).seen >= row.seen
    <3>1. row.seen \in Nat
      BY ConstantTypes DEF SessionRows, Times
    <3> QED
      BY <2>2, <3>1, SessionEdits DEF Touched
  <2> QED
    BY <2>1, <2>2, <2>3, SessionTypes DEF Ages
<1> QED
  BY <1>1, <1>2, <1>3 DEF RequestStep

LEMMA AgesPassword ==
  ASSUME TypeInv, NEW u \in Users, NEW keep, SetPassword(u, keep)
  PROVE  Ages(session')
<1> DEFINE gen == user[u].gen + 1
<1>1. session' = [s \in Sessions |->
          IF s = keep /\ session[s] # Null /\ session[s].user = u
          THEN [session[s] EXCEPT !.marker = gen, !.via = gen]
          ELSE MarkRevoked(Revoked(u, keep), u)[s]]
  BY DEF SetPassword
<1> HIDE DEF gen
<1>2. \A s \in Sessions : session[s] # Null =>
          [session[s] EXCEPT !.marker = gen, !.via = gen].seen >= session[s].seen
  BY SessionTypes, SessionEdits DEF Ages
<1>3. Ages(MarkRevoked(Revoked(u, keep), u))
  BY RevokingAges
<1> QED
  BY <1>1, <1>2, <1>3 DEF Ages

LEMMA AgesChange ==
  ASSUME TypeInv, NEW c \in Changers, ChangeStep(c)
  PROVE  Ages(session')
<1> DEFINE u == change[c].user
<1>1. change[c].pc # "idle" => u \in Users
  BY SMTT(30) DEF TypeInv, ChangeShape, ChangeRead
<1>2. CASE BeginOwnPassword(c) \/ BeginUnlock(c) \/ EndUnlock(c) \/ CountAdmins(c)
  BY <1>2, SessionTypes DEF BeginOwnPassword, BeginUnlock, EndUnlock, CountAdmins
<1>3. CASE OwnPassword(c)
  BY <1>1, <1>3, SessionTypes, AgesPassword DEF OwnPassword
<1>4. CASE CliRevoke(c)
  BY <1>4, RevokingAges DEF CliRevoke
<1>5. CASE CliActivate(c)
  BY <1>1, <1>5, SessionTypes, RevokingAges DEF CliActivate
<1>6. CASE WriteChange(c)
  BY <1>1, <1>6, SessionTypes, RevokingAges DEF WriteChange, RevokedBy
<1> QED
  BY <1>2, <1>3, <1>4, <1>5, <1>6 DEF ChangeStep

LEMMA AgesOther ==
  ASSUME TypeInv,
         \/ \E s \in Sessions : Logout(s)
         \/ \E u \in Users : ResetPassword(u) \/ CliUnlock(u) \/ RevokeSessions(u)
         \/ PurgeExpiredSessions \/ Tick
  PROVE  Ages(session')
<1>1. ASSUME NEW s \in Sessions, Logout(s) PROVE Ages(session')
  BY <1>1, SessionTypes DEF Logout, Ages
<1>2. ASSUME NEW u \in Users, ResetPassword(u) \/ CliUnlock(u) \/ RevokeSessions(u)
      PROVE  Ages(session')
  BY <1>2, AgesPassword, RevokingAges DEF ResetPassword, CliUnlock, RevokeSessions
<1>3. CASE PurgeExpiredSessions \/ Tick
  BY <1>3, SessionTypes DEF PurgeExpiredSessions, Tick, Ages
<1> QED
  BY <1>1, <1>2, <1>3

(* What one login step does to the sessions: it opens one for a user that  *)
(* is not locked, or none.                                                 *)
Opens ==
    \E u \in Users :
        /\ user[u].locked <= clock
        /\ session[issued + 1] = Null
        /\ \A s \in Sessions : session'[s] # Null =>
              \/ s = issued + 1 /\ session'[s].user = u /\ session'[s].revoked = FALSE
              \/ s # issued + 1 /\ session'[s] = session[s]

LEMMA LoginOpens ==
  ASSUME TypeInv, NEW l \in Logins, LoginStep(l)
  PROVE  Opens \/ UNCHANGED session
<1> DEFINE at == login[l]
           u == at.user
<1>1. CASE Enter(l) /\ MayEnter(l)
  <2>1. u \in Users /\ at.now \in 1 .. clock
    BY <1>1 DEF Enter, TypeInv, LoginShape, LoginRead
  <2>2. user[u] \in UserRows /\ user[u].locked <= at.now
    BY <1>1, <2>1 DEF MayEnter, Exists, TypeInv, TypeOK
  <2>3. user[u].locked <= clock
    <3>1. user[u].locked \in Times /\ clock \in Nat
      BY <2>2, RowTypes, SessionTypes
    <3>2. Times \subseteq Int
      BY ConstantTypes DEF Times
    <3>3. user[u].locked \in Int /\ at.now \in Int /\ at.now <= clock
      BY <2>1, <3>1, <3>2
    <3> QED
      BY SMTT(30), <2>2, <3>1, <3>3
  <2>4. issued + 1 \in Sessions /\ issued \in Nat
    BY <1>1, ConstantTypes DEF Enter, Sessions, TypeInv, TypeOK
  <2>5. session[issued + 1] = Null
    BY <2>4 DEF TypeInv, SessionShape
  <2>6. PICK old \in 0 .. issued :
            session' = [s \in Sessions |->
                 IF s = issued + 1
                 THEN [user |-> u, marker |-> at.row.gen, seen |-> clock,
                       expires |-> clock + AbsoluteTimeout,
                       via |-> at.typed, revoked |-> FALSE]
                 ELSE IF s = old THEN Null ELSE session[s]]
    BY <1>1 DEF Enter
  <2>7. \A s \in Sessions : session'[s] # Null =>
              \/ s = issued + 1 /\ session'[s].user = u /\ session'[s].revoked = FALSE
              \/ s # issued + 1 /\ session'[s] = session[s]
    BY <2>6
  <2> QED
    BY <2>1, <2>3, <2>5, <2>7 DEF Opens
<1>2. CASE Enter(l) /\ ~MayEnter(l)
  BY <1>2 DEF Enter
<1>3. CASE ReadUser(l) \/ Verify(l) \/ Recheck(l)
  BY <1>3 DEF ReadUser, Verify, Recheck
<1> QED
  BY <1>1, <1>2, <1>3 DEF LoginStep

LEMMA StepAges ==
  ASSUME TypeInv, [Next]_vars
  PROVE  Opens \/ Ages(session')
<1>1. CASE UNCHANGED vars
  BY <1>1, SessionTypes DEF vars
<1>2. CASE Next
  BY <1>2, LoginOpens, SessionTypes, AgesRequest, AgesChange, AgesOther DEF Next
<1> QED
  BY <1>1, <1>2

(* No login opens a session of a user that is locked by then, also not one *)
(* whose password was verified before the lock.                            *)
THEOREM LockedStayOut == Spec => LockedNeverEnters
<1>1. TypeInv /\ [Next]_vars =>
        [\A s \in Sessions :
            session[s] = Null /\ session'[s] # Null
                => user[session'[s].user].locked <= clock]_session
  BY StepAges DEF Opens, Ages
<1> QED
  BY <1>1, TypeCorrect, PTL DEF Spec, LockedNeverEnters

(* The time of last use never moves back, in whatever order requests write *)
(* it, through password changes, logouts and purges too.                   *)
THEOREM SeenOnlyForward == Spec => SeenNeverBack
<1>1. TypeInv /\ [Next]_vars =>
        [\A s \in Sessions :
            session[s] # Null /\ session'[s] # Null
                => session'[s].seen >= session[s].seen]_session
  <2> SUFFICES ASSUME TypeInv, [Next]_vars, NEW s \in Sessions,
                      session[s] # Null, session'[s] # Null
               PROVE  session'[s].seen >= session[s].seen
    OBVIOUS
  <2>1. session[s].seen >= session[s].seen
    BY SessionTypes DEF Ages
  <2> QED
    BY <2>1, StepAges DEF Opens, Ages
<1> QED
  BY <1>1, TypeCorrect, PTL DEF Spec, SeenNeverBack

(* A request that ends a session has found it expired in the database, or  *)
(* its user or password changed: one in use is only ever removed by a      *)
(* request that read an older marker of it.                                *)
THEOREM UsableStays == Spec => UseNeverCutOff
<1>1. ASSUME TypeInv, NEW q \in Requests, RequestStep(q),
             NEW s \in Sessions, NEW r \in Requests,
             Usable(s), session'[s] = Null, request'[r] # request[r]
      PROVE  request[r].row.marker # session[s].marker
  <2> DEFINE at == request[q]
  <2>1. q = r
    BY <1>1 DEF RequestStep, ReadSession, DeleteExpired, ReadAgain, ResolveUser, Touch,
                Answers, TypeInv, TypeOK
  <2>2. session[s] \in SessionRows /\ session[s] # Null
    BY <1>1, SessionTypes DEF Usable
  <2>3. at.pc # "idle" => RequestRead(at, session, issued, clock)
    BY <1>1 DEF TypeInv, RequestShape
  <2>4. ~(ReadSession(q) \/ ReadAgain(q))
    BY <1>1, <2>2 DEF ReadSession, ReadAgain
  <2>5. ~Touch(q)
    <3>1. ASSUME Touch(q) PROVE FALSE
      <4>1. ASSUME NEW row \in SessionRows, NEW now \in Times
            PROVE  Touched(row, now) # Null
        <5>1. [row EXCEPT !.seen = now] \in SessionRows
          BY DEF SessionRows
        <5> QED
          BY <5>1, NullAssumption DEF Touched
      <4>2. at.now \in Times
        BY <1>1, <2>3, <3>1, ConstantTypes DEF RequestRead, Touch, TypeInv, TypeOK
      <4> QED
        BY <1>1, <2>2, <3>1, <4>1, <4>2, SessionTypes DEF Touch
    <3> QED
      BY <3>1
  <2>6. ~DeleteExpired(q)
    <3>1. ASSUME DeleteExpired(q) PROVE FALSE
      <4>1. s = at.id /\ Expired(session[s], at.now) /\ at.now \in 1 .. clock
        BY <1>1, <2>2, <2>3, <3>1, SessionTypes DEF DeleteExpired, StillExpired, RequestRead
      <4>2. Expired(session[s], clock)
        <5>1. session[s].seen \in Int /\ session[s].expires \in Int
          BY <2>2, ConstantTypes DEF SessionRows, Times
        <5>2. clock \in Int /\ IdleTimeout \in Int
          BY <1>1, SessionTypes, ConstantTypes
        <5>3. at.now \in Int /\ at.now <= clock
          BY <4>1, <5>2
        <5> QED
          BY <4>1, <5>1, <5>2, <5>3 DEF Expired
      <4> QED
        BY <1>1, <4>2 DEF Usable
    <3> QED
      BY <3>1
  <2>7. CASE ResolveUser(q)
    <3>1. s = at.id /\ ~Accepts(at.row) /\ at.pc = "user"
      BY <1>1, <2>2, <2>7, SessionTypes DEF ResolveUser
    <3>2. at.row.user = session[s].user
      BY <2>2, <2>3, <3>1 DEF RequestRead
    <3> QED
      BY <1>1, <2>1, <3>1, <3>2 DEF Usable, Accepts
  <2> QED
    BY <1>1, <2>4, <2>5, <2>6, <2>7 DEF RequestStep
<1>2. ASSUME Next, \A q \in Requests : ~RequestStep(q) PROVE UNCHANGED request
  <2>1. \A l \in Logins : LoginStep(l) => UNCHANGED request
    BY SMTT(30) DEF LoginStep, ReadUser, Verify, Recheck, Enter
  <2>2. \A c \in Changers : ChangeStep(c) => UNCHANGED request
    BY DEF ChangeStep, BeginOwnPassword, OwnPassword, BeginUnlock, EndUnlock, CliRevoke,
           CliActivate, CountAdmins, WriteChange
  <2> QED
    BY <1>2, <2>1, <2>2
       DEF Next, Logout, ResetPassword, CliUnlock, RevokeSessions, PurgeExpiredSessions, Tick
<1>3. TypeInv /\ [Next]_vars =>
        [\A s \in Sessions, r \in Requests :
            Usable(s) /\ session'[s] = Null /\ request'[r] # request[r]
                => request[r].row.marker # session[s].marker]_<<session, request>>
  BY <1>1, <1>2 DEF vars
<1> QED
  BY <1>3, TypeCorrect, PTL DEF Spec, UseNeverCutOff

-----------------------------------------------------------------------------
(* Revocation where a transaction that has written excludes other writers. *)

Unmarked(rows) == \A s \in Sessions : rows[s] # Null => rows[s].revoked = FALSE
Clean == Unmarked(session) /\ \A c \in Changers : change[c].pc # "activate"

LEMMA CleanFrame ==
  ASSUME Clean, UNCHANGED <<session, change>>
  PROVE  Clean'
BY DEF Clean, Unmarked

(* A deletion leaves nothing of the user that could be marked.             *)
LEMMA RevokingUnmarks ==
  ASSUME Unmarked(session), NEW u, NEW keep
  PROVE  /\ Unmarked(Revoked(u, keep))
         /\ \A s \in Sessions :
               (s # keep \/ session[s] = Null \/ session[s].user # u)
               => MarkRevoked(Revoked(u, keep), u)[s] = Revoked(u, keep)[s]
BY DEF Unmarked, Revoked, MarkRevoked

LEMMA RevokedUnmarked ==
  ASSUME Unmarked(session), NEW u
  PROVE  Unmarked(MarkRevoked(Revoked(u, 0), u))
<1>1. \A s \in Sessions : s # 0
  BY ConstantTypes DEF Sessions
<1>2. \A s \in Sessions : MarkRevoked(Revoked(u, 0), u)[s] = Revoked(u, 0)[s]
  BY <1>1, RevokingUnmarks
<1>3. Unmarked(Revoked(u, 0))
  BY RevokingUnmarks
<1> QED
  BY <1>2, <1>3 DEF Unmarked

LEMMA PasswordUnmarked ==
  ASSUME TypeInv, Unmarked(session), NEW u, NEW keep, SetPassword(u, keep)
  PROVE  Unmarked(session')
<1> DEFINE gen == user[u].gen + 1
<1>1. session' = [s \in Sessions |->
          IF s = keep /\ session[s] # Null /\ session[s].user = u
          THEN [session[s] EXCEPT !.marker = gen, !.via = gen]
          ELSE MarkRevoked(Revoked(u, keep), u)[s]]
  BY DEF SetPassword
<1> HIDE DEF gen
<1>2. \A s \in Sessions : session[s] # Null =>
          [session[s] EXCEPT !.marker = gen, !.via = gen].revoked = FALSE
  BY SessionTypes, SessionEdits DEF Unmarked
<1>3. Unmarked(Revoked(u, keep))
  BY RevokingUnmarks
<1>4. ASSUME NEW s \in Sessions, s # keep \/ session[s] = Null \/ session[s].user # u
      PROVE  MarkRevoked(Revoked(u, keep), u)[s] = Revoked(u, keep)[s]
  BY <1>4, RevokingUnmarks
<1> QED
  BY <1>1, <1>2, <1>3, <1>4 DEF Unmarked

LEMMA CleanRequest ==
  ASSUME TypeInv, Clean, NEW r \in Requests, RequestStep(r)
  PROVE  Clean'
<1> DEFINE at == request[r]
<1>1. CASE ReadSession(r) \/ ReadAgain(r)
  BY <1>1, CleanFrame DEF ReadSession, ReadAgain
<1>2. CASE DeleteExpired(r) \/ ResolveUser(r)
  BY <1>2, SessionTypes DEF DeleteExpired, ResolveUser, Clean, Unmarked
<1>3. CASE Touch(r)
  <2>1. /\ session' = IF session[at.id] = Null THEN session
                      ELSE [session EXCEPT ![at.id] = Touched(session[at.id], at.now)]
        /\ UNCHANGED change
    BY <1>3 DEF Touch
  <2>2. ASSUME NEW row \in SessionRows
        PROVE  Touched(row, at.now).revoked = row.revoked
    BY SessionEdits DEF Touched
  <2> QED
    BY <2>1, <2>2, SessionTypes DEF Clean, Unmarked
<1> QED
  BY <1>1, <1>2, <1>3 DEF RequestStep

LEMMA CleanChange ==
  ASSUME TypeInv, OneWriter, Clean, NEW c \in Changers, ChangeStep(c)
  PROVE  Clean'
<1> DEFINE u == change[c].user
<1>1. /\ change \in [Changers -> ChangeStates] /\ IdleChange \in ChangeStates
      /\ IdleChange.pc = "idle" /\ user \in [Users -> UserRows \cup {Null}]
  BY IdleTypes DEF TypeInv, TypeOK
<1>2. ASSUME NEW next, next.pc # "activate", change' = [change EXCEPT ![c] = next],
             Unmarked(session')
      PROVE  Clean'
  BY <1>1, <1>2 DEF Clean, Unmarked
<1>3. CASE BeginOwnPassword(c)
  <2>1. PICK s \in Sessions :
            change' = [change EXCEPT ![c] =
                 [pc |-> "password", user |-> session[s].user, op |-> Null,
                  row |-> user[session[s].user], keep |-> s]]
    BY <1>3 DEF BeginOwnPassword
  <2>2. Unmarked(session')
    BY <1>3 DEF BeginOwnPassword, Clean
  <2> QED
    BY <1>2, <2>1, <2>2
<1>4. CASE BeginUnlock(c)
  <2>1. PICK v \in Users :
            change' = [change EXCEPT ![c] =
              [IdleChange EXCEPT !.pc = "unlock", !.user = v, !.row = user[v]]]
    BY <1>4 DEF BeginUnlock
  <2> DEFINE next == [IdleChange EXCEPT !.pc = "unlock", !.user = v, !.row = user[v]]
  <2>2. next.pc = "unlock"
    BY DEF IdleChange
  <2>3. Unmarked(session')
    BY <1>4 DEF BeginUnlock, Clean
  <2> HIDE DEF next
  <2>4. change' = [change EXCEPT ![c] = next]
    BY <2>1 DEF next
  <2> QED
    BY <1>2, <2>2, <2>3, <2>4
<1>5. CASE CountAdmins(c)
  <2>1. PICK v \in Users, op \in {"promote", "demote", "enable", "disable", "delete"} :
            change' = [change EXCEPT ![c] =
              [IdleChange EXCEPT !.pc = "write", !.user = v, !.op = op]]
    BY <1>5 DEF CountAdmins
  <2> DEFINE next == [IdleChange EXCEPT !.pc = "write", !.user = v, !.op = op]
  <2>2. next.pc = "write"
    BY DEF IdleChange
  <2>3. Unmarked(session')
    BY <1>5 DEF CountAdmins, Clean
  <2> HIDE DEF next
  <2>4. change' = [change EXCEPT ![c] = next]
    BY <2>1 DEF next
  <2> QED
    BY <1>2, <2>2, <2>3, <2>4
<1>6. CASE EndUnlock(c)
  BY <1>1, <1>2, <1>6 DEF EndUnlock, Clean
<1>7. CASE OwnPassword(c)
  BY <1>1, <1>2, <1>7, PasswordUnmarked DEF OwnPassword, Clean
<1>8. CASE WriteChange(c)
  BY <1>1, <1>2, <1>8, RevokedUnmarked DEF WriteChange, RevokedBy, Clean
<1>9. ~CliRevoke(c) /\ ~CliActivate(c)
  BY DEF CliRevoke, CliActivate, Clean
<1> QED
  BY <1>3, <1>4, <1>5, <1>6, <1>7, <1>8, <1>9 DEF ChangeStep

LEMMA CleanStep ==
  ASSUME OneWriter
  PROVE  TypeInv /\ Clean /\ [Next]_vars => Clean'
<1> SUFFICES ASSUME TypeInv, Clean, [Next]_vars PROVE Clean'
  OBVIOUS
<1>1. ASSUME NEW l \in Logins, LoginStep(l) PROVE Clean'
  <2>1. Unmarked(session')
    BY <1>1, LoginOpens DEF Opens, Clean, Unmarked
  <2>2. UNCHANGED change
    BY <1>1 DEF LoginStep, ReadUser, Verify, Recheck, Enter
  <2> QED
    BY <2>1, <2>2 DEF Clean, Unmarked
<1>2. ASSUME NEW s \in Sessions, Logout(s) PROVE Clean'
  BY <1>2, SessionTypes DEF Logout, Clean, Unmarked
<1>3. ASSUME NEW u \in Users, ResetPassword(u) PROVE Clean'
  BY <1>3, PasswordUnmarked DEF ResetPassword, Clean, Unmarked
<1>4. ASSUME NEW u \in Users, CliUnlock(u) PROVE Clean'
  BY <1>4, RevokedUnmarked DEF CliUnlock, Clean, Unmarked
<1>5. ASSUME NEW u \in Users, RevokeSessions(u) PROVE Clean'
  <2>1. PICK keep : session' = Revoked(u, keep) /\ UNCHANGED change
    BY <1>5 DEF RevokeSessions
  <2>2. Unmarked(Revoked(u, keep))
    BY RevokingUnmarks DEF Clean
  <2> QED
    BY <2>1, <2>2 DEF Clean, Unmarked
<1>6. CASE PurgeExpiredSessions
  BY <1>6 DEF PurgeExpiredSessions, Clean, Unmarked
<1>7. CASE Tick \/ UNCHANGED vars
  BY <1>7, CleanFrame DEF Tick, vars
<1> QED
  BY <1>1, <1>2, <1>3, <1>4, <1>5, <1>6, <1>7, CleanRequest, CleanChange DEF Next

(* Where a transaction that has written excludes every other writer        *)
(* (SQLite), no session outlives a change of role, password or activation  *)
(* of its user, whatever login was under way: deletion and write are one.  *)
THEOREM RevokedStaysOut ==
  ASSUME OneWriter
  PROVE  Spec => []NoneRevived
<1>1. Init => Clean
  BY DEF Init, Clean, Unmarked, IdleChange
<1>2. Clean => NoneRevived
  BY DEF Clean, Unmarked, NoneRevived, Usable
<1>3. TypeInv /\ Clean /\ [Next]_vars => Clean'
  BY CleanStep
<1> QED
  BY <1>1, <1>2, <1>3, TypeCorrect, PTL DEF Spec
=============================================================================
