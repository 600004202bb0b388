---------------------------- MODULE Requests_proofs ----------------------------
(***************************************************************************)
(* Theorems about the browser's tab (BrowserTabs) and about what a request *)
(* passes before its route (RequestLimits), for any number of requests     *)
(* under way and any limits.                                               *)
(***************************************************************************)
EXTENDS BrowserTabs, RequestLimits, FiniteSetTheorems, SequenceTheorems, TLAPS

(***************************************************************************)
(* The tab.                                                                *)
(***************************************************************************)
Asking == {"check", "reconcile", "confirm", "confirm again"}
Confirming == {"confirm", "confirm again"}
Entering == {"login", "other login"}
Leaving == {"logout", "other logout"}
FlightKinds == Asking \cup Entering \cup Leaving \cup {"data", "load", "realms"}
Flight ==
    [kind : FlightKinds, session : Nat, expected : Nat, fresh : BOOLEAN, current : BOOLEAN,
     status : {"none", "200", "204", "401", "409"}, principal : Nat]
Tab ==
    [screen : {"closed", "loading", "anonymous", "error", "in"}, shown : Nat, checking : BOOLEAN,
     reconciling : BOOLEAN, pending : BOOLEAN, latest : Nat]

\* The state of the tab has its shape.
TabsShape ==
    /\ opened \in Nat /\ cookie \in 0 .. opened /\ valid \subseteq 1 .. opened
    /\ tab \in Tab /\ tab.shown \in 0 .. opened /\ (In => tab.shown # 0)
    /\ flights \in [Slots -> {NoFlight} \cup Flight]
    /\ told \in BOOLEAN /\ excused \in BOOLEAN

\* An answer says what the server found with the session that was sent, and
\* what ended since then has not come back.
AnswerTrue(m, most, live) ==
    /\ m.session \in 0 .. most /\ m.principal \in 0 .. most
    /\ m.kind \in {"data"} \cup Leaving => m.expected # 0
    /\ m.kind \in Asking \cup {"load"} =>
          /\ m.status \in {"none", "200", "401"}
          /\ m.status = "200" => m.principal = m.session /\ m.session # 0
          /\ m.status = "401" => m.session \notin live
    /\ m.kind = "data" =>
          /\ m.status \in {"none", "200", "401", "409"}
          /\ m.status = "401" => m.principal = 0
          /\ m.status \in {"200", "409"} => m.principal # 0
    /\ m.kind = "logout" => m.status \in {"none", "204", "409"} /\ (m.status = "409" => m.principal # 0)
    /\ m.kind \in Entering => m.status \in {"none", "200"} /\ (m.status = "200" => m.principal # 0)
AnswersTrue == \A c \in Slots : ~ Free(c) => AnswerTrue(flights[c], opened, valid)

\* The session that a login has opened is known to nobody before its answer.
Opening(c) == flights[c].kind \in Entering /\ flights[c].status = "200"
LoginsNew ==
    \A c \in Slots : Opening(c) =>
        /\ flights[c].principal # cookie /\ flights[c].principal # tab.shown
        /\ \A d \in Slots : ~ Free(d) =>
              /\ flights[d].session # flights[c].principal
              /\ Opening(d) /\ flights[d].principal = flights[c].principal => d = c

\* One load counts, none of a tab that is logged in, and after the tab was told
\* of the browser's session it is about that one.
CurrentLoad(c) == flights[c].kind = "load" /\ flights[c].current
LoadsTrue ==
    /\ \A c, d \in Slots : CurrentLoad(c) /\ CurrentLoad(d) => c = d
    /\ \A c \in Slots : CurrentLoad(c) => ~ In /\ (told => flights[c].session = cookie)

\* There is one check of each sort.
OneEach ==
    \A c, d \in Slots :
        /\ flights[c].kind = "reconcile" /\ flights[d].kind = "reconcile" => c = d
        /\ flights[c].kind \in Confirming /\ flights[d].kind \in Confirming => c = d

\* A check that still counts, in a tab that shows the browser's session, is about
\* that session: a session does not come back to the browser.
FreshAsk(c) == flights[c].kind \in Asking /\ flights[c].fresh
FreshTrue ==
    In /\ tab.shown = cookie => \A c \in Slots : FreshAsk(c) => flights[c].session = cookie

\* What a tab was told during a reconciliation about another session is
\* remembered, and a confirmation about another session is not alone.
ReconcilePursued ==
    In /\ told => \A c \in Slots :
        FreshAsk(c) /\ flights[c].kind = "reconcile" /\ flights[c].session # cookie
            => tab.pending /\ tab.latest = cookie
ConfirmPursued ==
    In /\ told /\ ~ excused /\ cookie \in valid => \A c \in Slots :
        FreshAsk(c) /\ flights[c].kind \in Confirming /\ flights[c].session # cookie
            => tab.reconciling

TabsInv ==
    /\ TabsShape /\ AnswersTrue /\ LoginsNew /\ LoadsTrue /\ OneEach /\ FreshTrue
    /\ ReconcilePursued /\ ConfirmPursued /\ TabsTrue

-----------------------------------------------------------------------------
(* What the operators make of the requests under way.                       *)

Flights == {NoFlight} \cup Flight

LEMMA FlightFacts ==
  ASSUME NEW m \in Flights
  PROVE  /\ m.kind = "none" => m = NoFlight
         /\ m.kind # "none" => m \in Flight
         /\ NoFlight.kind = "none" /\ NoFlight \in Flights
         /\ m.kind \in {"none"} \cup FlightKinds
<1>1. NoFlight.kind = "none"
  BY DEF NoFlight
<1>2. NoFlight \in Flights
  BY DEF Flights
<1>3. "none" \notin FlightKinds
  BY DEF FlightKinds, Asking, Entering, Leaving
<1>4. m \in Flight => m.kind \in FlightKinds
  BY DEF Flight
<1> QED
  BY <1>1, <1>2, <1>3, <1>4 DEF Flights

LEMMA SentFacts ==
  ASSUME NEW s \in Nat, NEW k \in FlightKinds, NEW x \in Nat
  PROVE  /\ SentWith(s, k, x) \in Flight /\ SentWith(s, k, x).kind = k
         /\ SentWith(s, k, x).session = s /\ SentWith(s, k, x).expected = x
         /\ SentWith(s, k, x).fresh /\ SentWith(s, k, x).current
         /\ SentWith(s, k, x).status = "none" /\ SentWith(s, k, x).principal = 0
BY DEF SentWith, Flight

\* The same request, perhaps without counting any more.
KeptAs(m, n) ==
    /\ n.kind = m.kind
    /\ m.kind # "none" =>
          /\ n.session = m.session /\ n.expected = m.expected
          /\ n.status = m.status /\ n.principal = m.principal
          /\ n.fresh => m.fresh
          /\ n.current => m.current
AgedAs(m, n) == KeptAs(m, n) /\ (m.kind # "none" => ~ n.fresh)

LEMMA StaleFacts ==
  ASSUME NEW fl \in [Slots -> Flights]
  PROVE  /\ Stale(fl) \in [Slots -> Flights]
         /\ \A d \in Slots : AgedAs(fl[d], Stale(fl)[d])
         /\ \A d \in Slots : fl[d] = NoFlight => Stale(fl)[d] = NoFlight
         /\ \A d \in Slots : fl[d].kind # "none" => (Stale(fl)[d].current <=> fl[d].current)
<1> DEFINE late(m) == [m EXCEPT !.fresh = FALSE]
<1>1. ASSUME NEW m \in Flight
      PROVE  late(m) \in Flight /\ AgedAs(m, late(m)) /\ (late(m).current <=> m.current)
  BY DEF AgedAs, KeptAs, Flight
<1>2. AgedAs(NoFlight, NoFlight) /\ NoFlight.kind = "none"
  BY FlightFacts DEF AgedAs, KeptAs, Flights
<1>3. Stale(fl) = [c \in Slots |-> IF fl[c].kind = "none" THEN NoFlight ELSE late(fl[c])]
  BY DEF Stale
<1> HIDE DEF late
<1>4. \A d \in Slots : Stale(fl)[d] = IF fl[d].kind = "none" THEN NoFlight ELSE late(fl[d])
  BY <1>3
<1>5. \A d \in Slots : fl[d].kind = "none" => fl[d] = NoFlight
  BY FlightFacts
<1>6. \A d \in Slots : fl[d].kind # "none" => fl[d] \in Flight
  BY FlightFacts
<1>7. Stale(fl) \in [Slots -> Flights]
  BY <1>1, <1>3, <1>6 DEF Flights
<1> QED
  BY <1>1, <1>2, <1>4, <1>5, <1>6, <1>7

LEMMA OutdatedFacts ==
  ASSUME NEW fl \in [Slots -> Flights]
  PROVE  /\ Outdated(fl) \in [Slots -> Flights]
         /\ \A d \in Slots : KeptAs(fl[d], Outdated(fl)[d])
         /\ \A d \in Slots : fl[d] = NoFlight => Outdated(fl)[d] = NoFlight
         /\ \A d \in Slots : fl[d].kind # "none" => ~ Outdated(fl)[d].current
<1> DEFINE late(m) == [m EXCEPT !.current = FALSE]
<1>1. ASSUME NEW m \in Flight
      PROVE  late(m) \in Flight /\ KeptAs(m, late(m)) /\ ~ late(m).current
  BY DEF KeptAs, Flight
<1>2. KeptAs(NoFlight, NoFlight) /\ NoFlight.kind = "none"
  BY FlightFacts DEF KeptAs, Flights
<1>3. Outdated(fl) = [c \in Slots |-> IF fl[c].kind = "none" THEN NoFlight ELSE late(fl[c])]
  BY DEF Outdated
<1> HIDE DEF late
<1>4. \A d \in Slots : Outdated(fl)[d] = IF fl[d].kind = "none" THEN NoFlight ELSE late(fl[d])
  BY <1>3
<1>5. \A d \in Slots : fl[d].kind = "none" => fl[d] = NoFlight
  BY FlightFacts
<1>6. \A d \in Slots : fl[d].kind # "none" => fl[d] \in Flight
  BY FlightFacts
<1>7. Outdated(fl) \in [Slots -> Flights]
  BY <1>1, <1>3, <1>6 DEF Flights
<1> QED
  BY <1>1, <1>2, <1>4, <1>5, <1>6, <1>7

-----------------------------------------------------------------------------
(* What a step does to the requests under way.                              *)

Gone(e) == flights'[e] = NoFlight
Kept(e) == KeptAs(flights[e], flights'[e])
Aged(e) == AgedAs(flights[e], flights'[e])
Asked(e) ==
    /\ flights'[e].kind \in FlightKinds /\ flights'[e].session = cookie'
    /\ flights'[e].status = "none" /\ flights'[e].principal = 0
    /\ flights'[e].kind \in {"data"} \cup Leaving => flights'[e].expected # 0
Served(e) ==
    /\ flights[e].kind # "none" /\ flights[e].status = "none" /\ flights'[e].status # "none"
    /\ flights'[e].kind = flights[e].kind /\ flights'[e].session = flights[e].session
    /\ (flights'[e].fresh <=> flights[e].fresh) /\ (flights'[e].current <=> flights[e].current)
    /\ AnswerTrue(flights'[e], opened', valid')
    /\ flights'[e].kind \in Entering => flights'[e].principal > opened

Moves ==
    /\ \A e \in Slots : Gone(e) \/ Kept(e) \/ Asked(e) \/ Served(e)
    /\ \A d, e \in Slots : Served(d) /\ Served(e) => d = e
ServerGrows ==
    /\ opened' \in Nat /\ opened <= opened' /\ valid' \subseteq 1 .. opened'
    /\ \A s \in 0 .. opened : s \in valid' => s \in valid

\* Where the session of the cookie and the one on the screen come from.
Told(e) == Opening(e) /\ Gone(e)
CookieFrom == cookie' \in {cookie, 0} \/ \E e \in Slots : Told(e) /\ cookie' = flights[e].principal
ShownFrom ==
    \/ tab'.shown \in {tab.shown, 0}
    \/ \E e \in Slots : ~ Free(e) /\ tab'.shown = flights[e].session
    \/ \E e \in Slots : Told(e) /\ tab'.shown = flights[e].principal

StepShape ==
    /\ flights' \in [Slots -> Flights] /\ tab' \in Tab /\ (In' => tab'.shown # 0)
    /\ told' \in BOOLEAN /\ excused' \in BOOLEAN
    /\ Moves /\ ServerGrows /\ CookieFrom /\ ShownFrom

\* A request that was there is known, and every id in it was handed out.
LEMMA KnownFacts ==
  ASSUME TabsShape, AnswersTrue
  PROVE  /\ opened \in Nat /\ cookie \in 0 .. opened /\ tab.shown \in 0 .. opened
         /\ \A e \in Slots : ~ Free(e) =>
               /\ flights[e] \in Flight
               /\ flights[e].session \in 0 .. opened /\ flights[e].principal \in 0 .. opened
         /\ \A e \in Slots : Opening(e) => ~ Free(e) /\ flights[e].principal # 0
<1>1. opened \in Nat /\ cookie \in 0 .. opened /\ tab.shown \in 0 .. opened
  BY DEF TabsShape
<1>2. ASSUME NEW e \in Slots, ~ Free(e)
      PROVE  /\ flights[e] \in Flight
             /\ flights[e].session \in 0 .. opened /\ flights[e].principal \in 0 .. opened
  <2>1. flights[e] \in Flights
    BY DEF TabsShape, Flights
  <2> QED
    BY <1>2, <2>1, FlightFacts DEF AnswersTrue, AnswerTrue, Free
<1>3. ASSUME NEW e \in Slots, Opening(e)
      PROVE  ~ Free(e) /\ flights[e].principal # 0
  <2>1. ~ Free(e)
    BY <1>3 DEF Opening, Free, Entering
  <2>2. AnswerTrue(flights[e], opened, valid)
    BY <2>1 DEF AnswersTrue
  <2> QED
    BY <1>3, <2>1, <2>2 DEF Opening, AnswerTrue
<1> QED
  BY <1>1, <1>2, <1>3

LEMMA ShapeStep ==
  ASSUME TabsShape, AnswersTrue, StepShape
  PROVE  TabsShape' /\ cookie' \in 0 .. opened /\ tab'.shown \in 0 .. opened
<1>1. cookie' \in 0 .. opened
  <2>1. CASE cookie' \in {cookie, 0}
    BY <2>1 DEF TabsShape
  <2>2. CASE \E e \in Slots : Told(e) /\ cookie' = flights[e].principal
    BY <2>2, KnownFacts DEF Told
  <2> QED
    BY <2>1, <2>2 DEF StepShape, CookieFrom
<1>2. tab'.shown \in 0 .. opened
  <2>1. CASE tab'.shown \in {tab.shown, 0}
    BY <2>1 DEF TabsShape
  <2>2. CASE \E e \in Slots : ~ Free(e) /\ tab'.shown = flights[e].session
    BY <2>2, KnownFacts
  <2>3. CASE \E e \in Slots : Told(e) /\ tab'.shown = flights[e].principal
    BY <2>3, KnownFacts DEF Told
  <2> QED
    BY <2>1, <2>2, <2>3 DEF StepShape, ShownFrom
<1>3. opened \in Nat /\ opened' \in Nat /\ opened <= opened' /\ valid' \subseteq 1 .. opened'
  BY DEF TabsShape, StepShape, ServerGrows
<1>4. cookie' \in 0 .. opened' /\ tab'.shown \in 0 .. opened'
  BY <1>1, <1>2, <1>3
<1> QED
  BY <1>1, <1>2, <1>3, <1>4 DEF TabsShape, StepShape, Flights

LEMMA AnswersStep ==
  ASSUME TabsShape, AnswersTrue, StepShape
  PROVE  AnswersTrue'
<1> SUFFICES ASSUME NEW e \in Slots, flights'[e].kind # "none"
             PROVE  AnswerTrue(flights'[e], opened', valid')
  BY DEF AnswersTrue, Free
<1>1. opened \in Nat /\ opened' \in Nat /\ opened <= opened'
  BY DEF TabsShape, StepShape, ServerGrows
<1>2. Gone(e) \/ Kept(e) \/ Asked(e) \/ Served(e)
  BY DEF StepShape, Moves
<1>3. CASE Gone(e)
  BY <1>3, FlightFacts DEF Gone, Flights
<1>4. CASE Kept(e)
  <2>1. flights[e].kind # "none" /\ flights'[e].kind = flights[e].kind
    BY <1>4 DEF Kept, KeptAs
  <2>2. AnswerTrue(flights[e], opened, valid)
    BY <2>1 DEF AnswersTrue, Free
  <2>3. /\ flights'[e].session = flights[e].session /\ flights'[e].expected = flights[e].expected
        /\ flights'[e].status = flights[e].status /\ flights'[e].principal = flights[e].principal
    BY <1>4, <2>1 DEF Kept, KeptAs
  <2>4. flights[e].session \in 0 .. opened /\ flights[e].principal \in 0 .. opened
    BY <2>2 DEF AnswerTrue
  <2>5. flights[e].session \in 0 .. opened' /\ flights[e].principal \in 0 .. opened'
    BY <1>1, <2>4
  <2>6. flights[e].session \notin valid => flights[e].session \notin valid'
    BY <2>4 DEF StepShape, ServerGrows
  <2> QED
    BY <2>1, <2>2, <2>3, <2>5, <2>6 DEF AnswerTrue
<1>5. CASE Asked(e)
  <2>1. cookie' \in 0 .. opened' /\ 0 \in 0 .. opened'
    BY ShapeStep, <1>1 DEF TabsShape
  <2> QED
    BY <1>5, <2>1 DEF Asked, AnswerTrue
<1>6. CASE Served(e)
  BY <1>6 DEF Served
<1> QED
  BY <1>2, <1>3, <1>4, <1>5, <1>6

\* An answer of a login that is on its way was on its way before, or has just
\* been sent with a session that nobody could know.
LEMMA OpeningFacts ==
  ASSUME TabsShape, AnswersTrue, StepShape, NEW e \in Slots, Opening(e)'
  PROVE  \/ Kept(e) /\ Opening(e) /\ flights'[e].principal = flights[e].principal
         \/ Served(e) /\ flights'[e].principal \in Nat /\ flights'[e].principal > opened
<1>1. Gone(e) \/ Kept(e) \/ Asked(e) \/ Served(e)
  BY DEF StepShape, Moves
<1>2. flights'[e].kind \in Entering /\ flights'[e].status = "200"
  BY DEF Opening
<1>3. ~ Gone(e)
  BY <1>2, FlightFacts DEF Gone, Flights, Entering
<1>4. ~ Asked(e)
  BY <1>2 DEF Asked
<1>5. CASE Kept(e)
  <2>1. flights[e].kind # "none"
    BY <1>2, <1>5 DEF Kept, KeptAs, Entering
  <2> QED
    BY <1>2, <1>5, <2>1 DEF Kept, KeptAs, Opening
<1>6. CASE Served(e)
  <2>1. flights'[e].principal \in 0 .. opened'
    BY <1>6 DEF Served, AnswerTrue
  <2>2. opened' \in Nat
    BY DEF StepShape, ServerGrows
  <2> QED
    BY <1>2, <1>6, <2>1, <2>2 DEF Served
<1> QED
  BY <1>1, <1>3, <1>4, <1>5, <1>6

LEMMA LoginsStep ==
  ASSUME TabsShape, AnswersTrue, LoginsNew, StepShape
  PROVE  LoginsNew'
<1> SUFFICES ASSUME NEW e \in Slots, Opening(e)'
             PROVE  /\ flights'[e].principal # cookie' /\ flights'[e].principal # tab'.shown
                    /\ \A d \in Slots : flights'[d].kind # "none" =>
                          /\ flights'[d].session # flights'[e].principal
                          /\ Opening(d)' /\ flights'[d].principal = flights'[e].principal => d = e
  BY DEF LoginsNew, Free
<1> DEFINE p == flights'[e].principal
<1>1. opened \in Nat /\ cookie' \in 0 .. opened /\ tab'.shown \in 0 .. opened
  BY ShapeStep DEF TabsShape
<1>2. \A d \in Slots : ~ Free(d) =>
         flights[d].session \in 0 .. opened /\ flights[d].principal \in 0 .. opened
  BY KnownFacts
<1>3. \A d \in Slots : flights'[d].kind # "none" =>
         flights'[d].session = cookie' \/ (~ Free(d) /\ flights'[d].session = flights[d].session)
  <2> SUFFICES ASSUME NEW d \in Slots, flights'[d].kind # "none"
               PROVE  \/ flights'[d].session = cookie'
                      \/ ~ Free(d) /\ flights'[d].session = flights[d].session
    OBVIOUS
  <2>1. Gone(d) \/ Kept(d) \/ Asked(d) \/ Served(d)
    BY DEF StepShape, Moves
  <2> QED
    BY <2>1, FlightFacts DEF Gone, Kept, KeptAs, Asked, Served, Free, Flights
<1>4. CASE Kept(e) /\ Opening(e) /\ p = flights[e].principal
  <2>1. /\ p # cookie /\ p # tab.shown /\ p # 0 /\ p \in 0 .. opened
        /\ \A d \in Slots : ~ Free(d) =>
              flights[d].session # p /\ (Opening(d) /\ flights[d].principal = p => d = e)
    BY <1>4, KnownFacts DEF LoginsNew
  <2>2. ~ Gone(e)
    BY <1>4, FlightFacts DEF Gone, Kept, KeptAs, Opening, Entering, Flights
  <2>3. \A d \in Slots : Told(d) => flights[d].principal # p
    BY <2>1, <2>2 DEF Told, Opening, Free, Entering
  <2>4. p # cookie'
    BY <2>1, <2>3 DEF StepShape, CookieFrom
  <2>5. p # tab'.shown
    BY <2>1, <2>3 DEF StepShape, ShownFrom
  <2>6. \A d \in Slots : flights'[d].kind # "none" => flights'[d].session # p
    BY <1>3, <2>1, <2>4
  <2>7. ASSUME NEW d \in Slots, Opening(d)', flights'[d].principal = p
        PROVE  d = e
    <3>1. CASE Kept(d) /\ Opening(d) /\ flights'[d].principal = flights[d].principal
      BY <2>1, <2>7, <3>1 DEF Opening, Free, Entering
    <3>2. CASE Served(d) /\ flights'[d].principal \in Nat /\ flights'[d].principal > opened
      BY <1>1, <2>1, <2>7, <3>2
    <3> QED
      BY <2>7, <3>1, <3>2, OpeningFacts
  <2> QED
    BY <2>4, <2>5, <2>6, <2>7
<1>5. CASE Served(e) /\ p \in Nat /\ p > opened
  <2>1. p # cookie' /\ p # tab'.shown
    BY <1>1, <1>5
  <2>2. \A d \in Slots : flights'[d].kind # "none" => flights'[d].session # p
    BY <1>1, <1>2, <1>3, <1>5
  <2>3. ASSUME NEW d \in Slots, Opening(d)', flights'[d].principal = p
        PROVE  d = e
    <3>1. CASE Kept(d) /\ Opening(d) /\ flights'[d].principal = flights[d].principal
      <4>1. flights[d].principal \in 0 .. opened
        BY <3>1, KnownFacts
      <4> QED
        BY <1>1, <1>5, <2>3, <3>1, <4>1
    <3>2. CASE Served(d)
      BY <1>5, <3>2 DEF StepShape, Moves
    <3> QED
      BY <2>3, <3>1, <3>2, OpeningFacts
  <2> QED
    BY <2>1, <2>2, <2>3
<1> QED
  BY <1>4, <1>5, OpeningFacts

\* A load that counts counted before, or is the only one of a tab that opens.
Loads(e) == Asked(e) /\ ~ Kept(e) /\ flights'[e].kind = "load"
LEMMA LoadsStep ==
  ASSUME TabsShape, LoadsTrue, StepShape,
         \A e \in Slots : Loads(e) => ~ In' /\ \A d \in Slots : CurrentLoad(d)' => d = e,
         \A e \in Slots : CurrentLoad(e)' => ~ In',
         told' => cookie' = cookie /\ (told \/ In)
  PROVE  LoadsTrue'
<1>1. ASSUME NEW e \in Slots, CurrentLoad(e)'
      PROVE  Loads(e) \/ (CurrentLoad(e) /\ flights'[e].session = flights[e].session)
  <2>1. flights'[e].kind = "load" /\ flights'[e].current
    BY <1>1 DEF CurrentLoad
  <2>2. Gone(e) \/ Kept(e) \/ Asked(e) \/ Served(e)
    BY DEF StepShape, Moves
  <2>3. ~ Gone(e)
    BY <2>1, FlightFacts DEF Gone, Flights
  <2> QED
    BY <2>1, <2>2, <2>3 DEF Kept, KeptAs, Served, Loads, CurrentLoad
<1>2. ASSUME NEW e \in Slots, NEW d \in Slots, CurrentLoad(e)', CurrentLoad(d)'
      PROVE  e = d
  <2>1. CASE Loads(e) \/ Loads(d)
    BY <1>2, <2>1
  <2>2. CASE CurrentLoad(e) /\ CurrentLoad(d)
    BY <2>2 DEF LoadsTrue
  <2> QED
    BY <1>1, <1>2, <2>1, <2>2
<1>3. ASSUME NEW e \in Slots, CurrentLoad(e)', told'
      PROVE  flights'[e].session = cookie'
  <2>1. CASE Loads(e)
    BY <2>1 DEF Loads, Asked
  <2>2. CASE CurrentLoad(e) /\ flights'[e].session = flights[e].session
    BY <1>3, <2>2 DEF LoadsTrue
  <2> QED
    BY <1>1, <1>3, <2>1, <2>2
<1> QED
  BY <1>2, <1>3 DEF LoadsTrue

\* The checks that count after a step: those that counted, and those just asked.
LEMMA FreshStep ==
  ASSUME TabsShape, FreshTrue, StepShape,
         In' /\ tab'.shown = cookie' =>
            \/ In /\ tab.shown = tab'.shown /\ cookie = cookie'
            \/ \A e \in Slots : Asked(e) \/ ~ FreshAsk(e)'
  PROVE  FreshTrue'
<1> SUFFICES ASSUME In', tab'.shown = cookie', NEW e \in Slots, FreshAsk(e)'
             PROVE  flights'[e].session = cookie'
  BY DEF FreshTrue
<1>1. CASE Asked(e)
  BY <1>1 DEF Asked
<1>2. CASE ~ Asked(e) /\ In /\ tab.shown = tab'.shown /\ cookie = cookie'
  <2>1. flights'[e].kind \in Asking /\ flights'[e].fresh
    BY DEF FreshAsk
  <2>2. Gone(e) \/ Kept(e) \/ Served(e)
    BY <1>2 DEF StepShape, Moves
  <2>3. ~ Gone(e)
    BY <2>1, FlightFacts DEF Gone, Flights, Asking
  <2>4. FreshAsk(e) /\ flights'[e].session = flights[e].session
    BY <2>1, <2>2, <2>3 DEF Kept, KeptAs, Served, FreshAsk, Asking
  <2> QED
    BY <1>2, <2>4 DEF FreshTrue
<1> QED
  BY <1>1, <1>2

\* Of the requests of a sort there is one exactly when the flag is set.
OneOf(fl, K) == \A c, d \in Slots : fl[c].kind \in K /\ fl[d].kind \in K => c = d
FlagOf(fl, K, f) == f <=> \E c \in Slots : fl[c].kind \in K

Untouched(fl, gl, K, f, g) == (f <=> g) /\ \A e \in Slots : gl[e].kind \in K <=> fl[e].kind \in K
Replaced(fl, gl, K, f, g, c) ==
    /\ fl[c].kind \in K /\ g /\ gl[c].kind \in K
    /\ \A e \in Slots \ {c} : gl[e].kind \in K => fl[e].kind \in K
Started(fl, gl, K, f, g, c) ==
    /\ ~ f /\ g /\ gl[c].kind \in K
    /\ \A e \in Slots \ {c} : gl[e].kind \in K => fl[e].kind \in K
Ended(fl, gl, K, f, g, c) ==
    /\ fl[c].kind \in K /\ ~ g
    /\ \A e \in Slots : gl[e].kind \in K => e # c /\ fl[e].kind \in K
FlagStep(fl, gl, K, f, g) ==
    \/ Untouched(fl, gl, K, f, g)
    \/ \E c \in Slots : Replaced(fl, gl, K, f, g, c) \/ Started(fl, gl, K, f, g, c)
                           \/ Ended(fl, gl, K, f, g, c)

LEMMA FlagKept ==
  ASSUME NEW fl, NEW gl, NEW K, NEW f \in BOOLEAN, NEW g \in BOOLEAN,
         OneOf(fl, K), FlagOf(fl, K, f), FlagStep(fl, gl, K, f, g)
  PROVE  OneOf(gl, K) /\ FlagOf(gl, K, g)
<1>1. CASE Untouched(fl, gl, K, f, g)
  BY <1>1 DEF Untouched, OneOf, FlagOf
<1>2. ASSUME NEW c \in Slots, Replaced(fl, gl, K, f, g, c)
      PROVE  OneOf(gl, K) /\ FlagOf(gl, K, g)
  BY <1>2 DEF Replaced, OneOf, FlagOf
<1>3. ASSUME NEW c \in Slots, Started(fl, gl, K, f, g, c)
      PROVE  OneOf(gl, K) /\ FlagOf(gl, K, g)
  BY <1>3 DEF Started, OneOf, FlagOf
<1>4. ASSUME NEW c \in Slots, Ended(fl, gl, K, f, g, c)
      PROVE  OneOf(gl, K) /\ FlagOf(gl, K, g)
  BY <1>4 DEF Ended, OneOf, FlagOf
<1> QED
  BY <1>1, <1>2, <1>3, <1>4 DEF FlagStep

ReconcileFlag == FlagStep(flights, flights', {"reconcile"}, tab.reconciling, tab'.reconciling)
ConfirmFlag == FlagStep(flights, flights', Confirming, tab.checking, tab'.checking)

LEMMA FlagsStep ==
  ASSUME TabsShape, OneEach, FlagsTrue, StepShape, ReconcileFlag, ConfirmFlag
  PROVE  OneEach' /\ FlagsTrue'
<1>1. tab.reconciling \in BOOLEAN /\ tab'.reconciling \in BOOLEAN
      /\ tab.checking \in BOOLEAN /\ tab'.checking \in BOOLEAN
  BY DEF TabsShape, StepShape, Tab
<1>2. OneOf(flights, {"reconcile"}) /\ FlagOf(flights, {"reconcile"}, tab.reconciling)
  BY DEF OneEach, FlagsTrue, OneOf, FlagOf
<1>3. OneOf(flights, Confirming) /\ FlagOf(flights, Confirming, tab.checking)
  BY DEF OneEach, FlagsTrue, OneOf, FlagOf, Confirming
<1>4. OneOf(flights', {"reconcile"}) /\ FlagOf(flights', {"reconcile"}, tab'.reconciling)
  BY <1>1, <1>2, FlagKept DEF ReconcileFlag
<1>5. OneOf(flights', Confirming) /\ FlagOf(flights', Confirming, tab'.checking)
  BY <1>1, <1>3, FlagKept DEF ConfirmFlag
<1> QED
  BY <1>4, <1>5 DEF OneEach, FlagsTrue, OneOf, FlagOf, Confirming

\* No check that was sent before the step counts after it.
NoneFresh == \A e \in Slots : Asked(e) \/ ~ FreshAsk(e)'
Still == In /\ told /\ cookie' = cookie /\ tab'.shown = tab.shown
AskedAgain == \A e \in Slots : flights'[e].kind = "reconcile" => Asked(e)

ReconcileGoes ==
    In' /\ told' =>
        \/ Still /\ tab'.pending = tab.pending /\ tab'.latest = tab.latest
        \/ tab'.pending /\ tab'.latest = cookie'
        \/ NoneFresh \/ AskedAgain
        \/ tab'.shown = cookie'
ConfirmGoes ==
    In' /\ told' /\ ~ excused' /\ cookie' \in valid' =>
        \/ Still /\ ~ excused /\ (tab.reconciling => tab'.reconciling)
        \/ tab'.reconciling
        \/ NoneFresh
        \/ tab'.shown = cookie'
DifferenceGoes ==
    In' /\ told' /\ ~ excused' /\ cookie' \in valid' =>
        \/ /\ Still /\ ~ excused
           /\ (tab.reconciling \/ tab.checking => tab'.reconciling \/ tab'.checking)
        \/ tab'.reconciling \/ tab'.checking
        \/ tab'.shown = cookie'

\* A check that counts after a step without having been asked in it counted before.
LEMMA FreshBefore ==
  ASSUME TabsShape, StepShape, NEW e \in Slots, FreshAsk(e)', ~ Asked(e)
  PROVE  FreshAsk(e) /\ flights'[e].kind = flights[e].kind /\ flights'[e].session = flights[e].session
<1>1. flights'[e].kind \in Asking /\ flights'[e].fresh
  BY DEF FreshAsk
<1>2. Gone(e) \/ Kept(e) \/ Served(e)
  BY DEF StepShape, Moves
<1>3. ~ Gone(e)
  BY <1>1, FlightFacts DEF Gone, Flights, Asking
<1> QED
  BY <1>1, <1>2, <1>3 DEF Kept, KeptAs, Served, FreshAsk, Asking

LEMMA PursuedStep ==
  ASSUME TabsShape, StepShape, FreshTrue', ReconcilePursued, ConfirmPursued, DifferencePursued,
         ReconcileGoes, ConfirmGoes, DifferenceGoes
  PROVE  ReconcilePursued' /\ ConfirmPursued' /\ DifferencePursued'
<1>1. ASSUME NEW e \in Slots, FreshAsk(e)', flights'[e].session # cookie'
      PROVE  /\ ~ Asked(e) /\ FreshAsk(e)
             /\ flights'[e].kind = flights[e].kind /\ flights'[e].session = flights[e].session
  <2>1. ~ Asked(e)
    BY <1>1 DEF Asked
  <2> QED
    BY <1>1, <2>1, FreshBefore
<1>2. ASSUME In', tab'.shown = cookie', NEW e \in Slots, FreshAsk(e)'
      PROVE  flights'[e].session = cookie'
  BY <1>2 DEF FreshTrue
<1>3. ReconcilePursued'
  <2> SUFFICES ASSUME In', told', NEW e \in Slots, FreshAsk(e)', flights'[e].kind = "reconcile",
                      flights'[e].session # cookie'
               PROVE  tab'.pending /\ tab'.latest = cookie'
    BY DEF ReconcilePursued
  <2>1. CASE Still /\ tab'.pending = tab.pending /\ tab'.latest = tab.latest
    BY <1>1, <2>1 DEF ReconcilePursued, Still
  <2> QED
    BY <1>1, <1>2, <2>1 DEF ReconcileGoes, NoneFresh, AskedAgain
<1>4. cookie' = cookie /\ cookie' \in valid' => cookie \in valid
  BY DEF TabsShape, StepShape, ServerGrows
<1>5. ConfirmPursued'
  <2> SUFFICES ASSUME In', told', ~ excused', cookie' \in valid',
                      NEW e \in Slots, FreshAsk(e)', flights'[e].kind \in Confirming,
                      flights'[e].session # cookie'
               PROVE  tab'.reconciling
    BY DEF ConfirmPursued
  <2>1. CASE Still /\ ~ excused /\ (tab.reconciling => tab'.reconciling)
    BY <1>1, <1>4, <2>1 DEF ConfirmPursued, Still
  <2> QED
    BY <1>1, <1>2, <2>1 DEF ConfirmGoes, NoneFresh
<1>6. DifferencePursued'
  BY <1>4 DEF DifferenceGoes, DifferencePursued, Still
<1> QED
  BY <1>3, <1>5, <1>6

LoadsGo ==
    /\ \A e \in Slots : Loads(e) => ~ In' /\ \A d \in Slots : CurrentLoad(d)' => d = e
    /\ \A e \in Slots : CurrentLoad(e)' => ~ In'
    /\ told' => cookie' = cookie /\ (told \/ In)
FreshGoes ==
    In' /\ tab'.shown = cookie' =>
        (In /\ tab.shown = tab'.shown /\ cookie = cookie') \/ NoneFresh
ScreenGoes == ~ wronged' /\ (In' => shownData' \subseteq {tab'.shown})

\* What a step has to be to keep the invariant.
GoodStep ==
    /\ StepShape /\ LoadsGo /\ FreshGoes /\ ReconcileFlag /\ ConfirmFlag
    /\ ReconcileGoes /\ ConfirmGoes /\ DifferenceGoes /\ ScreenGoes

LEMMA InvStep ==
  ASSUME TabsInv, GoodStep
  PROVE  TabsInv'
<1> USE DEF TabsInv, GoodStep
<1>1. TabsShape' /\ AnswersTrue' /\ LoginsNew'
  BY ShapeStep, AnswersStep, LoginsStep
<1>2. LoadsTrue'
  BY LoadsStep DEF LoadsGo
<1>3. OneEach' /\ FlagsTrue'
  BY FlagsStep DEF TabsTrue
<1>4. FreshTrue'
  BY FreshStep DEF FreshGoes, NoneFresh
<1>5. ReconcilePursued' /\ ConfirmPursued' /\ DifferencePursued'
  BY <1>4, PursuedStep DEF TabsTrue
<1>6. ChangedAsShown' /\ OnlyShownData'
  BY DEF ScreenGoes, ChangedAsShown, OnlyShownData
<1> QED
  BY <1>1, <1>2, <1>3, <1>4, <1>5, <1>6 DEF TabsTrue

\* All but the request in c are as they were, or no longer count.
KeptAt(c) == flights' \in [Slots -> Flights] /\ \A d \in Slots \ {c} : Kept(d)
SameAt(c) == KeptAt(c) /\ \A d \in Slots \ {c} : flights'[d] = flights[d]
AgedAt(c) == KeptAt(c) /\ \A d \in Slots \ {c} : Aged(d)

LEMMA SameFacts ==
  ASSUME TabsShape, NEW c \in Slots, NEW n \in Flights, flights' = [flights EXCEPT ![c] = n]
  PROVE  SameAt(c) /\ flights'[c] = n
<1>1. flights \in [Slots -> Flights]
  BY DEF TabsShape, Flights
<1>2. flights' \in [Slots -> Flights] /\ flights'[c] = n
      /\ \A d \in Slots \ {c} : flights'[d] = flights[d]
  BY <1>1
<1>3. \A d \in Slots \ {c} : Kept(d)
  BY <1>2 DEF Kept, KeptAs
<1> QED
  BY <1>2, <1>3 DEF SameAt, KeptAt

LEMMA MovesAt ==
  ASSUME NEW c \in Slots, KeptAt(c), Gone(c) \/ Asked(c) \/ Served(c)
  PROVE  Moves
<1>1. \A e \in Slots \ {c} : ~ Served(e)
  BY DEF KeptAt, Kept, KeptAs, Served
<1> QED
  BY <1>1 DEF Moves, KeptAt

\* The flag of a sort, by what becomes of one request.
LEMMA FlagAt ==
  ASSUME TabsShape, NEW c \in Slots, KeptAt(c), NEW K, NEW f, NEW g,
         \/ (f <=> g) /\ flights[c].kind \notin K /\ flights'[c].kind \notin K
         \/ g /\ flights[c].kind \in K /\ flights'[c].kind \in K
         \/ ~ f /\ g /\ flights'[c].kind \in K
         \/ ~ g /\ flights[c].kind \in K /\ flights'[c].kind \notin K
  PROVE  FlagStep(flights, flights', K, f, g)
<1>1. \A e \in Slots \ {c} : flights'[e].kind = flights[e].kind
  BY DEF KeptAt, Kept, KeptAs
<1>2. CASE (f <=> g) /\ flights[c].kind \notin K /\ flights'[c].kind \notin K
  BY <1>1, <1>2 DEF FlagStep, Untouched
<1>3. CASE g /\ flights[c].kind \in K /\ flights'[c].kind \in K
  BY <1>1, <1>3 DEF FlagStep, Replaced
<1>4. CASE ~ f /\ g /\ flights'[c].kind \in K
  BY <1>1, <1>4 DEF FlagStep, Started
<1>5. CASE ~ g /\ flights[c].kind \in K /\ flights'[c].kind \notin K
  BY <1>1, <1>5 DEF FlagStep, Ended
<1> QED
  BY <1>2, <1>3, <1>4, <1>5

-----------------------------------------------------------------------------
(* Steps of the server, and requests sent: the tab is as it was.            *)

TabStays ==
    /\ tab' = tab /\ cookie' = cookie /\ told' = told /\ excused' = excused
    /\ shownData' = shownData /\ ~ wronged'

LEMMA StillStep ==
  ASSUME TabsInv, NEW c \in Slots, SameAt(c), TabStays, ServerGrows,
         Served(c) \/ (Free(c) /\ Asked(c) /\ flights'[c].kind \notin
                                   {"load", "reconcile", "confirm", "confirm again"})
  PROVE  GoodStep
<1>1. In' <=> In
  BY DEF TabStays, In
<1>2. StepShape
  <2>1. Moves
    BY MovesAt DEF SameAt
  <2>2. CookieFrom /\ ShownFrom
    BY DEF TabStays, CookieFrom, ShownFrom
  <2> QED
    BY <1>1, <2>1, <2>2 DEF StepShape, SameAt, KeptAt, TabStays, TabsInv, TabsShape
<1>3. \A e \in Slots : CurrentLoad(e)' => CurrentLoad(e)
  <2>1. \A e \in Slots \ {c} : CurrentLoad(e)' => CurrentLoad(e)
    BY DEF SameAt, CurrentLoad
  <2>2. CurrentLoad(c)' => CurrentLoad(c)
    BY DEF Served, CurrentLoad
  <2> QED
    BY <2>1, <2>2
<1>4. \A e \in Slots : ~ Loads(e)
  <2>1. \A e \in Slots \ {c} : ~ Loads(e)
    BY DEF SameAt, KeptAt, Loads
  <2>2. ~ Loads(c)
    BY DEF Loads, Served, Asked
  <2> QED
    BY <2>1, <2>2
<1>5. LoadsGo
  BY <1>1, <1>3, <1>4 DEF LoadsGo, TabStays, TabsInv, LoadsTrue
<1>6. (flights[c].kind \in {"reconcile"}) <=> (flights'[c].kind \in {"reconcile"})
  BY DEF Served, Free, Asked
<1>7. (flights[c].kind \in Confirming) <=> (flights'[c].kind \in Confirming)
  BY DEF Served, Free, Asked, Confirming
<1>8. tab.reconciling <=> \E e \in Slots : flights[e].kind = "reconcile"
  BY DEF TabsInv, TabsTrue, FlagsTrue
<1>9. tab.checking <=> \E e \in Slots : flights[e].kind \in Confirming
  BY DEF TabsInv, TabsTrue, FlagsTrue, Confirming
<1>10. ReconcileFlag
  BY <1>6, <1>8, FlagAt DEF ReconcileFlag, TabStays, TabsInv, SameAt
<1>11. ConfirmFlag
  BY <1>7, <1>9, FlagAt DEF ConfirmFlag, TabStays, TabsInv, SameAt
<1>12. FreshGoes /\ ScreenGoes
  BY <1>1 DEF FreshGoes, ScreenGoes, TabStays, TabsInv, TabsTrue, OnlyShownData
<1>13. ReconcileGoes /\ ConfirmGoes /\ DifferenceGoes
  BY <1>1 DEF ReconcileGoes, ConfirmGoes, DifferenceGoes, Still, TabStays
<1> QED
  BY <1>2, <1>5, <1>10, <1>11, <1>12, <1>13 DEF GoodStep

\* What is known of the request that a step looks at.
LEMMA AtFacts ==
  ASSUME TabsInv, NEW c \in Slots, flights[c].kind # "none"
  PROVE  \E m \in Flight :
            /\ m = flights[c] /\ AnswerTrue(m, opened, valid)
            /\ m.session \in Nat /\ m.principal \in Nat /\ m.expected \in Nat
<1>1. flights[c] \in Flights
  BY DEF TabsInv, TabsShape, Flights
<1>2. PICK m \in Flight : m = flights[c]
  BY <1>1, FlightFacts
<1>3. AnswerTrue(m, opened, valid)
  BY <1>2 DEF TabsInv, AnswersTrue, Free
<1>4. m.session \in Nat /\ m.principal \in Nat /\ m.expected \in Nat
  BY DEF Flight
<1> QED
  BY <1>2, <1>3, <1>4

Answered(m, n, status, principal) ==
    /\ n.kind = m.kind /\ n.session = m.session /\ n.expected = m.expected
    /\ (n.fresh <=> m.fresh) /\ (n.current <=> m.current)
    /\ n.status = status /\ n.principal = principal

LEMMA AnswerFacts ==
  ASSUME NEW m \in Flight, NEW status \in {"200", "204", "401", "409"}, NEW principal \in Nat,
         NEW n, n = Answer(m, status, principal)
  PROVE  n \in Flight /\ Answered(m, n, status, principal)
BY DEF Answer, Flight, Answered

LEMMA ServedStep ==
  ASSUME TabsInv, NEW c \in Slots, NEW m \in Flight, m = flights[c], m.kind # "none", m.status = "none",
         NEW status \in {"200", "204", "401", "409"}, NEW principal \in Nat,
         flights' = [flights EXCEPT ![c] = Answer(m, status, principal)],
         \A n : Answered(m, n, status, principal) => AnswerTrue(n, opened', valid'),
         m.kind \in Entering => principal > opened,
         ServerGrows, TabStays
  PROVE  GoodStep
<1>1. PICK n : n = Answer(m, status, principal)
  OBVIOUS
<1>2. n \in Flight /\ Answered(m, n, status, principal)
  BY <1>1, AnswerFacts
<1>3. AnswerTrue(n, opened', valid')
  BY <1>2
<1>4. n \in Flights /\ flights' = [flights EXCEPT ![c] = n]
  BY <1>1, <1>2 DEF Flights
<1>5. SameAt(c) /\ flights'[c] = n
  BY <1>4, SameFacts DEF TabsInv
<1>6. /\ n.kind = m.kind /\ n.session = m.session /\ (n.fresh <=> m.fresh)
      /\ (n.current <=> m.current) /\ n.status # "none" /\ n.principal = principal
  BY <1>2 DEF Answered
<1>7. Served(c)
  BY <1>3, <1>5, <1>6 DEF Served
<1> QED
  BY <1>5, <1>7, StillStep

\* The server drops sessions and opens one under the next number.
LEMMA SessionsKept ==
  ASSUME TabsInv, opened' = opened, valid' \subseteq valid
  PROVE  ServerGrows
BY DEF TabsInv, TabsShape, ServerGrows

LEMMA ServeApiStep ==
  ASSUME TabsInv, NEW c \in Slots, ServeApi(c)
  PROVE  GoodStep
<1>1. flights[c].kind = "data" /\ flights[c].status = "none"
  BY DEF ServeApi
<1>2. PICK m \in Flight :
         /\ m = flights[c] /\ AnswerTrue(m, opened, valid)
         /\ m.session \in Nat /\ m.principal \in Nat /\ m.expected \in Nat
  BY <1>1, AtFacts
<1>3. m.kind = "data" /\ m.status = "none" /\ m.expected # 0 /\ m.session \in 0 .. opened
  BY <1>1, <1>2 DEF AnswerTrue
<1>4. /\ opened' = opened /\ valid' = valid /\ tab' = tab /\ cookie' = cookie
      /\ shownData' = shownData /\ told' = told /\ excused' = excused
  BY DEF ServeApi
<1>5. ServerGrows
  BY <1>4, SessionsKept
<1>6. m.session \in valid => m.session # 0
  BY DEF TabsInv, TabsShape
<1>7. ~ wronged /\ opened \in Nat
  BY DEF TabsInv, TabsTrue, ChangedAsShown, TabsShape
<1>8. flights' = [flights EXCEPT ![c] =
                    IF m.session \notin valid THEN Answer(m, "401", 0)
                    ELSE IF Switched(m) THEN Answer(m, "409", m.session)
                    ELSE Answer(m, "200", m.session)]
  BY <1>2 DEF ServeApi
<1>9. wronged' <=> (wronged \/ (flights'[c].status = "200" /\ m.session # m.expected))
  BY <1>2 DEF ServeApi
<1>10. ASSUME NEW status \in {"200", "204", "401", "409"}, NEW principal \in Nat,
              flights' = [flights EXCEPT ![c] = Answer(m, status, principal)]
       PROVE  flights'[c].status = status
  <2>1. PICK n : n = Answer(m, status, principal)
    OBVIOUS
  <2>2. n \in Flight /\ n.status = status
    BY <2>1, AnswerFacts DEF Answered
  <2>3. flights' = [flights EXCEPT ![c] = n] /\ n \in Flights
    BY <1>10, <2>1, <2>2 DEF Flights
  <2>4. flights'[c] = n
    BY <2>3, SameFacts DEF TabsInv
  <2> QED
    BY <2>2, <2>4
<1>11. CASE m.session \notin valid
  <2>1. flights' = [flights EXCEPT ![c] = Answer(m, "401", 0)]
    BY <1>8, <1>11
  <2>2. \A n : Answered(m, n, "401", 0) => AnswerTrue(n, opened', valid')
    BY <1>3, <1>4, <1>7 DEF Answered, AnswerTrue, Asking, Entering, Leaving
  <2>3. TabStays
    BY <1>4, <1>7, <1>9, <1>10, <2>1 DEF TabStays
  <2> QED
    BY <1>2, <1>3, <1>5, <2>1, <2>2, <2>3, ServedStep DEF Entering
<1>12. CASE m.session \in valid /\ Switched(m)
  <2>1. flights' = [flights EXCEPT ![c] = Answer(m, "409", m.session)]
    BY <1>8, <1>12
  <2>2. \A n : Answered(m, n, "409", m.session) => AnswerTrue(n, opened', valid')
    BY <1>3, <1>4, <1>6, <1>7, <1>12 DEF Answered, AnswerTrue, Asking, Entering, Leaving
  <2>3. TabStays
    BY <1>2, <1>4, <1>7, <1>9, <1>10, <2>1 DEF TabStays
  <2> QED
    BY <1>2, <1>3, <1>5, <2>1, <2>2, <2>3, ServedStep DEF Entering
<1>13. CASE m.session \in valid /\ ~ Switched(m)
  <2>1. flights' = [flights EXCEPT ![c] = Answer(m, "200", m.session)]
    BY <1>8, <1>13
  <2>2. \A n : Answered(m, n, "200", m.session) => AnswerTrue(n, opened', valid')
    BY <1>3, <1>4, <1>6, <1>7, <1>13 DEF Answered, AnswerTrue, Asking, Entering, Leaving
  <2>3. m.session = m.expected
    BY <1>3, <1>13 DEF Switched
  <2>4. TabStays
    BY <1>4, <1>7, <1>9, <2>3 DEF TabStays
  <2> QED
    BY <1>2, <1>3, <1>5, <2>1, <2>2, <2>4, ServedStep DEF Entering
<1> QED
  BY <1>11, <1>12, <1>13

LEMMA ServeMeStep ==
  ASSUME TabsInv, NEW c \in Slots, ServeMe(c)
  PROVE  GoodStep
<1>1. flights[c].kind \in Asking \cup {"load", "realms"} /\ flights[c].status = "none"
  BY DEF ServeMe, Asking
<1>2. PICK m \in Flight :
         /\ m = flights[c] /\ AnswerTrue(m, opened, valid)
         /\ m.session \in Nat /\ m.principal \in Nat /\ m.expected \in Nat
  BY <1>1, AtFacts DEF Asking
<1>3. m.kind \in Asking \cup {"load", "realms"} /\ m.status = "none" /\ m.session \in 0 .. opened
  BY <1>1, <1>2 DEF AnswerTrue
<1>4. /\ opened' = opened /\ valid' = valid /\ tab' = tab /\ cookie' = cookie
      /\ shownData' = shownData /\ told' = told /\ excused' = excused /\ wronged' = wronged
  BY DEF ServeMe
<1>5. ServerGrows
  BY <1>4, SessionsKept
<1>6. m.session \in valid => m.session # 0
  BY DEF TabsInv, TabsShape
<1>7. TabStays /\ opened \in Nat
  BY <1>4 DEF TabsInv, TabsTrue, ChangedAsShown, TabsShape, TabStays
<1>8. flights' = [flights EXCEPT ![c] =
                    IF m.session \in valid \/ m.kind = "realms" THEN Answer(m, "200", m.session)
                    ELSE Answer(m, "401", 0)]
  BY <1>2 DEF ServeMe
<1>9. CASE m.session \in valid \/ m.kind = "realms"
  <2>1. flights' = [flights EXCEPT ![c] = Answer(m, "200", m.session)]
    BY <1>8, <1>9
  <2>2. \A n : Answered(m, n, "200", m.session) => AnswerTrue(n, opened', valid')
    BY <1>3, <1>4, <1>6, <1>7, <1>9 DEF Answered, AnswerTrue, Asking, Entering, Leaving
  <2> QED
    BY <1>2, <1>3, <1>5, <1>7, <2>1, <2>2, ServedStep DEF Entering, Asking
<1>10. CASE ~ (m.session \in valid \/ m.kind = "realms")
  <2>1. flights' = [flights EXCEPT ![c] = Answer(m, "401", 0)]
    BY <1>8, <1>10
  <2>2. \A n : Answered(m, n, "401", 0) => AnswerTrue(n, opened', valid')
    <3>1. m.session \in 0 .. opened' /\ 0 \in 0 .. opened' /\ m.session \notin valid'
      BY <1>3, <1>4, <1>7, <1>10
    <3>2. m.kind \notin {"data", "logout", "other logout", "login", "other login", "realms"}
      BY <1>3, <1>10 DEF Asking
    <3> QED
      BY <3>1, <3>2 DEF Answered, AnswerTrue, Entering, Leaving
  <2> QED
    BY <1>2, <1>3, <1>5, <1>7, <2>1, <2>2, ServedStep DEF Entering, Asking
<1> QED
  BY <1>9, <1>10

LEMMA ServeLogoutStep ==
  ASSUME TabsInv, NEW c \in Slots, ServeLogout(c)
  PROVE  GoodStep
<1> DEFINE refused(m) == m.session \in valid /\ Switched(m)
           status(m) == IF refused(m) THEN "409" ELSE "204"
           principal(m) == IF m.session \in valid THEN m.session ELSE 0
<1>1. flights[c].kind \in Leaving /\ flights[c].status = "none"
  BY DEF ServeLogout, Leaving
<1>2. PICK m \in Flight :
         /\ m = flights[c] /\ AnswerTrue(m, opened, valid)
         /\ m.session \in Nat /\ m.principal \in Nat /\ m.expected \in Nat
  BY <1>1, AtFacts DEF Leaving
<1>3. m.kind \in Leaving /\ m.status = "none" /\ m.session \in 0 .. opened /\ m.expected # 0
  BY <1>1, <1>2 DEF AnswerTrue
<1>4. /\ opened' = opened /\ tab' = tab /\ cookie' = cookie
      /\ shownData' = shownData /\ told' = told /\ excused' = excused
  BY DEF ServeLogout
<1>5. /\ flights' = [flights EXCEPT ![c] = Answer(m, status(m), principal(m))]
      /\ valid' = IF refused(m) THEN valid ELSE valid \ {m.session}
      /\ wronged' <=> (wronged \/ (valid' # valid /\ m.session # m.expected))
  BY <1>2 DEF ServeLogout
<1>6. ServerGrows
  BY <1>4, <1>5, SessionsKept
<1>7. m.session \in valid => m.session # 0
  BY DEF TabsInv, TabsShape
<1>8. status(m) \in {"200", "204", "401", "409"} /\ principal(m) \in Nat
  BY <1>2
<1>9. ~ wronged /\ opened \in Nat
  BY DEF TabsInv, TabsTrue, ChangedAsShown, TabsShape
<1>10. valid' # valid => m.session = m.expected
  BY <1>3, <1>5 DEF Switched
<1>11. TabStays
  BY <1>4, <1>5, <1>9, <1>10 DEF TabStays
<1>12. /\ m.session \in 0 .. opened' /\ principal(m) \in 0 .. opened'
       /\ status(m) \in {"204", "409"} /\ (status(m) = "409" => principal(m) # 0)
  BY <1>3, <1>4, <1>7, <1>9
<1> HIDE DEF status, principal
<1>13. \A n : Answered(m, n, status(m), principal(m)) => AnswerTrue(n, opened', valid')
  BY <1>3, <1>12 DEF Answered, AnswerTrue, Asking, Entering, Leaving
<1> QED
  BY <1>2, <1>3, <1>5, <1>6, <1>8, <1>11, <1>13, ServedStep DEF Entering, Leaving

LEMMA ServeLoginStep ==
  ASSUME TabsInv, NEW c \in Slots, ServeLogin(c)
  PROVE  GoodStep
<1>1. flights[c].kind \in Entering /\ flights[c].status = "none"
  BY DEF ServeLogin, Entering
<1>2. PICK m \in Flight :
         /\ m = flights[c] /\ AnswerTrue(m, opened, valid)
         /\ m.session \in Nat /\ m.principal \in Nat /\ m.expected \in Nat
  BY <1>1, AtFacts DEF Entering
<1>3. m.kind \in Entering /\ m.status = "none" /\ m.session \in 0 .. opened
  BY <1>1, <1>2 DEF AnswerTrue
<1>4. /\ opened' = opened + 1 /\ tab' = tab /\ cookie' = cookie /\ wronged' = wronged
      /\ shownData' = shownData /\ told' = told /\ excused' = excused
  BY DEF ServeLogin
<1>5. /\ flights' = [flights EXCEPT ![c] = Answer(m, "200", opened + 1)]
      /\ valid' = (valid \ {m.session}) \cup {opened + 1}
  BY <1>2 DEF ServeLogin
<1>6. TabStays /\ opened \in Nat /\ valid \subseteq 1 .. opened
  BY <1>4 DEF TabsInv, TabsTrue, ChangedAsShown, TabsShape, TabStays
<1>7. ServerGrows
  <2>1. opened' \in Nat /\ opened <= opened' /\ 1 .. opened \subseteq 1 .. opened'
        /\ opened + 1 \in 1 .. opened' /\ opened + 1 \notin 0 .. opened
    BY <1>4, <1>6
  <2> QED
    BY <1>5, <1>6, <2>1 DEF ServerGrows
<1>8. \A n : Answered(m, n, "200", opened + 1) => AnswerTrue(n, opened', valid')
  <2>1. m.session \in 0 .. opened' /\ opened + 1 \in 0 .. opened' /\ opened + 1 # 0
    BY <1>3, <1>4, <1>6
  <2> QED
    BY <1>3, <2>1 DEF Answered, AnswerTrue, Asking, Entering, Leaving
<1>9. opened + 1 \in Nat /\ opened + 1 > opened
  BY <1>6
<1> QED
  BY <1>2, <1>3, <1>5, <1>6, <1>7, <1>8, <1>9, ServedStep DEF Entering

LEMMA CookieFacts ==
  ASSUME TabsInv
  PROVE  cookie \in Nat /\ tab.shown \in Nat /\ opened \in Nat
<1>1. opened \in Nat /\ cookie \in 0 .. opened /\ tab.shown \in 0 .. opened
  BY DEF TabsInv, TabsShape
<1> QED
  BY <1>1

\* Requests sent from a tab that stays as it is.
LEMMA StartStep ==
  ASSUME TabsInv, NEW c \in Slots, NEW kind \in FlightKinds, NEW x \in Nat, Start(c, kind, x),
         kind \notin {"load", "reconcile", "confirm", "confirm again"},
         kind \in {"data"} \cup Leaving => x # 0
  PROVE  GoodStep
<1>1. PICK n : n = SentWith(cookie, kind, x)
  OBVIOUS
<1>2. cookie \in Nat
  BY CookieFacts
<1>3. /\ n \in Flight /\ n.kind = kind /\ n.session = cookie /\ n.expected = x
      /\ n.status = "none" /\ n.principal = 0
  BY <1>1, <1>2 DEF SentWith, Flight
<1>4. Free(c) /\ flights' = [flights EXCEPT ![c] = n] /\ n \in Flights
  BY <1>1, <1>3 DEF Start, Sent, Flights
<1>5. SameAt(c) /\ flights'[c] = n
  BY <1>4, SameFacts DEF TabsInv
<1>6. TabStays /\ cookie' = cookie
  BY DEF Start, TabStays, TabsInv, TabsTrue, ChangedAsShown
<1>7. ServerGrows
  BY SessionsKept DEF Start
<1>8. Asked(c)
  BY <1>3, <1>5, <1>6 DEF Asked
<1> QED
  BY <1>3, <1>4, <1>5, <1>6, <1>7, <1>8, StillStep

LEMMA StartsStep ==
  ASSUME TabsInv, NEW c \in Slots, AskRealms(c) \/ StartInTab(c) \/ StartElsewhere(c)
  PROVE  GoodStep
<1>1. tab.shown \in Nat /\ (In => tab.shown # 0) /\ opened \in Nat
  BY DEF TabsInv, TabsShape
<1>2. {"realms", "data", "logout", "check", "login", "other login", "other logout"} \subseteq FlightKinds
  BY DEF FlightKinds, Asking, Entering, Leaving
<1>3. CASE AskRealms(c)
  BY <1>2, <1>3, StartStep DEF AskRealms, Start, Leaving
<1>4. CASE StartInTab(c)
  BY <1>1, <1>2, <1>4, StartStep DEF StartInTab, Leaving
<1>5. CASE StartElsewhere(c)
  <2>1. CASE Start(c, "other login", 0)
    BY <1>2, <2>1, StartStep DEF Leaving
  <2>2. ASSUME NEW s \in 1 .. opened, Start(c, "other logout", s)
        PROVE  GoodStep
    <3>1. s \in Nat /\ s # 0
      BY <1>1
    <3> QED
      BY <1>2, <2>2, <3>1, StartStep
  <2> QED
    BY <1>5, <2>1, <2>2 DEF StartElsewhere
<1> QED
  BY <1>3, <1>4, <1>5

-----------------------------------------------------------------------------
(* Steps after which the tab shows what it showed.                          *)

Looked(C) ==
    /\ flights' \in [Slots -> Flights]
    /\ \A e \in Slots \ C : flights'[e] = flights[e]
    /\ \A e \in C : Gone(e) \/ (Asked(e) /\ flights'[e].kind # "load")

LEMMA SameScreenStep ==
  ASSUME TabsInv, NEW C \in SUBSET Slots, Looked(C),
         tab' \in Tab, tab'.screen = tab.screen, tab'.shown = tab.shown,
         ServerGrows, ~ wronged', In => shownData' \subseteq {tab.shown},
         CookieFrom, In => cookie' = cookie \/ cookie' # tab.shown,
         told' \in BOOLEAN, excused' \in BOOLEAN, told' => cookie' = cookie /\ (told \/ In),
         ReconcileFlag, ConfirmFlag, ReconcileGoes, ConfirmGoes, DifferenceGoes
  PROVE  GoodStep
<1>1. (In' <=> In) /\ (In => tab.shown # 0)
  BY DEF In, TabsInv, TabsShape
<1>2. ASSUME NEW e \in Slots \ C
      PROVE  Kept(e) /\ ~ Served(e) /\ ~ Loads(e) /\ (CurrentLoad(e)' => CurrentLoad(e))
  <2>1. flights'[e] = flights[e]
    BY DEF Looked
  <2> QED
    BY <2>1 DEF Kept, KeptAs, Served, Loads, CurrentLoad
<1>3. ASSUME NEW e \in C
      PROVE  (Gone(e) \/ Asked(e)) /\ ~ Served(e) /\ ~ Loads(e) /\ ~ CurrentLoad(e)'
  <2>1. CASE Gone(e)
    <3>1. flights'[e].kind = "none"
      BY <2>1, FlightFacts DEF Gone, Flights
    <3> QED
      BY <2>1, <3>1 DEF Served, Loads, CurrentLoad
  <2>2. CASE Asked(e) /\ flights'[e].kind # "load"
    BY <2>2 DEF Asked, Served, Loads, CurrentLoad
  <2> QED
    BY <2>1, <2>2 DEF Looked
<1>4. Moves
  BY <1>2, <1>3 DEF Moves
<1>5. StepShape
  BY <1>1, <1>4 DEF StepShape, Looked, ShownFrom
<1>6. LoadsGo
  BY <1>1, <1>2, <1>3 DEF LoadsGo, TabsInv, LoadsTrue
<1>7. FreshGoes /\ ScreenGoes
  BY <1>1 DEF FreshGoes, ScreenGoes
<1> QED
  BY <1>5, <1>6, <1>7 DEF GoodStep

LEMMA SessionEndsStep ==
  ASSUME TabsInv, NEW s, SessionEnds(s)
  PROVE  GoodStep
<1>1. ServerGrows
  BY SessionsKept DEF SessionEnds
<1>2. /\ tab' = tab /\ flights' = flights /\ cookie' = cookie /\ shownData' = shownData
      /\ wronged' = wronged /\ told' = told /\ excused' = excused
  BY DEF SessionEnds
<1>3. /\ tab \in Tab /\ flights \in [Slots -> Flights] /\ ~ wronged
      /\ told \in BOOLEAN /\ excused \in BOOLEAN /\ (In => shownData \subseteq {tab.shown})
  BY DEF TabsInv, TabsShape, TabsTrue, ChangedAsShown, OnlyShownData, Flights
<1>4. Looked({})
  BY <1>2, <1>3 DEF Looked
<1>5. ReconcileFlag /\ ConfirmFlag
  BY <1>2 DEF ReconcileFlag, ConfirmFlag, FlagStep, Untouched
<1>6. ReconcileGoes /\ ConfirmGoes /\ DifferenceGoes
  BY <1>2 DEF ReconcileGoes, ConfirmGoes, DifferenceGoes, Still, In
<1> QED
  BY <1>1, <1>2, <1>3, <1>4, <1>5, <1>6, SameScreenStep DEF CookieFrom

LEMMA DoneFacts ==
  ASSUME TabsInv, NEW c \in Slots, NEW t, Done(c, t)
  PROVE  /\ tab' = t /\ shownData' = shownData /\ Looked({c}) /\ KeptAt(c)
         /\ Gone(c) /\ flights'[c].kind = "none"
<1>1. NoFlight \in Flights /\ NoFlight.kind = "none"
  BY FlightFacts DEF Flights
<1>2. SameAt(c) /\ Gone(c)
  BY <1>1, SameFacts DEF Done, TabsInv, Gone
<1> QED
  BY <1>1, <1>2 DEF Done, Looked, SameAt, KeptAt, Gone

LEMMA FollowFacts ==
  ASSUME TabsInv, NEW c \in Slots, NEW t, cookie' \in Nat,
         NEW kind \in {"reconcile", "confirm", "confirm again"}, Follow(c, kind, t)
  PROVE  /\ tab' = t /\ shownData' = shownData /\ Looked({c}) /\ KeptAt(c)
         /\ Asked(c) /\ flights'[c].kind = kind
<1>1. PICK n : n = SentWith(cookie', kind, 0)
  OBVIOUS
<1>2. kind \in FlightKinds
  BY DEF FlightKinds, Asking
<1>3. /\ n \in Flight /\ n.kind = kind /\ n.session = cookie' /\ n.status = "none"
      /\ n.principal = 0
  BY <1>1, <1>2 DEF SentWith, Flight
<1>4. n \in Flights /\ flights' = [flights EXCEPT ![c] = n]
  BY <1>1, <1>3 DEF Flights, Follow
<1>5. SameAt(c) /\ flights'[c] = n
  BY <1>4, SameFacts DEF TabsInv
<1>6. Asked(c) /\ flights'[c].kind = kind
  BY <1>2, <1>3, <1>5 DEF Asked, Leaving
<1> QED
  BY <1>5, <1>6 DEF Follow, Looked, SameAt, KeptAt

\* The request in c is answered, or lost, and nothing comes of it.
QuietTab ==
    /\ tab' = tab /\ cookie' = cookie /\ valid' = valid /\ opened' = opened /\ ~ wronged'
    /\ told' = told /\ excused' = excused

LEMMA QuietStep ==
  ASSUME TabsInv, NEW c \in Slots, flights[c].kind \notin {"reconcile"} \cup Confirming,
         Done(c, tab), QuietTab
  PROVE  GoodStep
<1>1. /\ shownData' = shownData /\ Looked({c}) /\ KeptAt(c) /\ flights'[c].kind = "none"
  BY DoneFacts
<1>2. ServerGrows
  BY SessionsKept DEF QuietTab
<1>3. /\ tab \in Tab /\ ~ wronged
      /\ told \in BOOLEAN /\ excused \in BOOLEAN /\ (In => shownData \subseteq {tab.shown})
  BY DEF TabsInv, TabsShape, TabsTrue, ChangedAsShown, OnlyShownData
<1>4. ReconcileFlag
  BY <1>1, FlagAt DEF ReconcileFlag, QuietTab, TabsInv
<1>5. ConfirmFlag
  BY <1>1, FlagAt DEF ConfirmFlag, QuietTab, TabsInv, Confirming
<1>6. ReconcileGoes /\ ConfirmGoes /\ DifferenceGoes
  BY DEF ReconcileGoes, ConfirmGoes, DifferenceGoes, Still, In, QuietTab
<1> QED
  BY <1>1, <1>2, <1>3, <1>4, <1>5, <1>6, SameScreenStep DEF CookieFrom, QuietTab

\* The flags before a step, by the request that it looks at.
LEMMA FlagsBefore ==
  ASSUME TabsInv, NEW c \in Slots
  PROVE  /\ flights[c].kind = "reconcile" => tab.reconciling
         /\ flights[c].kind \in Confirming => tab.checking
         /\ \A e \in Slots : flights[e].kind = "reconcile" => tab.reconciling
         /\ \A e \in Slots :
               flights[c].kind = "reconcile" /\ flights[e].kind = "reconcile" => e = c
BY DEF TabsInv, TabsTrue, FlagsTrue, OneEach, Confirming

LEMMA TabFacts ==
  ASSUME TabsInv
  PROVE  /\ tab \in Tab /\ (In => tab.shown # 0) /\ ~ wronged
         /\ told \in BOOLEAN /\ excused \in BOOLEAN /\ (In => shownData \subseteq {tab.shown})
         /\ tab.reconciling \in BOOLEAN /\ tab.checking \in BOOLEAN
BY DEF TabsInv, TabsShape, TabsTrue, ChangedAsShown, OnlyShownData, Tab

\* A difference that the tab sees is checked, or kept for the check under way.
LEMMA SeenStep ==
  ASSUME TabsInv, NEW c \in Slots, flights[c].kind \notin {"reconcile"} \cup Confirming,
         NEW p \in Nat, PrincipalSeen(c, p),
         ServerGrows, ~ wronged', cookie' \in {cookie, 0},
         told' \in BOOLEAN, excused' \in BOOLEAN,
         told' => cookie' = cookie /\ (told \/ In) /\ (In => p = cookie)
  PROVE  GoodStep
<1>1. /\ tab \in Tab /\ (In => tab.shown # 0) /\ (In => shownData \subseteq {tab.shown})
      /\ tab.reconciling \in BOOLEAN /\ tab.checking \in BOOLEAN
  BY TabFacts
<1>2. CookieFrom /\ (In => cookie' = cookie \/ cookie' # tab.shown)
  BY <1>1 DEF CookieFrom
<1>3. cookie' \in Nat
  BY CookieFacts
<1>4. CASE ~ In
  <2>1. Done(c, tab)
    BY <1>4 DEF PrincipalSeen
  <2>2. /\ tab' = tab /\ shownData' = shownData /\ Looked({c}) /\ KeptAt(c) /\ flights'[c].kind = "none"
    BY <2>1, DoneFacts
  <2>3. ReconcileFlag
    BY <2>2, FlagAt DEF ReconcileFlag, TabsInv
  <2>4. ConfirmFlag
    BY <2>2, FlagAt DEF ConfirmFlag, TabsInv, Confirming
  <2>5. ~ In' /\ ReconcileGoes /\ ConfirmGoes /\ DifferenceGoes
    BY <1>4, <2>2 DEF ReconcileGoes, ConfirmGoes, DifferenceGoes, In
  <2> QED
    BY <1>1, <1>2, <1>4, <2>2, <2>3, <2>4, <2>5, SameScreenStep
<1>5. CASE In /\ p = tab.shown
  <2>1. PICK t : t = [tab EXCEPT !.latest = p]
    OBVIOUS
  <2>2. /\ t \in Tab /\ t.screen = tab.screen /\ t.shown = tab.shown
        /\ (t.reconciling <=> tab.reconciling) /\ (t.checking <=> tab.checking)
    BY <1>1, <2>1 DEF Tab
  <2>3. Done(c, t)
    BY <1>5, <2>1 DEF PrincipalSeen
  <2>4. /\ tab' = t /\ shownData' = shownData /\ Looked({c}) /\ KeptAt(c) /\ flights'[c].kind = "none"
    BY <2>3, DoneFacts
  <2>5. ReconcileFlag
    BY <2>2, <2>4, FlagAt DEF ReconcileFlag, TabsInv
  <2>6. ConfirmFlag
    BY <2>2, <2>4, FlagAt DEF ConfirmFlag, TabsInv, Confirming
  <2>7. ReconcileGoes /\ ConfirmGoes /\ DifferenceGoes
    BY <1>5, <2>2, <2>4 DEF ReconcileGoes, ConfirmGoes, DifferenceGoes
  <2> QED
    BY <1>1, <1>2, <2>2, <2>4, <2>5, <2>6, <2>7, SameScreenStep
<1>6. CASE In /\ p # tab.shown /\ tab.reconciling
  <2>1. PICK t : t = [[tab EXCEPT !.latest = p] EXCEPT !.pending = TRUE]
    OBVIOUS
  <2>2. /\ t \in Tab /\ t.screen = tab.screen /\ t.shown = tab.shown
        /\ (t.reconciling <=> tab.reconciling) /\ (t.checking <=> tab.checking)
        /\ t.pending /\ t.latest = p
    BY <1>1, <2>1 DEF Tab
  <2>3. Done(c, t)
    BY <1>6, <2>1 DEF PrincipalSeen
  <2>4. /\ tab' = t /\ shownData' = shownData /\ Looked({c}) /\ KeptAt(c) /\ flights'[c].kind = "none"
    BY <2>3, DoneFacts
  <2>5. ReconcileFlag
    BY <2>2, <2>4, FlagAt DEF ReconcileFlag, TabsInv
  <2>6. ConfirmFlag
    BY <2>2, <2>4, FlagAt DEF ConfirmFlag, TabsInv, Confirming
  <2>7. ReconcileGoes /\ ConfirmGoes /\ DifferenceGoes
    BY <1>6, <2>2, <2>4 DEF ReconcileGoes, ConfirmGoes, DifferenceGoes
  <2> QED
    BY <1>1, <1>2, <2>2, <2>4, <2>5, <2>6, <2>7, SameScreenStep
<1>7. CASE In /\ p # tab.shown /\ ~ tab.reconciling
  <2>1. PICK t : t = [[tab EXCEPT !.latest = p] EXCEPT !.reconciling = TRUE, !.pending = FALSE]
    OBVIOUS
  <2>2. /\ t \in Tab /\ t.screen = tab.screen /\ t.shown = tab.shown
        /\ t.reconciling /\ (t.checking <=> tab.checking)
    BY <1>1, <2>1 DEF Tab
  <2>3. Follow(c, "reconcile", t)
    BY <1>7, <2>1 DEF PrincipalSeen
  <2>4. /\ tab' = t /\ shownData' = shownData /\ Looked({c}) /\ KeptAt(c)
        /\ Asked(c) /\ flights'[c].kind = "reconcile"
    BY <1>3, <2>3, FollowFacts
  <2>5. ReconcileFlag
    BY <1>7, <2>2, <2>4, FlagAt DEF ReconcileFlag, TabsInv
  <2>6. ConfirmFlag
    BY <2>2, <2>4, FlagAt DEF ConfirmFlag, TabsInv, Confirming
  <2>7. AskedAgain
    BY <1>7, <2>4, FlagsBefore DEF AskedAgain, Looked
  <2>8. ReconcileGoes /\ ConfirmGoes /\ DifferenceGoes
    BY <2>2, <2>4, <2>7 DEF ReconcileGoes, ConfirmGoes, DifferenceGoes
  <2> QED
    BY <1>1, <1>2, <2>2, <2>4, <2>5, <2>6, <2>8, SameScreenStep
<1> QED
  BY <1>1, <1>4, <1>5, <1>6, <1>7

\* An answer without a session is confirmed before anything else comes of it.
LEMMA UnauthorizedStep ==
  ASSUME TabsInv, NEW c \in Slots, flights[c].kind \notin {"reconcile"} \cup Confirming,
         Unauthorized(c, tab),
         cookie' = cookie, valid' = valid, opened' = opened, ~ wronged',
         told' = told, excused' = excused
  PROVE  GoodStep
<1>1. /\ tab \in Tab /\ (In => shownData \subseteq {tab.shown}) /\ ~ wronged
      /\ told \in BOOLEAN /\ excused \in BOOLEAN /\ tab.reconciling \in BOOLEAN
  BY TabFacts
<1>2. CASE In /\ ~ tab.checking
  <2>1. PICK t : t = [tab EXCEPT !.checking = TRUE]
    OBVIOUS
  <2>2. /\ t \in Tab /\ t.screen = tab.screen /\ t.shown = tab.shown
        /\ (t.reconciling <=> tab.reconciling) /\ t.checking
        /\ (t.pending <=> tab.pending) /\ t.latest = tab.latest
    BY <1>1, <2>1 DEF Tab
  <2>3. t.pending = tab.pending
    BY <1>1, <2>2 DEF Tab
  <2>4. Follow(c, "confirm", t)
    BY <1>2, <2>1 DEF Unauthorized
  <2>5. cookie' \in Nat
    BY CookieFacts
  <2>6. /\ tab' = t /\ shownData' = shownData /\ Looked({c}) /\ KeptAt(c)
        /\ Asked(c) /\ flights'[c].kind = "confirm"
    BY <2>4, <2>5, FollowFacts
  <2>7. ReconcileFlag
    BY <2>2, <2>6, FlagAt DEF ReconcileFlag, TabsInv
  <2>8. ConfirmFlag
    BY <1>2, <2>2, <2>6, FlagAt DEF ConfirmFlag, TabsInv, Confirming
  <2>9. ReconcileGoes /\ ConfirmGoes /\ DifferenceGoes
    BY <1>2, <2>2, <2>3, <2>6 DEF ReconcileGoes, ConfirmGoes, DifferenceGoes, Still
  <2>10. ServerGrows
    BY SessionsKept
  <2> QED
    BY <1>1, <2>2, <2>6, <2>7, <2>8, <2>9, <2>10, SameScreenStep DEF CookieFrom
<1>3. CASE ~ (In /\ ~ tab.checking)
  <2>1. Done(c, tab)
    BY <1>3 DEF Unauthorized
  <2>2. tab' = tab
    BY <2>1 DEF Done
  <2> QED
    BY <1>1, <2>1, <2>2, QuietStep DEF QuietTab
<1> QED
  BY <1>2, <1>3

\* Answers with data: handed out, refused, or a difference to check.
LEMMA ReceiveDataStep ==
  ASSUME TabsInv, NEW c \in Slots, ReceiveData(c)
  PROVE  GoodStep
<1>1. flights[c].kind = "data" /\ flights[c].status # "none"
  BY DEF ReceiveData, Arrived
<1>2. PICK m \in Flight :
         /\ m = flights[c] /\ AnswerTrue(m, opened, valid)
         /\ m.session \in Nat /\ m.principal \in Nat /\ m.expected \in Nat
  BY <1>1, AtFacts
<1>3. /\ m.status \in {"200", "401", "409"}
      /\ m.status = "401" <=> m.principal = 0
  BY <1>1, <1>2 DEF AnswerTrue
<1>4. flights[c].kind \notin {"reconcile"} \cup Confirming
  BY <1>1 DEF Confirming
<1>5. /\ cookie' = cookie /\ valid' = valid /\ opened' = opened /\ wronged' = wronged
      /\ told' = (IF In /\ m.principal # 0 THEN m.principal = cookie ELSE told)
      /\ excused' = excused
  BY <1>2 DEF ReceiveData, Notice
<1>6. /\ tab \in Tab /\ ~ wronged /\ told \in BOOLEAN /\ excused \in BOOLEAN
      /\ (In => shownData \subseteq {tab.shown})
      /\ tab.reconciling \in BOOLEAN /\ tab.checking \in BOOLEAN
  BY TabFacts
<1>7. ServerGrows
  BY <1>5, SessionsKept
<1>8. /\ told' \in BOOLEAN
      /\ told' => cookie' = cookie /\ (told \/ In)
      /\ m.principal # 0 => (told' => (In => m.principal = cookie))
  BY <1>5, <1>6
<1>9. CASE m.status = "401" /\ Unauthorized(c, tab)
  <2>1. told' = told
    BY <1>3, <1>5, <1>9
  <2> QED
    BY <1>4, <1>5, <1>6, <1>9, <2>1, UnauthorizedStep
<1>10. CASE /\ m.status = "200" /\ In /\ m.principal = tab.shown
            /\ tab' = [tab EXCEPT !.latest = m.principal]
            /\ flights' = [flights EXCEPT ![c] = NoFlight]
            /\ shownData' = shownData \cup {m.principal}
  <2>1. PICK t : t = [tab EXCEPT !.latest = m.principal]
    OBVIOUS
  <2>2. /\ t \in Tab /\ t.screen = tab.screen /\ t.shown = tab.shown
        /\ (t.reconciling <=> tab.reconciling) /\ (t.checking <=> tab.checking)
    BY <1>2, <1>6, <2>1 DEF Tab
  <2>3. NoFlight \in Flights /\ NoFlight.kind = "none"
    BY FlightFacts DEF Flights
  <2>4. SameAt(c) /\ Gone(c)
    BY <1>10, <2>3, SameFacts DEF TabsInv, Gone
  <2>5. /\ tab' = t /\ Looked({c}) /\ KeptAt(c) /\ flights'[c].kind = "none"
    BY <1>10, <2>1, <2>3, <2>4 DEF Looked, SameAt, KeptAt, Gone
  <2>6. ReconcileFlag
    BY <1>4, <2>2, <2>5, FlagAt DEF ReconcileFlag, TabsInv
  <2>7. ConfirmFlag
    BY <1>4, <2>2, <2>5, FlagAt DEF ConfirmFlag, TabsInv, Confirming
  <2>8. m.principal # 0
    BY <1>3, <1>10
  <2>9. ReconcileGoes /\ ConfirmGoes /\ DifferenceGoes
    BY <1>5, <1>8, <1>10, <2>2, <2>5, <2>8 DEF ReconcileGoes, ConfirmGoes, DifferenceGoes
  <2> QED
    BY <1>5, <1>6, <1>7, <1>8, <1>10, <2>2, <2>5, <2>6, <2>7, <2>9, SameScreenStep DEF CookieFrom
<1>11. CASE m.status # "401" /\ PrincipalSeen(c, m.principal)
  <2>1. m.principal # 0
    BY <1>3, <1>11
  <2> QED
    BY <1>2, <1>4, <1>5, <1>6, <1>7, <1>8, <1>11, <2>1, SeenStep
<1> QED
  BY <1>2, <1>9, <1>10, <1>11 DEF ReceiveData

\* A login or a logout of another tab changes the cookie under this one.
LEMMA ReceiveOtherStep ==
  ASSUME TabsInv, NEW c \in Slots, ReceiveOther(c)
  PROVE  GoodStep
<1>1. flights[c].kind \in {"other login", "other logout"} /\ flights[c].status # "none"
  BY DEF ReceiveOther, Arrived
<1>2. PICK m \in Flight :
         /\ m = flights[c] /\ AnswerTrue(m, opened, valid)
         /\ m.session \in Nat /\ m.principal \in Nat /\ m.expected \in Nat
  BY <1>1, AtFacts
<1>3. flights[c].kind \notin {"reconcile"} \cup Confirming
  BY <1>1 DEF Confirming
<1>4. Done(c, tab)
  BY DEF ReceiveOther
<1>5. /\ tab' = tab /\ shownData' = shownData /\ Looked({c}) /\ KeptAt(c) /\ Gone(c)
      /\ flights'[c].kind = "none"
  BY <1>4, DoneFacts
<1>6. /\ tab \in Tab /\ ~ wronged /\ told \in BOOLEAN /\ excused \in BOOLEAN
      /\ (In => shownData \subseteq {tab.shown}) /\ (In => tab.shown # 0)
      /\ tab.reconciling \in BOOLEAN /\ tab.checking \in BOOLEAN
  BY TabFacts
<1>7. CASE m.status = "409"
  <2>1. /\ cookie' = cookie /\ valid' = valid /\ opened' = opened /\ wronged' = wronged
        /\ told' = told /\ excused' = excused
    BY <1>2, <1>7 DEF ReceiveOther
  <2> QED
    BY <1>3, <1>4, <1>5, <1>6, <2>1, QuietStep DEF QuietTab
<1>8. CASE m.status # "409"
  <2>1. SetCookie(IF m.kind = "other login" THEN m.principal ELSE 0)
    BY <1>2, <1>8 DEF ReceiveOther
  <2>2. /\ ~ told' /\ told' \in BOOLEAN /\ excused' \in BOOLEAN
        /\ valid' = valid /\ opened' = opened /\ wronged' = wronged
        /\ cookie' = IF m.kind = "other login" THEN m.principal ELSE 0
    BY <2>1 DEF SetCookie
  <2>3. ServerGrows
    BY <2>2, SessionsKept
  <2>4. CookieFrom /\ (In => cookie' # tab.shown)
    <3>1. CASE m.kind = "other login"
      <4>1. Opening(c)
        BY <1>1, <1>2, <3>1 DEF Opening, AnswerTrue, Entering
      <4>2. m.principal # tab.shown
        BY <1>2, <4>1 DEF TabsInv, LoginsNew
      <4> QED
        BY <1>2, <1>5, <2>2, <3>1, <4>1, <4>2 DEF CookieFrom, Told
    <3>2. CASE m.kind # "other login"
      BY <1>6, <2>2, <3>2 DEF CookieFrom
    <3> QED
      BY <3>1, <3>2
  <2>5. ReconcileFlag
    BY <1>3, <1>5, FlagAt DEF ReconcileFlag, TabsInv
  <2>6. ConfirmFlag
    BY <1>3, <1>5, FlagAt DEF ConfirmFlag, TabsInv, Confirming
  <2>7. ReconcileGoes /\ ConfirmGoes /\ DifferenceGoes
    BY <2>2 DEF ReconcileGoes, ConfirmGoes, DifferenceGoes
  <2> QED
    BY <1>5, <1>6, <2>2, <2>3, <2>4, <2>5, <2>6, <2>7, SameScreenStep
<1> QED
  BY <1>7, <1>8

-----------------------------------------------------------------------------
(* Steps that change what the tab shows: no check under way counts after.   *)

LEMMA AgedScreenStep ==
  ASSUME TabsInv, NEW c \in Slots, AgedAt(c), Gone(c) \/ Asked(c),
         \A e \in Slots : CurrentLoad(e)' => ~ In',
         flights'[c].kind = "load" => ~ In' /\ \A e \in Slots : CurrentLoad(e)' => e = c,
         tab' \in Tab, In' => tab'.shown # 0, ServerGrows, ~ wronged', shownData' = {},
         CookieFrom, ShownFrom,
         told' \in BOOLEAN, excused' \in BOOLEAN, told' => cookie' = cookie /\ (told \/ In),
         ReconcileFlag, ConfirmFlag, DifferenceGoes
  PROVE  GoodStep
<1>1. Moves
  BY MovesAt DEF AgedAt
<1>2. StepShape
  BY <1>1 DEF StepShape, AgedAt, KeptAt
<1>3. \A e \in Slots : Loads(e) => e = c /\ flights'[c].kind = "load"
  BY DEF AgedAt, KeptAt, Loads
<1>4. LoadsGo
  BY <1>3 DEF LoadsGo
<1>5. NoneFresh
  <2> SUFFICES ASSUME NEW e \in Slots, FreshAsk(e)'
               PROVE  Asked(e)
    BY DEF NoneFresh
  <2>1. flights'[e].kind \in Asking /\ flights'[e].fresh
    BY DEF FreshAsk
  <2>2. CASE e = c
    <3>1. ~ Gone(c)
      BY <2>1, <2>2, FlightFacts DEF Gone, Flights, Asking
    <3> QED
      BY <2>2, <3>1
  <2>3. CASE e # c
    BY <2>1, <2>3 DEF AgedAt, Aged, AgedAs, KeptAs, Asking
  <2> QED
    BY <2>2, <2>3
<1>6. FreshGoes /\ ReconcileGoes /\ ConfirmGoes /\ ScreenGoes
  BY <1>5 DEF FreshGoes, ReconcileGoes, ConfirmGoes, ScreenGoes
<1> QED
  BY <1>2, <1>4, <1>6 DEF GoodStep

\* The two ways in which a request of earlier is left behind.
LEMMA KeptAgain ==
  ASSUME NEW m, NEW k, NEW n, KeptAs(m, k), AgedAs(k, n)
  PROVE  AgedAs(m, n)
BY DEF KeptAs, AgedAs

LEMMA LeftBehind ==
  ASSUME TabsInv, NEW c \in Slots, NEW n \in Flights, NEW fl,
         fl = [flights EXCEPT ![c] = n] \/ fl = [Outdated(flights) EXCEPT ![c] = n],
         flights' = Stale(fl)
  PROVE  /\ AgedAt(c) /\ AgedAs(n, flights'[c])
         /\ n = NoFlight => Gone(c)
         /\ fl = [Outdated(flights) EXCEPT ![c] = n] => \A e \in Slots \ {c} : ~ CurrentLoad(e)'
         /\ \A e \in Slots \ {c} : CurrentLoad(e)' => CurrentLoad(e)
<1>1. flights \in [Slots -> Flights]
  BY DEF TabsInv, TabsShape, Flights
<1>2. /\ Outdated(flights) \in [Slots -> Flights]
      /\ \A d \in Slots : KeptAs(flights[d], Outdated(flights)[d])
      /\ \A d \in Slots : flights[d].kind # "none" => ~ Outdated(flights)[d].current
  BY <1>1, OutdatedFacts
<1>3. PICK ol : ol = Outdated(flights)
  OBVIOUS
<1>4. /\ ol \in [Slots -> Flights]
      /\ \A d \in Slots : KeptAs(flights[d], ol[d])
      /\ \A d \in Slots : flights[d].kind # "none" => ~ ol[d].current
  BY <1>2, <1>3
<1>5. fl = [flights EXCEPT ![c] = n] \/ fl = [ol EXCEPT ![c] = n]
  BY <1>3
<1>6. fl \in [Slots -> Flights] /\ fl[c] = n
  BY <1>1, <1>4, <1>5
<1>7. \A d \in Slots \ {c} : KeptAs(flights[d], fl[d])
  <2>1. \A d \in Slots \ {c} : fl[d] = flights[d] \/ fl[d] = ol[d]
    BY <1>1, <1>4, <1>5
  <2>2. \A d \in Slots : KeptAs(flights[d], flights[d])
    BY DEF KeptAs
  <2> QED
    BY <1>4, <2>1, <2>2
<1>8. /\ flights' \in [Slots -> Flights]
      /\ \A d \in Slots : AgedAs(fl[d], flights'[d])
      /\ \A d \in Slots : fl[d] = NoFlight => flights'[d] = NoFlight
  BY <1>6, StaleFacts
<1>9. \A d \in Slots \ {c} : AgedAs(flights[d], flights'[d])
  BY <1>7, <1>8, KeptAgain
<1>10. AgedAt(c)
  BY <1>8, <1>9 DEF AgedAt, KeptAt, Aged, Kept, AgedAs
<1>11. \A e \in Slots \ {c} : CurrentLoad(e)' => CurrentLoad(e)
  BY <1>10 DEF AgedAt, KeptAt, Kept, KeptAs, CurrentLoad
<1>12. ASSUME fl = [Outdated(flights) EXCEPT ![c] = n], NEW e \in Slots \ {c}, CurrentLoad(e)'
       PROVE  FALSE
  <2>1. fl[e] = ol[e]
    BY <1>3, <1>4, <1>12
  <2>2. flights'[e].kind = "load" /\ flights'[e].current
    BY <1>12 DEF CurrentLoad
  <2>3. flights[e].kind = "load"
    BY <1>10, <2>2 DEF AgedAt, KeptAt, Kept, KeptAs
  <2>4. ~ ol[e].current
    BY <1>4, <2>3
  <2>5. AgedAs(ol[e], flights'[e])
    BY <1>8, <2>1
  <2> QED
    BY <2>2, <2>4, <2>5 DEF AgedAs, KeptAs
<1> QED
  BY <1>6, <1>8, <1>10, <1>11, <1>12 DEF Gone

LEMMA ShowStep ==
  ASSUME TabsInv, NEW c \in Slots, NEW t \in Tab, NEW s \in Nat,
         NEW screen \in {"closed", "loading", "anonymous", "error", "in"},
         NEW fl, \/ fl = [flights EXCEPT ![c] = NoFlight] /\ (screen = "in" => CurrentLoad(c))
                 \/ fl = [Outdated(flights) EXCEPT ![c] = NoFlight],
         Show(screen, s, fl, t),
         \/ (t.reconciling <=> tab.reconciling) /\ flights[c].kind # "reconcile"
         \/ ~ t.reconciling /\ flights[c].kind = "reconcile",
         \/ (t.checking <=> tab.checking) /\ flights[c].kind \notin Confirming
         \/ ~ t.checking /\ flights[c].kind \in Confirming,
         \/ s = 0 /\ screen # "in"
         \/ s # 0 /\ ~ Free(c) /\ s = flights[c].session
         \/ s # 0 /\ Opening(c) /\ s = flights[c].principal,
         cookie' \in {cookie, 0} \/ (Opening(c) /\ cookie' = flights[c].principal),
         ServerGrows, ~ wronged',
         told' \in BOOLEAN, excused' \in BOOLEAN, told' => cookie' = cookie /\ (told \/ In),
         screen = "in" /\ told' /\ ~ excused' /\ cookie' \in valid' =>
             t.reconciling \/ t.checking \/ s = cookie'
  PROVE  GoodStep
<1>1. NoFlight \in Flights /\ NoFlight.kind = "none"
  BY FlightFacts DEF Flights
<1>2. PICK n \in Flights : n = NoFlight
  BY <1>1
<1>3. fl = [flights EXCEPT ![c] = n] \/ fl = [Outdated(flights) EXCEPT ![c] = n]
  BY <1>2
<1>4. flights' = Stale(fl) /\ shownData' = {}
  BY DEF Show
<1>5. /\ AgedAt(c) /\ Gone(c)
      /\ \A e \in Slots \ {c} : CurrentLoad(e)' => CurrentLoad(e)
      /\ fl = [Outdated(flights) EXCEPT ![c] = NoFlight] => \A e \in Slots \ {c} : ~ CurrentLoad(e)'
  BY <1>2, <1>3, <1>4, LeftBehind
<1>6. flights'[c].kind = "none" /\ KeptAt(c)
  BY <1>1, <1>5 DEF Gone, AgedAt
<1>7. PICK u : u = [t EXCEPT !.screen = screen, !.shown = s]
  OBVIOUS
<1>8. /\ u \in Tab /\ u.screen = screen /\ u.shown = s
      /\ (u.reconciling <=> t.reconciling) /\ (u.checking <=> t.checking)
  BY <1>7 DEF Tab
<1>9. tab' = u
  BY <1>7 DEF Show
<1>10. In' <=> screen = "in"
  BY <1>8, <1>9 DEF In
<1>11. ASSUME NEW e \in Slots, CurrentLoad(e)'
       PROVE  ~ In'
  <2>1. e # c
    BY <1>6, <1>11 DEF CurrentLoad
  <2>2. CurrentLoad(e) /\ fl # [Outdated(flights) EXCEPT ![c] = NoFlight]
    BY <1>5, <1>11, <2>1
  <2>3. CurrentLoad(c) => FALSE
    BY <2>1, <2>2 DEF TabsInv, LoadsTrue
  <2> QED
    BY <1>10, <2>2, <2>3
<1>12. CookieFrom
  BY <1>5 DEF CookieFrom, Told
<1>13. ShownFrom
  BY <1>5, <1>8, <1>9 DEF ShownFrom, Told
<1>14. ReconcileFlag
  BY <1>6, <1>8, <1>9, FlagAt DEF ReconcileFlag, TabsInv
<1>15. ConfirmFlag
  BY <1>6, <1>8, <1>9, FlagAt DEF ConfirmFlag, TabsInv, Confirming
<1>16. DifferenceGoes
  BY <1>8, <1>9, <1>10 DEF DifferenceGoes
<1>17. In' => tab'.shown # 0
  BY <1>8, <1>9, <1>10
<1> QED
  BY <1>4, <1>5, <1>6, <1>8, <1>9, <1>11, <1>12, <1>13, <1>14, <1>15, <1>16, <1>17, AgedScreenStep

\* The start of the application, a login and the login screen.
LEMMA ReceiveLoadStep ==
  ASSUME TabsInv, NEW c \in Slots, ReceiveLoad(c)
  PROVE  GoodStep
<1>1. flights[c].kind \in {"load", "realms"} /\ flights[c].status # "none"
  BY DEF ReceiveLoad, Arrived
<1>2. PICK m \in Flight :
         /\ m = flights[c] /\ AnswerTrue(m, opened, valid)
         /\ m.session \in Nat /\ m.principal \in Nat /\ m.expected \in Nat
  BY <1>1, AtFacts
<1>3. m.kind = "load" =>
         m.status \in {"200", "401"} /\ (m.status = "200" => m.principal = m.session /\ m.session # 0)
  BY <1>1, <1>2 DEF AnswerTrue
<1>4. flights[c].kind \notin {"reconcile"} \cup Confirming /\ ~ Free(c)
  BY <1>1 DEF Confirming, Free
<1>5. /\ tab \in Tab /\ ~ wronged /\ told \in BOOLEAN /\ excused \in BOOLEAN
  BY TabFacts
<1>6. /\ cookie' = cookie /\ valid' = valid /\ opened' = opened /\ wronged' = wronged
      /\ told' = told /\ excused' = excused
  BY DEF ReceiveLoad
<1>7. ServerGrows
  BY <1>6, SessionsKept
<1>8. CASE ~ m.current
  <2>1. Done(c, tab)
    BY <1>2, <1>8 DEF ReceiveLoad
  <2>2. tab' = tab
    BY <2>1 DEF Done
  <2> QED
    BY <1>4, <1>5, <1>6, <2>1, <2>2, QuietStep DEF QuietTab
<1>9. CASE m.current /\ m.kind = "realms"
  <2>1. Show("anonymous", 0, [flights EXCEPT ![c] = NoFlight], tab)
    BY <1>2, <1>9 DEF ReceiveLoad
  <2> QED
    BY <1>4, <1>5, <1>6, <1>7, <2>1, ShowStep
<1>10. CASE m.current /\ m.kind = "load" /\ m.status = "200"
  <2>1. Show("in", m.principal, [flights EXCEPT ![c] = NoFlight], tab)
    BY <1>2, <1>10 DEF ReceiveLoad
  <2>2. CurrentLoad(c) /\ m.principal = flights[c].session /\ m.principal # 0
    BY <1>2, <1>3, <1>10 DEF CurrentLoad
  <2>3. told => m.principal = cookie
    BY <2>2 DEF TabsInv, LoadsTrue
  <2> QED
    BY <1>2, <1>4, <1>5, <1>6, <1>7, <2>1, <2>2, <2>3, ShowStep
<1>11. CASE m.current /\ m.kind = "load" /\ m.status = "401"
  <2>1. Show("loading", 0, [Outdated(flights) EXCEPT ![c] = NoFlight], tab)
    BY <1>2, <1>11 DEF ReceiveLoad, ShowLogin
  <2> QED
    BY <1>4, <1>5, <1>6, <1>7, <2>1, ShowStep
<1> QED
  BY <1>1, <1>2, <1>3, <1>8, <1>9, <1>10, <1>11

LEMMA ReceiveLoginStep ==
  ASSUME TabsInv, NEW c \in Slots, ReceiveLogin(c)
  PROVE  GoodStep
<1>1. flights[c].kind = "login" /\ flights[c].status # "none"
  BY DEF ReceiveLogin, Arrived
<1>2. PICK m \in Flight :
         /\ m = flights[c] /\ AnswerTrue(m, opened, valid)
         /\ m.session \in Nat /\ m.principal \in Nat /\ m.expected \in Nat
  BY <1>1, AtFacts
<1>3. m.status = "200" /\ m.principal # 0
  BY <1>1, <1>2 DEF AnswerTrue, Entering
<1>4. flights[c].kind \notin {"reconcile"} \cup Confirming /\ Opening(c)
  BY <1>1, <1>2, <1>3 DEF Confirming, Opening, Entering
<1>5. /\ tab \in Tab /\ ~ wronged /\ told \in BOOLEAN /\ excused \in BOOLEAN
  BY TabFacts
<1>6. /\ cookie' = m.principal /\ valid' = valid /\ opened' = opened /\ wronged' = wronged
      /\ ~ told' /\ told' \in BOOLEAN /\ excused' \in BOOLEAN
      /\ Show("in", m.principal, [Outdated(flights) EXCEPT ![c] = NoFlight], tab)
  BY <1>2 DEF ReceiveLogin, SetCookie
<1>7. ServerGrows
  BY <1>6, SessionsKept
<1> QED
  BY <1>2, <1>3, <1>4, <1>5, <1>6, <1>7, ShowStep

LEMMA ReceiveLogoutStep ==
  ASSUME TabsInv, NEW c \in Slots, ReceiveLogout(c)
  PROVE  GoodStep
<1>1. flights[c].kind = "logout" /\ flights[c].status # "none"
  BY DEF ReceiveLogout, Arrived
<1>2. PICK m \in Flight :
         /\ m = flights[c] /\ AnswerTrue(m, opened, valid)
         /\ m.session \in Nat /\ m.principal \in Nat /\ m.expected \in Nat
  BY <1>1, AtFacts
<1>3. m.status \in {"204", "409"} /\ (m.status = "409" => m.principal # 0)
  BY <1>1, <1>2 DEF AnswerTrue
<1>4. flights[c].kind \notin {"reconcile"} \cup Confirming
  BY <1>1 DEF Confirming
<1>5. /\ tab \in Tab /\ ~ wronged /\ told \in BOOLEAN /\ excused \in BOOLEAN
      /\ (In => shownData \subseteq {tab.shown}) /\ (In => tab.shown # 0)
      /\ tab.reconciling \in BOOLEAN /\ tab.checking \in BOOLEAN
  BY TabFacts
<1>6. valid' = valid /\ opened' = opened /\ wronged' = wronged
  BY DEF ReceiveLogout, SetCookie
<1>7. ServerGrows
  BY <1>6, SessionsKept
<1>8. /\ m.status = "204" => cookie' = 0 /\ told' = FALSE /\ excused' = FALSE
      /\ m.status # "204" =>
            /\ cookie' = cookie /\ excused' = excused
            /\ told' = (IF In /\ m.principal # 0 THEN m.principal = cookie ELSE told)
  BY <1>2 DEF ReceiveLogout, SetCookie, Notice
<1>9. /\ cookie' \in {cookie, 0} /\ told' \in BOOLEAN /\ excused' \in BOOLEAN
      /\ told' => cookie' = cookie /\ (told \/ In) /\ (In => m.principal = cookie)
  BY <1>3, <1>5, <1>8
<1>10. CASE In /\ m.principal # 0 /\ m.principal # tab.shown
  <2>1. PrincipalSeen(c, m.principal)
    BY <1>2, <1>10 DEF ReceiveLogout
  <2> QED
    BY <1>2, <1>4, <1>5, <1>6, <1>7, <1>9, <2>1, SeenStep
<1>11. CASE m.status = "204" /\ ~ (In /\ m.principal # 0 /\ m.principal # tab.shown)
  <2>1. Show("loading", 0, [Outdated(flights) EXCEPT ![c] = NoFlight], tab)
    BY <1>2, <1>11 DEF ReceiveLogout, ShowLogin
  <2> QED
    BY <1>4, <1>5, <1>6, <1>7, <1>9, <2>1, ShowStep
<1>12. CASE m.status = "409" /\ ~ (In /\ m.principal # 0 /\ m.principal # tab.shown)
  <2>1. Done(c, tab)
    BY <1>2, <1>12 DEF ReceiveLogout
  <2>2. /\ tab' = tab /\ shownData' = shownData /\ Looked({c}) /\ KeptAt(c) /\ flights'[c].kind = "none"
    BY <2>1, DoneFacts
  <2>3. ReconcileFlag
    BY <1>4, <2>2, FlagAt DEF ReconcileFlag, TabsInv
  <2>4. ConfirmFlag
    BY <1>4, <2>2, FlagAt DEF ConfirmFlag, TabsInv, Confirming
  <2>5. In' /\ told' => tab'.shown = cookie'
    BY <1>3, <1>9, <1>12, <2>2 DEF In
  <2>6. ReconcileGoes /\ ConfirmGoes /\ DifferenceGoes
    BY <2>5 DEF ReconcileGoes, ConfirmGoes, DifferenceGoes
  <2>7. CookieFrom /\ (In => cookie' = cookie \/ cookie' # tab.shown)
    BY <1>5, <1>9 DEF CookieFrom
  <2> QED
    BY <1>5, <1>6, <1>7, <1>9, <2>2, <2>3, <2>4, <2>6, <2>7, SameScreenStep
<1> QED
  BY <1>3, <1>10, <1>11, <1>12

LEMMA LoadStep ==
  ASSUME TabsInv, NEW c \in Slots, Load(c)
  PROVE  GoodStep
<1>1. PICK n : n = SentWith(cookie, "load", 0)
  OBVIOUS
<1>2. cookie \in Nat /\ "load" \in FlightKinds
  BY CookieFacts DEF FlightKinds
<1>3. /\ n \in Flight /\ n.kind = "load" /\ n.session = cookie /\ n.status = "none"
      /\ n.principal = 0
  BY <1>1, <1>2 DEF SentWith, Flight
<1>4. PICK fl : fl = [Outdated(flights) EXCEPT ![c] = n]
  OBVIOUS
<1>5. Show("loading", 0, fl, tab) /\ n \in Flights
  BY <1>1, <1>3, <1>4 DEF Load, Sent, Flights
<1>6. /\ cookie' = cookie /\ valid' = valid /\ opened' = opened /\ wronged' = wronged
      /\ told' = told /\ excused' = excused
  BY DEF Load
<1>7. /\ AgedAt(c) /\ AgedAs(n, flights'[c]) /\ \A e \in Slots \ {c} : ~ CurrentLoad(e)'
  BY <1>4, <1>5, LeftBehind DEF Show
<1>8. Asked(c) /\ flights'[c].kind = "load"
  BY <1>2, <1>3, <1>6, <1>7 DEF AgedAs, KeptAs, Asked, Leaving
<1>9. Free(c)
  BY DEF Load
<1>10. tab \in Tab /\ ~ wronged /\ told \in BOOLEAN /\ excused \in BOOLEAN
  BY TabFacts
<1>11. /\ tab' \in Tab /\ ~ In' /\ tab'.shown = 0
       /\ (tab'.reconciling <=> tab.reconciling) /\ (tab'.checking <=> tab.checking)
  BY <1>5, <1>10 DEF Show, Tab, In
<1>12. ReconcileFlag
  BY <1>7, <1>8, <1>9, <1>11, FlagAt DEF ReconcileFlag, TabsInv, AgedAt, Free
<1>13. ConfirmFlag
  BY <1>7, <1>8, <1>9, <1>11, FlagAt DEF ConfirmFlag, TabsInv, AgedAt, Free, Confirming
<1>14. DifferenceGoes
  BY <1>11 DEF DifferenceGoes
<1>15. CookieFrom /\ ShownFrom
  BY <1>6, <1>11 DEF CookieFrom, ShownFrom
<1>16. ServerGrows
  BY <1>6, SessionsKept
<1>17. told' => told \/ In
  BY <1>6
<1>18. shownData' = {}
  BY <1>5 DEF Show
<1> QED
  BY <1>6, <1>7, <1>8, <1>10, <1>11, <1>12, <1>13, <1>14, <1>15, <1>16, <1>17, <1>18, AgedScreenStep

-----------------------------------------------------------------------------
(* What comes of the checks.                                                *)

\* A check that counts found the session of the browser, or another difference
\* is being looked into.
LEMMA CheckedFacts ==
  ASSUME TabsInv, NEW c \in Slots, FreshAsk(c), In, told, ~ excused, cookie \in valid,
         tab.shown # flights[c].session
  PROVE  flights[c].session = cookie \/ tab.reconciling \/ tab.checking
<1>1. CASE tab.shown = cookie
  BY <1>1 DEF TabsInv, FreshTrue
<1>2. CASE tab.shown # cookie
  BY <1>2 DEF TabsInv, TabsTrue, DifferencePursued
<1> QED
  BY <1>1, <1>2

LEMMA ReceiveCheckStep ==
  ASSUME TabsInv, NEW c \in Slots, ReceiveCheck(c)
  PROVE  GoodStep
<1>1. flights[c].kind = "check" /\ flights[c].status # "none"
  BY DEF ReceiveCheck, Arrived
<1>2. PICK m \in Flight :
         /\ m = flights[c] /\ AnswerTrue(m, opened, valid)
         /\ m.session \in Nat /\ m.principal \in Nat /\ m.expected \in Nat
  BY <1>1, AtFacts
<1>3. m.status \in {"200", "401"} /\ (m.status = "200" => m.principal = m.session /\ m.session # 0)
  BY <1>1, <1>2 DEF AnswerTrue, Asking
<1>4. flights[c].kind \notin {"reconcile"} \cup Confirming /\ ~ Free(c)
  BY <1>1 DEF Confirming, Free
<1>5. tab \in Tab /\ ~ wronged /\ told \in BOOLEAN /\ excused \in BOOLEAN
  BY TabFacts
<1>6. /\ cookie' = cookie /\ valid' = valid /\ opened' = opened /\ wronged' = wronged
      /\ told' = told /\ excused' = excused
  BY DEF ReceiveCheck
<1>7. ServerGrows
  BY <1>6, SessionsKept
<1>8. CASE Done(c, tab)
  <2>1. tab' = tab
    BY <1>8 DEF Done
  <2> QED
    BY <1>4, <1>5, <1>6, <1>8, <2>1, QuietStep DEF QuietTab
<1>9. CASE m.fresh /\ In /\ m.status = "200"
  <2>1. ApplySession(c, m.principal, tab)
    BY <1>2, <1>9 DEF ReceiveCheck, Check
  <2>2. CASE tab.shown # m.principal
    <3>1. Show("in", m.principal, [Outdated(flights) EXCEPT ![c] = NoFlight], tab)
      BY <1>9, <2>1, <2>2 DEF ApplySession
    <3>2. FreshAsk(c) /\ m.principal = flights[c].session /\ m.principal # 0
      BY <1>1, <1>2, <1>3, <1>9 DEF FreshAsk, Asking
    <3>3. told' /\ ~ excused' /\ cookie' \in valid' =>
             tab.reconciling \/ tab.checking \/ m.principal = cookie'
      BY <1>6, <1>9, <2>2, <3>2, CheckedFacts
    <3> QED
      BY <1>2, <1>4, <1>5, <1>6, <1>7, <3>1, <3>2, <3>3, ShowStep
  <2>3. CASE tab.shown = m.principal
    BY <1>8, <2>1, <2>3 DEF ApplySession
  <2> QED
    BY <2>2, <2>3
<1>10. CASE m.fresh /\ In /\ m.status = "401"
  <2>1. Unauthorized(c, tab)
    BY <1>2, <1>10 DEF ReceiveCheck, Check
  <2> QED
    BY <1>4, <1>5, <1>6, <2>1, UnauthorizedStep
<1>11. CASE ~ m.fresh \/ ~ In
  <2>1. Done(c, tab)
    BY <1>2, <1>11 DEF ReceiveCheck, Check
  <2> QED
    BY <1>8, <2>1
<1> QED
  BY <1>3, <1>9, <1>10, <1>11

LEMMA ReceiveConfirmStep ==
  ASSUME TabsInv, NEW c \in Slots, ReceiveConfirm(c)
  PROVE  GoodStep
<1>1. flights[c].kind \in Confirming /\ flights[c].status # "none"
  BY DEF ReceiveConfirm, Arrived, Confirming
<1>2. PICK m \in Flight :
         /\ m = flights[c] /\ AnswerTrue(m, opened, valid)
         /\ m.session \in Nat /\ m.principal \in Nat /\ m.expected \in Nat
  BY <1>1, AtFacts DEF Confirming
<1>3. m.status \in {"200", "401"} /\ (m.status = "200" => m.principal = m.session /\ m.session # 0)
  BY <1>1, <1>2 DEF AnswerTrue, Asking, Confirming
<1>4. flights[c].kind \notin {"reconcile"} /\ ~ Free(c)
  BY <1>1 DEF Confirming, Free
<1>5. /\ tab \in Tab /\ ~ wronged /\ told \in BOOLEAN /\ excused \in BOOLEAN
      /\ (In => shownData \subseteq {tab.shown})
      /\ tab.reconciling \in BOOLEAN /\ tab.checking \in BOOLEAN
  BY TabFacts
<1>6. /\ cookie' = cookie /\ valid' = valid /\ opened' = opened /\ wronged' = wronged
      /\ told' = told /\ (excused' <=> (excused \/ ~ m.fresh)) /\ excused' \in BOOLEAN
  BY <1>2, <1>5 DEF ReceiveConfirm
<1>7. ServerGrows /\ CookieFrom
  BY <1>6, SessionsKept DEF CookieFrom
<1>8. PICK ended : ended = [tab EXCEPT !.checking = FALSE]
  OBVIOUS
<1>9. /\ ended \in Tab /\ ended.screen = tab.screen /\ ended.shown = tab.shown
      /\ (ended.reconciling <=> tab.reconciling) /\ ~ ended.checking
      /\ ended.pending = tab.pending /\ ended.latest = tab.latest
  BY <1>5, <1>8 DEF Tab
<1>10. CASE m.status = "401" /\ m.fresh /\ m.kind = "confirm"
  <2>1. Follow(c, "confirm again", tab) /\ cookie' \in Nat
    BY <1>2, <1>10, CookieFacts DEF ReceiveConfirm
  <2>2. /\ tab' = tab /\ shownData' = shownData /\ Looked({c}) /\ KeptAt(c)
        /\ flights'[c].kind = "confirm again"
    BY <2>1, FollowFacts
  <2>3. ReconcileFlag
    BY <1>4, <2>2, FlagAt DEF ReconcileFlag, TabsInv
  <2>4. tab.checking
    BY <1>1, FlagsBefore
  <2>5. ConfirmFlag
    BY <1>1, <2>2, <2>4, FlagAt DEF ConfirmFlag, TabsInv, Confirming
  <2>6. ReconcileGoes /\ ConfirmGoes /\ DifferenceGoes
    BY <1>6, <2>2 DEF ReconcileGoes, ConfirmGoes, DifferenceGoes, Still, In
  <2> QED
    BY <1>5, <1>6, <1>7, <2>2, <2>3, <2>5, <2>6, SameScreenStep
<1>11. ASSUME Done(c, ended),
              In /\ told /\ ~ excused' /\ cookie \in valid => tab.reconciling \/ tab.shown = cookie
       PROVE  GoodStep
  <2>1. /\ tab' = ended /\ shownData' = shownData /\ Looked({c}) /\ KeptAt(c)
        /\ flights'[c].kind = "none"
    BY <1>11, DoneFacts
  <2>2. ReconcileFlag
    BY <1>4, <1>9, <2>1, FlagAt DEF ReconcileFlag, TabsInv
  <2>3. ConfirmFlag
    BY <1>1, <1>9, <2>1, FlagAt DEF ConfirmFlag, TabsInv, Confirming
  <2>4. ReconcileGoes
    BY <1>6, <1>9, <2>1 DEF ReconcileGoes, Still, In
  <2>5. ConfirmGoes /\ DifferenceGoes
    BY <1>6, <1>9, <1>11, <2>1 DEF ConfirmGoes, DifferenceGoes, In
  <2> QED
    BY <1>5, <1>6, <1>7, <1>9, <2>1, <2>2, <2>3, <2>4, <2>5, SameScreenStep
<1>12. CASE ~ (m.status = "401" /\ m.fresh /\ m.kind = "confirm") /\ (~ m.fresh \/ ~ In)
  <2>1. Done(c, ended)
    BY <1>2, <1>8, <1>12 DEF ReceiveConfirm
  <2> QED
    BY <1>6, <1>11, <1>12, <2>1
<1>13. CASE m.fresh /\ In /\ m.status = "200"
  <2>1. ApplySession(c, m.principal, ended)
    BY <1>2, <1>8, <1>13 DEF ReceiveConfirm
  <2>2. FreshAsk(c) /\ m.principal = flights[c].session /\ m.principal # 0
    BY <1>1, <1>2, <1>3, <1>13 DEF FreshAsk, Asking, Confirming
  <2>3. told /\ ~ excused' /\ cookie \in valid => tab.reconciling \/ m.principal = cookie
    BY <1>1, <1>6, <1>13, <2>2 DEF TabsInv, ConfirmPursued
  <2>4. CASE tab.shown # m.principal
    <3>1. Show("in", m.principal, [Outdated(flights) EXCEPT ![c] = NoFlight], ended)
      BY <1>13, <2>1, <2>4 DEF ApplySession
    <3> QED
      BY <1>1, <1>2, <1>4, <1>5, <1>6, <1>7, <1>9, <2>2, <2>3, <3>1, ShowStep
  <2>5. CASE tab.shown = m.principal
    <3>1. Done(c, ended)
      BY <2>1, <2>5 DEF ApplySession
    <3> QED
      BY <1>11, <2>3, <2>5, <3>1
  <2> QED
    BY <2>4, <2>5
<1>14. CASE m.fresh /\ In /\ m.status = "401" /\ m.kind # "confirm"
  <2>1. Show("loading", 0, [Outdated(flights) EXCEPT ![c] = NoFlight], ended)
    BY <1>2, <1>8, <1>14 DEF ReceiveConfirm, ShowLogin
  <2> QED
    BY <1>1, <1>4, <1>5, <1>6, <1>7, <1>9, <2>1, ShowStep
<1> QED
  BY <1>3, <1>10, <1>12, <1>13, <1>14

\* The reconciliation has ended, and what it leaves needs no further check.
LEMMA ReconcileEndsStep ==
  ASSUME TabsInv, NEW c \in Slots, flights[c].kind = "reconcile",
         NEW t \in Tab, t = [tab EXCEPT !.reconciling = FALSE, !.pending = FALSE],
         Done(c, t) \/ Unauthorized(c, t),
         cookie' = cookie, valid' = valid, opened' = opened, ~ wronged', told' = told,
         excused' \in BOOLEAN,
         In /\ told /\ ~ excused' /\ cookie \in valid => tab.shown = cookie
  PROVE  GoodStep
<1>1. /\ tab \in Tab /\ told \in BOOLEAN /\ (In => shownData \subseteq {tab.shown})
      /\ tab.reconciling \in BOOLEAN /\ tab.checking \in BOOLEAN
  BY TabFacts
<1>2. /\ t.screen = tab.screen /\ t.shown = tab.shown
      /\ ~ t.reconciling /\ (t.checking <=> tab.checking)
  BY <1>1 DEF Tab
<1>3. ServerGrows /\ CookieFrom
  BY SessionsKept DEF CookieFrom
<1>4. flights[c].kind \notin Confirming
  BY DEF Confirming
<1>5. ASSUME tab' \in Tab, tab'.screen = tab.screen, tab'.shown = tab.shown, shownData' = shownData,
             Looked({c}), flights'[c].kind # "reconcile", ReconcileFlag, ConfirmFlag
      PROVE  GoodStep
  <2>1. \A e \in Slots : flights'[e].kind # "reconcile"
    BY <1>5, FlagsBefore DEF Looked
  <2>2. ReconcileGoes
    BY <2>1 DEF ReconcileGoes, AskedAgain
  <2>3. ConfirmGoes /\ DifferenceGoes
    BY <1>5 DEF ConfirmGoes, DifferenceGoes, In
  <2> QED
    BY <1>1, <1>3, <1>5, <2>2, <2>3, SameScreenStep
<1>6. CASE Done(c, t)
  <2>1. /\ tab' = t /\ shownData' = shownData /\ Looked({c}) /\ KeptAt(c)
        /\ flights'[c].kind = "none"
    BY <1>6, DoneFacts
  <2>2. ReconcileFlag
    BY <1>2, <2>1, FlagAt DEF ReconcileFlag, TabsInv
  <2>3. ConfirmFlag
    BY <1>2, <1>4, <2>1, FlagAt DEF ConfirmFlag, TabsInv, Confirming
  <2> QED
    BY <1>2, <1>5, <2>1, <2>2, <2>3
<1>7. CASE In /\ ~ tab.checking /\ Unauthorized(c, t)
  <2>1. PICK u : u = [t EXCEPT !.checking = TRUE]
    OBVIOUS
  <2>2. /\ u \in Tab /\ u.screen = t.screen /\ u.shown = t.shown
        /\ (u.reconciling <=> t.reconciling) /\ u.checking
    BY <2>1 DEF Tab
  <2>3. Follow(c, "confirm", u) /\ cookie' \in Nat
    BY <1>7, <2>1, CookieFacts DEF Unauthorized
  <2>4. /\ tab' = u /\ shownData' = shownData /\ Looked({c}) /\ KeptAt(c)
        /\ flights'[c].kind = "confirm"
    BY <2>3, FollowFacts
  <2>5. ReconcileFlag
    BY <1>2, <2>2, <2>4, FlagAt DEF ReconcileFlag, TabsInv
  <2>6. ConfirmFlag
    BY <1>7, <2>2, <2>4, FlagAt DEF ConfirmFlag, TabsInv, Confirming
  <2> QED
    BY <1>2, <1>5, <2>2, <2>4, <2>5, <2>6
<1> QED
  BY <1>6, <1>7 DEF Unauthorized

\* The loop of the reconciliation goes on.
LEMMA ReconcileAgainStep ==
  ASSUME TabsInv, NEW c \in Slots, flights[c].kind = "reconcile",
         Follow(c, "reconcile", [tab EXCEPT !.pending = FALSE]),
         cookie' = cookie, valid' = valid, opened' = opened, ~ wronged', told' = told,
         excused' \in BOOLEAN
  PROVE  GoodStep
<1>1. /\ tab \in Tab /\ told \in BOOLEAN /\ (In => shownData \subseteq {tab.shown})
      /\ tab.reconciling \in BOOLEAN /\ tab.checking \in BOOLEAN
  BY TabFacts
<1>2. PICK t : t = [tab EXCEPT !.pending = FALSE]
  OBVIOUS
<1>3. /\ t \in Tab /\ t.screen = tab.screen /\ t.shown = tab.shown
      /\ (t.reconciling <=> tab.reconciling) /\ (t.checking <=> tab.checking)
  BY <1>1, <1>2 DEF Tab
<1>4. Follow(c, "reconcile", t) /\ cookie' \in Nat
  BY <1>2, CookieFacts
<1>5. /\ tab' = t /\ shownData' = shownData /\ Looked({c}) /\ KeptAt(c)
      /\ Asked(c) /\ flights'[c].kind = "reconcile"
  BY <1>4, FollowFacts
<1>6. tab.reconciling
  BY FlagsBefore
<1>7. ReconcileFlag
  BY <1>3, <1>5, <1>6, FlagAt DEF ReconcileFlag, TabsInv
<1>8. ConfirmFlag
  BY <1>3, <1>5, FlagAt DEF ConfirmFlag, TabsInv, Confirming
<1>9. AskedAgain
  BY <1>5, FlagsBefore DEF AskedAgain, Looked
<1>10. ReconcileGoes /\ ConfirmGoes /\ DifferenceGoes
  BY <1>3, <1>5, <1>6, <1>9 DEF ReconcileGoes, ConfirmGoes, DifferenceGoes
<1>11. ServerGrows /\ CookieFrom
  BY SessionsKept DEF CookieFrom
<1> QED
  BY <1>1, <1>3, <1>5, <1>7, <1>8, <1>10, <1>11, SameScreenStep

\* It goes on while a confirmation is sent too.
LEMMA ReconcileBesideStep ==
  ASSUME TabsInv, NEW c \in Slots, flights[c].kind = "reconcile", NEW d \in Slots, Free(d),
         ~ tab.checking,
         flights' = [flights EXCEPT ![c] = Sent("reconcile", 0), ![d] = Sent("confirm", 0)],
         tab' = [tab EXCEPT !.pending = FALSE, !.checking = TRUE], shownData' = shownData,
         cookie' = cookie, valid' = valid, opened' = opened, ~ wronged', told' = told,
         excused' \in BOOLEAN
  PROVE  GoodStep
<1>1. /\ tab \in Tab /\ told \in BOOLEAN /\ (In => shownData \subseteq {tab.shown})
      /\ tab.reconciling \in BOOLEAN /\ tab.checking \in BOOLEAN
  BY TabFacts
<1>2. /\ tab' \in Tab /\ tab'.screen = tab.screen /\ tab'.shown = tab.shown
      /\ (tab'.reconciling <=> tab.reconciling) /\ tab'.checking
  BY <1>1 DEF Tab
<1>3. PICK n : n = SentWith(cookie, "reconcile", 0)
  OBVIOUS
<1>4. PICK k : k = SentWith(cookie, "confirm", 0)
  OBVIOUS
<1>5. cookie \in Nat /\ "reconcile" \in FlightKinds /\ "confirm" \in FlightKinds
  BY CookieFacts DEF FlightKinds, Asking
<1>6. /\ n \in Flight /\ n.kind = "reconcile" /\ n.session = cookie /\ n.status = "none"
      /\ n.principal = 0
  BY <1>3, <1>5 DEF SentWith, Flight
<1>7. /\ k \in Flight /\ k.kind = "confirm" /\ k.session = cookie /\ k.status = "none"
      /\ k.principal = 0
  BY <1>4, <1>5 DEF SentWith, Flight
<1>8. flights \in [Slots -> Flights] /\ n \in Flights /\ k \in Flights
  BY <1>6, <1>7 DEF TabsInv, TabsShape, Flights
<1>9. flights' = [flights EXCEPT ![c] = n, ![d] = k]
  BY <1>3, <1>4 DEF Sent
<1>10. c # d
  BY DEF Free
<1>11. /\ flights' \in [Slots -> Flights] /\ flights'[c] = n /\ flights'[d] = k
       /\ \A e \in Slots \ {c, d} : flights'[e] = flights[e]
  BY <1>8, <1>9, <1>10
<1>12. Asked(c) /\ flights'[c].kind = "reconcile" /\ Asked(d) /\ flights'[d].kind = "confirm"
  BY <1>5, <1>6, <1>7, <1>11 DEF Asked, Leaving
<1>13. Looked({c, d})
  BY <1>11, <1>12 DEF Looked
<1>14. tab.reconciling
  BY FlagsBefore
<1>15. ReconcileFlag
  <2>1. Replaced(flights, flights', {"reconcile"}, tab.reconciling, tab'.reconciling, c)
    BY <1>2, <1>11, <1>12, <1>14 DEF Replaced
  <2> QED
    BY <2>1 DEF ReconcileFlag, FlagStep
<1>16. ConfirmFlag
  <2>1. Started(flights, flights', Confirming, tab.checking, tab'.checking, d)
    BY <1>2, <1>11, <1>12 DEF Started, Confirming
  <2> QED
    BY <2>1 DEF ConfirmFlag, FlagStep
<1>17. AskedAgain
  BY <1>11, <1>12, FlagsBefore DEF AskedAgain
<1>18. ReconcileGoes /\ ConfirmGoes /\ DifferenceGoes
  BY <1>2, <1>14, <1>17 DEF ReconcileGoes, ConfirmGoes, DifferenceGoes
<1>19. ServerGrows /\ CookieFrom
  BY SessionsKept DEF CookieFrom
<1> QED
  BY <1>1, <1>2, <1>13, <1>15, <1>16, <1>18, <1>19, SameScreenStep

LEMMA ReceiveReconcileStep ==
  ASSUME TabsInv, NEW c \in Slots, ReceiveReconcile(c)
  PROVE  GoodStep
<1>1. flights[c].kind = "reconcile" /\ flights[c].status # "none"
  BY DEF ReceiveReconcile, Arrived
<1>2. PICK m \in Flight :
         /\ m = flights[c] /\ AnswerTrue(m, opened, valid)
         /\ m.session \in Nat /\ m.principal \in Nat /\ m.expected \in Nat
  BY <1>1, AtFacts
<1>3. /\ m.status \in {"200", "401"} /\ (m.status = "200" => m.principal = m.session /\ m.session # 0)
      /\ m.status = "401" => m.session \notin valid
  BY <1>1, <1>2 DEF AnswerTrue, Asking
<1>4. flights[c].kind \notin Confirming /\ ~ Free(c)
  BY <1>1 DEF Confirming, Free
<1>5. /\ tab \in Tab /\ ~ wronged /\ told \in BOOLEAN /\ excused \in BOOLEAN
      /\ tab.reconciling \in BOOLEAN /\ tab.checking \in BOOLEAN
  BY TabFacts
<1>6. /\ cookie' = cookie /\ valid' = valid /\ opened' = opened /\ wronged' = wronged
      /\ told' = told /\ (excused' <=> (excused \/ ~ m.fresh)) /\ excused' \in BOOLEAN
  BY <1>2, <1>5 DEF ReceiveReconcile
<1>7. ServerGrows /\ CookieFrom /\ tab.reconciling
  BY <1>1, <1>6, SessionsKept, FlagsBefore DEF CookieFrom
<1>8. PICK ended : ended = [tab EXCEPT !.reconciling = FALSE, !.pending = FALSE]
  OBVIOUS
<1>9. /\ ended \in Tab /\ ended.screen = tab.screen /\ ended.shown = tab.shown
      /\ ~ ended.reconciling /\ (ended.checking <=> tab.checking)
  BY <1>5, <1>8 DEF Tab
<1>10. PICK shows : shows = IF m.fresh /\ In /\ m.status = "200"
                            THEN [tab EXCEPT !.shown = m.principal] ELSE tab
  OBVIOUS
<1>11. /\ shows \in Tab /\ shows.screen = tab.screen /\ shows.latest = tab.latest
       /\ (shows.pending <=> tab.pending)
       /\ (shows.reconciling <=> tab.reconciling) /\ (shows.checking <=> tab.checking)
       /\ shows.shown = IF m.fresh /\ In /\ m.status = "200" THEN m.principal ELSE tab.shown
  BY <1>2, <1>5, <1>10 DEF Tab
\* The loop ends only when nothing else was seen.
<1>12. In /\ told /\ m.fresh /\ m.session # cookie => tab.pending /\ tab.latest = cookie
  BY <1>1, <1>2 DEF TabsInv, ReconcilePursued, FreshAsk, Asking
<1>13. ~ Again(shows) /\ In /\ told /\ m.fresh =>
          IF m.status = "200" THEN m.principal = cookie
          ELSE tab.shown = cookie \/ cookie \notin valid
  BY <1>3, <1>11, <1>12 DEF Again, In
<1>14. CASE ~ Again(shows) /\ Check(c, ended)
  <2>1. CASE ~ m.fresh \/ ~ In
    <3>1. Done(c, ended)
      BY <1>2, <1>14, <2>1 DEF Check
    <3> QED
      BY <1>1, <1>5, <1>6, <1>8, <1>9, <2>1, <3>1, ReconcileEndsStep
  <2>2. CASE m.fresh /\ In /\ m.status = "200"
    <3>1. ApplySession(c, m.principal, ended)
      BY <1>2, <1>14, <2>2 DEF Check
    <3>2. told => m.principal = cookie
      BY <1>13, <1>14, <2>2
    <3>3. CASE tab.shown # m.principal
      <4>1. Show("in", m.principal, [Outdated(flights) EXCEPT ![c] = NoFlight], ended)
        BY <2>2, <3>1, <3>3 DEF ApplySession
      <4>2. m.principal # 0 /\ m.principal = flights[c].session
        BY <1>2, <1>3, <2>2
      <4> QED
        BY <1>1, <1>2, <1>4, <1>5, <1>6, <1>7, <1>9, <3>2, <4>1, <4>2, ShowStep
    <3>4. CASE tab.shown = m.principal
      <4>1. Done(c, ended)
        BY <3>1, <3>4 DEF ApplySession
      <4> QED
        BY <1>1, <1>5, <1>6, <1>8, <1>9, <3>2, <3>4, <4>1, ReconcileEndsStep
    <3> QED
      BY <3>3, <3>4
  <2>3. CASE m.fresh /\ In /\ m.status = "401"
    <3>1. Unauthorized(c, ended)
      BY <1>2, <1>14, <2>3 DEF Check
    <3>2. told => tab.shown = cookie \/ cookie \notin valid
      BY <1>13, <1>14, <2>3
    <3> QED
      BY <1>1, <1>5, <1>6, <1>8, <1>9, <3>1, <3>2, ReconcileEndsStep
  <2> QED
    BY <1>3, <2>1, <2>2, <2>3
<1>15. CASE /\ Again(shows) /\ shows.shown # tab.shown
            /\ tab' = [shows EXCEPT !.pending = FALSE]
            /\ flights' = [Stale(Outdated(flights)) EXCEPT ![c] = Sent("reconcile", 0)]
            /\ shownData' = {}
  <2>1. m.status = "200" /\ shows.shown = m.principal /\ m.principal # 0
        /\ m.principal = flights[c].session
    BY <1>2, <1>3, <1>11, <1>15
  <2>2. /\ tab' \in Tab /\ tab'.shown = m.principal
        /\ tab'.reconciling /\ (tab'.checking <=> tab.checking)
    BY <1>7, <1>11, <1>15, <2>1 DEF Tab
  <2>3. PICK n : n = SentWith(cookie, "reconcile", 0)
    OBVIOUS
  <2>4. cookie \in Nat /\ "reconcile" \in FlightKinds
    BY CookieFacts DEF FlightKinds, Asking
  <2>5. /\ n \in Flight /\ n.kind = "reconcile" /\ n.session = cookie /\ n.status = "none"
        /\ n.principal = 0
    BY <2>3, <2>4 DEF SentWith, Flight
  <2>6. flights \in [Slots -> Flights] /\ n \in Flights
    BY <2>5 DEF TabsInv, TabsShape, Flights
  <2>7. PICK ol : ol = Outdated(flights)
    OBVIOUS
  <2>8. /\ ol \in [Slots -> Flights]
        /\ \A e \in Slots : KeptAs(flights[e], ol[e])
        /\ \A e \in Slots : flights[e].kind # "none" => ~ ol[e].current
    BY <2>6, <2>7, OutdatedFacts
  <2>9. PICK sl : sl = Stale(ol)
    OBVIOUS
  <2>10. /\ sl \in [Slots -> Flights]
         /\ \A e \in Slots : AgedAs(ol[e], sl[e])
    BY <2>8, <2>9, StaleFacts
  <2>11. flights' = [sl EXCEPT ![c] = n]
    BY <1>15, <2>3, <2>7, <2>9 DEF Sent
  <2>12. /\ flights' \in [Slots -> Flights] /\ flights'[c] = n
         /\ \A e \in Slots \ {c} : flights'[e] = sl[e]
    BY <2>6, <2>10, <2>11
  <2>13. \A e \in Slots \ {c} : AgedAs(flights[e], flights'[e])
    BY <2>8, <2>10, <2>12, KeptAgain
  <2>14. AgedAt(c)
    BY <2>12, <2>13 DEF AgedAt, KeptAt, Aged, Kept, AgedAs
  <2>15. Asked(c) /\ flights'[c].kind = "reconcile"
    BY <1>6, <2>4, <2>5, <2>12 DEF Asked, Leaving
  <2>16. ASSUME NEW e \in Slots, CurrentLoad(e)'
         PROVE  FALSE
    <3>1. flights'[e].kind = "load" /\ flights'[e].current /\ e # c
      BY <2>15, <2>16 DEF CurrentLoad
    <3>2. KeptAs(flights[e], ol[e]) /\ AgedAs(ol[e], flights'[e]) /\ (flights[e].kind # "none" => ~ ol[e].current)
      BY <2>8, <2>10, <2>12, <3>1
    <3> QED
      BY <3>1, <3>2 DEF AgedAs, KeptAs
  <2>17. KeptAt(c)
    BY <2>14 DEF AgedAt
  <2>18. ReconcileFlag
    BY <1>1, <2>2, <2>15, <2>17, FlagAt DEF ReconcileFlag, TabsInv
  <2>19. ConfirmFlag
    BY <1>4, <2>2, <2>15, <2>17, FlagAt DEF ConfirmFlag, TabsInv, Confirming
  <2>20. DifferenceGoes
    BY <2>2 DEF DifferenceGoes
  <2>21. ShownFrom
    BY <1>4, <2>1, <2>2 DEF ShownFrom
  <2> QED
    BY <1>5, <1>6, <1>7, <1>15, <2>1, <2>2, <2>14, <2>15, <2>16, <2>18, <2>19, <2>20, <2>21, AgedScreenStep
<1>16. CASE Follow(c, "reconcile", [tab EXCEPT !.pending = FALSE])
  BY <1>1, <1>5, <1>6, <1>16, ReconcileAgainStep
<1>17. CASE /\ ~ tab.checking
            /\ \E d \in Slots :
                  /\ Free(d)
                  /\ flights' = [flights EXCEPT ![c] = Sent("reconcile", 0), ![d] = Sent("confirm", 0)]
            /\ tab' = [tab EXCEPT !.pending = FALSE, !.checking = TRUE]
            /\ shownData' = shownData
  BY <1>1, <1>5, <1>6, <1>17, ReconcileBesideStep
<1> QED
  <2>1. \/ ~ Again(shows) /\ Check(c, ended)
        \/ /\ Again(shows) /\ shows.shown # tab.shown
           /\ tab' = [shows EXCEPT !.pending = FALSE]
           /\ flights' = [Stale(Outdated(flights)) EXCEPT ![c] = Sent("reconcile", 0)]
           /\ shownData' = {}
        \/ Follow(c, "reconcile", [tab EXCEPT !.pending = FALSE])
        \/ /\ ~ tab.checking
           /\ \E d \in Slots :
                 /\ Free(d)
                 /\ flights' = [flights EXCEPT ![c] = Sent("reconcile", 0), ![d] = Sent("confirm", 0)]
           /\ tab' = [tab EXCEPT !.pending = FALSE, !.checking = TRUE]
           /\ shownData' = shownData
    BY <1>2, <1>8, <1>10 DEF ReceiveReconcile
  <2> QED
    BY <1>14, <1>15, <1>16, <1>17, <2>1

\* A lost check excuses, and a lost load gives up the screen.
LEMMA LostStep ==
  ASSUME TabsInv, NEW c \in Slots, Lost(c)
  PROVE  GoodStep
<1>1. flights[c].kind # "none" /\ ~ Free(c)
  BY DEF Lost, Free
<1>2. PICK m \in Flight :
         /\ m = flights[c] /\ AnswerTrue(m, opened, valid)
         /\ m.session \in Nat /\ m.principal \in Nat /\ m.expected \in Nat
  BY <1>1, AtFacts
<1>3. /\ tab \in Tab /\ ~ wronged /\ told \in BOOLEAN /\ excused \in BOOLEAN
      /\ (In => shownData \subseteq {tab.shown})
      /\ tab.reconciling \in BOOLEAN /\ tab.checking \in BOOLEAN
  BY TabFacts
<1>4. /\ cookie' = cookie /\ valid' = valid /\ opened' = opened /\ wronged' = wronged
      /\ told' = told /\ excused' = (excused \/ m.kind \in {"reconcile", "confirm", "confirm again"})
  BY <1>2 DEF Lost
<1>5. ServerGrows /\ CookieFrom
  BY <1>4, SessionsKept DEF CookieFrom
<1>6. CASE m.kind \in {"load", "realms"} /\ m.current
  <2>1. Show("error", 0, [flights EXCEPT ![c] = NoFlight], tab)
    BY <1>2, <1>6 DEF Lost
  <2>2. flights[c].kind \notin {"reconcile"} \cup Confirming
    BY <1>2, <1>6 DEF Confirming
  <2> QED
    BY <1>3, <1>4, <1>5, <2>1, <2>2, ShowStep
<1>7. CASE m.kind = "reconcile" /\ Again(tab)
  <2>1. Follow(c, "reconcile", [tab EXCEPT !.pending = FALSE])
    BY <1>2, <1>7 DEF Lost
  <2> QED
    BY <1>2, <1>3, <1>4, <1>7, <2>1, ReconcileAgainStep
<1>8. CASE m.kind = "reconcile" /\ ~ Again(tab)
  <2>1. PICK t : t = [tab EXCEPT !.reconciling = FALSE, !.pending = FALSE]
    OBVIOUS
  <2>2. t \in Tab
    BY <1>3, <2>1 DEF Tab
  <2>3. Done(c, t)
    BY <1>2, <1>8, <2>1 DEF Lost
  <2>4. excused' = TRUE
    BY <1>4, <1>8
  <2> QED
    BY <1>2, <1>3, <1>4, <1>8, <2>1, <2>2, <2>3, <2>4, ReconcileEndsStep
<1>9. CASE m.kind \in Confirming
  <2>1. PICK t : t = [tab EXCEPT !.checking = FALSE]
    OBVIOUS
  <2>2. /\ t \in Tab /\ t.screen = tab.screen /\ t.shown = tab.shown
        /\ (t.reconciling <=> tab.reconciling) /\ ~ t.checking
        /\ t.pending = tab.pending /\ t.latest = tab.latest
    BY <1>3, <2>1 DEF Tab
  <2>3. Done(c, t)
    BY <1>2, <1>9, <2>1 DEF Lost, Confirming
  <2>4. /\ tab' = t /\ shownData' = shownData /\ Looked({c}) /\ KeptAt(c)
        /\ flights'[c].kind = "none"
    BY <2>3, DoneFacts
  <2>5. excused' = TRUE
    BY <1>4, <1>9 DEF Confirming
  <2>6. flights[c].kind # "reconcile" /\ flights[c].kind \in Confirming
    BY <1>2, <1>9 DEF Confirming
  <2>7. ReconcileFlag
    BY <2>2, <2>4, <2>6, FlagAt DEF ReconcileFlag, TabsInv
  <2>8. ConfirmFlag
    BY <2>2, <2>4, <2>6, FlagAt DEF ConfirmFlag, TabsInv, Confirming
  <2>9. ReconcileGoes /\ ConfirmGoes /\ DifferenceGoes
    BY <1>4, <2>2, <2>4, <2>5 DEF ReconcileGoes, ConfirmGoes, DifferenceGoes, Still, In
  <2> QED
    BY <1>3, <1>4, <1>5, <2>2, <2>4, <2>5, <2>7, <2>8, <2>9, SameScreenStep
<1>10. CASE m.kind \notin {"reconcile"} \cup Confirming /\ ~ (m.kind \in {"load", "realms"} /\ m.current)
  <2>1. Done(c, tab)
    BY <1>2, <1>10 DEF Lost, Confirming
  <2>2. tab' = tab
    BY <2>1 DEF Done
  <2>3. excused' = excused
    BY <1>3, <1>4, <1>10 DEF Confirming
  <2> QED
    BY <1>2, <1>3, <1>4, <1>10, <2>1, <2>2, <2>3, QuietStep DEF QuietTab
<1> QED
  BY <1>6, <1>7, <1>8, <1>9, <1>10

LEMMA TabsInvInit ==
  ASSUME TabsInit
  PROVE  TabsInv
<1>1. \A c \in Slots : flights[c] = NoFlight /\ flights[c].kind = "none"
  BY FlightFacts DEF TabsInit, Flights
<1>2. tab \in Tab /\ ~ In /\ tab.shown = 0 /\ ~ tab.reconciling /\ ~ tab.checking
  BY DEF TabsInit, Tab, In
<1>3. TabsShape
  <2>1. opened = 1 /\ cookie \in {0, 1} /\ valid \in SUBSET {1} /\ ~ told /\ ~ excused
        /\ told \in BOOLEAN /\ excused \in BOOLEAN
    BY DEF TabsInit
  <2>2. opened \in Nat /\ cookie \in 0 .. opened /\ valid \subseteq 1 .. opened /\ 0 \in 0 .. opened
    BY <2>1
  <2>3. flights \in [Slots -> {NoFlight} \cup Flight]
    BY DEF TabsInit
  <2> QED
    BY <1>2, <2>1, <2>2, <2>3 DEF TabsShape
<1>4. AnswersTrue /\ LoginsNew /\ LoadsTrue /\ OneEach
  BY <1>1 DEF AnswersTrue, LoginsNew, Opening, LoadsTrue, CurrentLoad, OneEach, Free, Entering, Confirming
<1>5. FreshTrue /\ ReconcilePursued /\ ConfirmPursued
  BY <1>2 DEF FreshTrue, ReconcilePursued, ConfirmPursued
<1>6. TabsTrue
  <2>1. FlagsTrue
    BY <1>1, <1>2 DEF FlagsTrue
  <2> QED
    BY <1>2, <2>1 DEF TabsInit, TabsTrue, ChangedAsShown, OnlyShownData, DifferencePursued
<1> QED
  BY <1>3, <1>4, <1>5, <1>6 DEF TabsInv

LEMMA TabsInvNext ==
  ASSUME TabsInv, [TabsNext]_tabVars
  PROVE  TabsInv'
<1>1. ASSUME NEW s \in 1 .. MaxOpened, SessionEnds(s)
      PROVE  TabsInv'
  BY <1>1, SessionEndsStep, InvStep
<1>2. ASSUME NEW c \in Slots, ServeApi(c) \/ ServeMe(c) \/ ServeLogout(c) \/ ServeLogin(c)
      PROVE  TabsInv'
  BY <1>2, ServeApiStep, ServeMeStep, ServeLogoutStep, ServeLoginStep, InvStep
<1>3. ASSUME NEW c \in Slots,
             ReceiveData(c) \/ ReceiveCheck(c) \/ ReceiveReconcile(c) \/ ReceiveConfirm(c)
      PROVE  TabsInv'
  BY <1>3, ReceiveDataStep, ReceiveCheckStep, ReceiveReconcileStep, ReceiveConfirmStep, InvStep
<1>4. ASSUME NEW c \in Slots,
             ReceiveLoad(c) \/ ReceiveLogin(c) \/ ReceiveLogout(c) \/ ReceiveOther(c)
      PROVE  TabsInv'
  BY <1>4, ReceiveLoadStep, ReceiveLoginStep, ReceiveLogoutStep, ReceiveOtherStep, InvStep
<1>5. ASSUME NEW c \in Slots,
             AskRealms(c) \/ Lost(c) \/ StartInTab(c) \/ Load(c) \/ StartElsewhere(c)
      PROVE  TabsInv'
  BY <1>5, StartsStep, LostStep, LoadStep, InvStep
<1>6. CASE UNCHANGED tabVars
  BY <1>6 DEF tabVars, TabsInv, TabsShape, AnswersTrue, LoginsNew, Opening, LoadsTrue, CurrentLoad,
              OneEach, FreshTrue, FreshAsk, ReconcilePursued, ConfirmPursued, TabsTrue,
              ChangedAsShown, OnlyShownData, DifferencePursued, FlagsTrue, Free, In
<1> QED
  BY <1>1, <1>2, <1>3, <1>4, <1>5, <1>6 DEF TabsNext

\* Tab and server agree about the principal, or the tab is finding out: what is
\* changed is changed as the principal shown, the screen holds its data only, a
\* difference that was seen is pursued, and no flag of a check stays behind.
THEOREM TabsAlwaysTrue == TabsSpec => []TabsTrue
<1>1. TabsSpec => []TabsInv
  BY TabsInvInit, TabsInvNext, PTL DEF TabsSpec
<1>2. TabsInv => TabsTrue
  BY DEF TabsInv
<1> QED
  BY <1>1, <1>2, PTL

(***************************************************************************)
(* The limits.                                                             *)
(***************************************************************************)
Hit == [at : Nat, number : Nat]
Passed ==
    [stage : {"reading", "route"}, path : Paths, genuine : BOOLEAN, role : 0 .. 2,
     left : Nat, handed : Nat]

\* One list of the limiter (H) against all that it ever let through (A): what
\* still counts is in the list, and every window keeps the limit.
Recently(L, now) == {h \in L : now - h.at < Window}
Counting(A, now) == {h \in A : now < h.at + Window}
InWindow(A, h) == {g \in A : g.at >= h.at /\ g.at < h.at + Window}
ListTrue(A, H, now, limit) ==
    /\ A \subseteq Hit /\ IsFiniteSet(A) /\ H \subseteq A
    /\ \A h \in A : h.at <= now /\ h.number <= Cardinality(A)
    /\ \A h \in A : now < h.at + Window => h \in H
    /\ \A h \in A : Cardinality(InWindow(A, h)) <= limit
ListsTrue ==
    \A b \in Buckets, k \in Clients : ListTrue(admitted[b][k], hits[b][k], ticks, RateLimit(b))

\* A request that is under way has passed what comes before its stage.
PassedTrue(r) ==
    /\ authOn /\ Unsafe(r.path) => r.genuine
    /\ WithBody(r.path) => r.handed <= BodyLimit(r.path)
    /\ r.stage = "route" => Admits(r)
PendingTrue == \A c \in Pending : pending[c] # NoRequest => PassedTrue(pending[c])

LimitsInv ==
    /\ ticks \in Nat /\ authOn \in BOOLEAN /\ managed \in BOOLEAN
    /\ hits \in [Buckets -> [Clients -> SUBSET Hit]]
    /\ admitted \in [Buckets -> [Clients -> SUBSET Hit]]
    /\ pending \in [Pending -> {NoRequest} \cup Passed]
    /\ ListsTrue /\ ~ early /\ PendingTrue

LEMMA LimitFacts ==
  /\ Window \in Nat \ {0}
  /\ \A b \in Buckets : RateLimit(b) \in Nat \ {0}
  /\ \A path \in Paths : BodyLimit(path) \in Nat
BY LimitsAssumption DEF RateLimit, BodyLimit

\* Time only takes hits out of the count.
LEMMA ListTick ==
  ASSUME NEW A, NEW H, NEW now \in Nat, NEW limit \in Nat, ListTrue(A, H, now, limit)
  PROVE  ListTrue(A, H, now + 1, limit)
<1>1. Window \in Nat
  BY LimitFacts
<1>2. \A h \in A : h.at \in Nat
  BY DEF ListTrue, Hit
<1>3. \A h \in A : h.at <= now + 1 /\ (now + 1 < h.at + Window => now < h.at + Window)
  BY <1>1, <1>2 DEF ListTrue
<1> QED
  BY <1>3 DEF ListTrue

\* What is let through is a new hit; what is refused was over the limit.
LEMMA ListAllow ==
  ASSUME NEW A, NEW H, NEW now \in Nat, NEW limit \in Nat \ {0}, ListTrue(A, H, now, limit),
         NEW hit, hit = [at |-> now, number |-> Cardinality(A) + 1]
  PROVE  /\ hit \in Hit /\ hit \notin A
         /\ Cardinality(Recently(H, now)) < limit =>
               ListTrue(A \cup {hit}, Recently(H, now) \cup {hit}, now, limit)
         /\ ~ (Cardinality(Recently(H, now)) < limit) =>
               /\ ListTrue(A, Recently(H, now), now, limit)
               /\ ~ (Cardinality(Counting(A, now)) < limit)
<1> DEFINE R == Recently(H, now)
           n == Cardinality(A)
<1>1. Window \in Nat \ {0}
  BY LimitFacts
<1>2. A \subseteq Hit /\ IsFiniteSet(A) /\ H \subseteq A
  BY DEF ListTrue
<1>3. n \in Nat
  BY <1>2, FS_CardinalityType
<1>4. \A h \in A : h.at \in Nat /\ h.number \in Nat /\ h.at <= now /\ h.number <= n
  BY <1>2 DEF ListTrue, Hit
<1>5. hit \in Hit /\ hit.at = now /\ hit.number = n + 1
  BY <1>3 DEF Hit
<1>6. hit \notin A
  BY <1>3, <1>4, <1>5
<1>7. R \subseteq A /\ \A h \in A : h \in R <=> now < h.at + Window
  <2>1. \A h \in A : now < h.at + Window => h \in H
    BY DEF ListTrue
  <2>2. \A h \in A : now - h.at < Window <=> now < h.at + Window
    BY <1>1, <1>4
  <2> QED
    BY <1>2, <2>1, <2>2 DEF Recently
<1>8. IsFiniteSet(R) /\ Cardinality(R) \in Nat
  BY <1>2, <1>7, FS_Subset, FS_CardinalityType
<1>9. ASSUME Cardinality(R) < limit
      PROVE  ListTrue(A \cup {hit}, R \cup {hit}, now, limit)
  <2>1. IsFiniteSet(A \cup {hit}) /\ Cardinality(A \cup {hit}) = n + 1
    BY <1>2, <1>6, FS_AddElement
  <2>2. \A h \in A \cup {hit} : h.at <= now /\ h.number <= n + 1
    BY <1>3, <1>4, <1>5
  <2>3. \A h \in A \cup {hit} : now < h.at + Window => h \in R \cup {hit}
    BY <1>7
  <2>4. IsFiniteSet(R \cup {hit}) /\ Cardinality(R \cup {hit}) <= limit
    <3>1. IsFiniteSet(R \cup {hit}) /\ Cardinality(R \cup {hit}) = Cardinality(R) + 1
      BY <1>6, <1>7, <1>8, FS_AddElement
    <3>2. \A m \in Nat : m < limit => m + 1 <= limit
      OBVIOUS
    <3>3. Cardinality(R) + 1 <= limit
      BY <1>8, <1>9, <3>2
    <3> QED
      BY <3>1, <3>3
  <2>5. ASSUME NEW h \in A \cup {hit}
        PROVE  Cardinality(InWindow(A \cup {hit}, h)) <= limit
    <3>1. h.at \in Nat /\ h.at <= now
      BY <1>4, <1>5
    <3>2. CASE now < h.at + Window
      <4>1. InWindow(A \cup {hit}, h) \subseteq R \cup {hit}
        <5> SUFFICES ASSUME NEW g \in A, g.at >= h.at
                     PROVE  g \in R
          BY DEF InWindow
        <5> QED
          BY <1>1, <1>4, <1>7, <3>1, <3>2
      <4>2. /\ Cardinality(InWindow(A \cup {hit}, h)) <= Cardinality(R \cup {hit})
            /\ Cardinality(InWindow(A \cup {hit}, h)) \in Nat
            /\ Cardinality(R \cup {hit}) \in Nat
        BY <2>4, <4>1, FS_Subset, FS_CardinalityType
      <4> QED
        BY <2>4, <4>2
    <3>3. CASE ~ (now < h.at + Window)
      <4>1. h \in A
        BY <1>1, <1>5, <3>3
      <4>2. InWindow(A \cup {hit}, h) = InWindow(A, h)
        BY <1>5, <3>3 DEF InWindow
      <4> QED
        BY <4>1, <4>2 DEF ListTrue
    <3> QED
      BY <3>2, <3>3
  <2>6. A \cup {hit} \subseteq Hit /\ R \cup {hit} \subseteq A \cup {hit}
    BY <1>2, <1>5, <1>7
  <2> QED
    BY <2>1, <2>2, <2>3, <2>5, <2>6 DEF ListTrue
<1>10. ASSUME ~ (Cardinality(R) < limit)
       PROVE  /\ ListTrue(A, R, now, limit)
              /\ ~ (Cardinality(Counting(A, now)) < limit)
  <2>1. Counting(A, now) = R
    BY <1>7 DEF Counting
  <2> QED
    BY <1>7, <1>10, <2>1 DEF ListTrue
<1> QED
  BY <1>5, <1>6, <1>9, <1>10

\* The lists after the limiter has looked at one of them.
LEMMA AllowStep ==
  ASSUME LimitsInv, NEW b \in Buckets, NEW k \in Clients, Allow(b, k)
  PROVE  /\ hits' \in [Buckets -> [Clients -> SUBSET Hit]]
         /\ admitted' \in [Buckets -> [Clients -> SUBSET Hit]]
         /\ \A x \in Buckets, y \in Clients :
               ListTrue(admitted'[x][y], hits'[x][y], ticks, RateLimit(x))
         /\ RoomFor(b, k) => admitted' # admitted
<1>a. PICK A : A = admitted[b][k]
  OBVIOUS
<1>b. PICK H : H = hits[b][k]
  OBVIOUS
<1> DEFINE R == Recently(H, ticks)
<1>1. /\ hits \in [Buckets -> [Clients -> SUBSET Hit]]
      /\ admitted \in [Buckets -> [Clients -> SUBSET Hit]]
      /\ ticks \in Nat /\ ListsTrue
  BY DEF LimitsInv
<1>2. PICK hit : hit = [at |-> ticks, number |-> Cardinality(A) + 1]
  OBVIOUS
<1>3. ListTrue(A, H, ticks, RateLimit(b)) /\ RateLimit(b) \in Nat \ {0}
  BY <1>1, <1>a, <1>b, LimitFacts DEF ListsTrue
<1>4. /\ hit \in Hit /\ hit \notin A
      /\ Cardinality(R) < RateLimit(b) => ListTrue(A \cup {hit}, R \cup {hit}, ticks, RateLimit(b))
      /\ ~ (Cardinality(R) < RateLimit(b)) =>
            /\ ListTrue(A, R, ticks, RateLimit(b))
            /\ ~ (Cardinality(Counting(A, ticks)) < RateLimit(b))
  <2>1. PICK limit : limit = RateLimit(b)
    OBVIOUS
  <2>2. limit \in Nat \ {0} /\ ListTrue(A, H, ticks, limit) /\ ticks \in Nat
    BY <1>1, <1>3, <2>1
  <2>3. /\ hit \in Hit /\ hit \notin A
        /\ Cardinality(R) < limit => ListTrue(A \cup {hit}, R \cup {hit}, ticks, limit)
        /\ ~ (Cardinality(R) < limit) =>
              /\ ListTrue(A, R, ticks, limit)
              /\ ~ (Cardinality(Counting(A, ticks)) < limit)
    BY <1>2, <2>2, ListAllow
  <2> QED
    BY <2>1, <2>3
<1>5. PICK room \in BOOLEAN : room <=> Cardinality(R) < RateLimit(b)
  OBVIOUS
<1>6. /\ hits' = [hits EXCEPT ![b][k] = IF room THEN R \cup {hit} ELSE R]
      /\ admitted' = IF room THEN [admitted EXCEPT ![b][k] = A \cup {hit}] ELSE admitted
  BY <1>1, <1>2, <1>5, <1>a, <1>b DEF Allow, Recent, Recently
<1>7. R \subseteq H /\ A \in SUBSET Hit /\ H \in SUBSET Hit
  BY <1>1, <1>a, <1>b DEF Recently
<1> HIDE DEF R
<1>8. CASE room
  <2>1. /\ hits' \in [Buckets -> [Clients -> SUBSET Hit]] /\ hits'[b][k] = R \cup {hit}
        /\ \A x \in Buckets, y \in Clients : <<x, y>> # <<b, k>> => hits'[x][y] = hits[x][y]
    BY <1>1, <1>4, <1>6, <1>7, <1>8
  <2>2. /\ admitted' \in [Buckets -> [Clients -> SUBSET Hit]] /\ admitted'[b][k] = A \cup {hit}
        /\ \A x \in Buckets, y \in Clients : <<x, y>> # <<b, k>> => admitted'[x][y] = admitted[x][y]
    BY <1>1, <1>4, <1>6, <1>7, <1>8
  <2>3. admitted' # admitted
    BY <1>4, <1>a, <2>2
  <2>4. ASSUME NEW x \in Buckets, NEW y \in Clients
        PROVE  ListTrue(admitted'[x][y], hits'[x][y], ticks, RateLimit(x))
    <3>1. CASE <<x, y>> = <<b, k>>
      BY <1>4, <1>5, <1>8, <2>1, <2>2, <3>1
    <3>2. CASE <<x, y>> # <<b, k>>
      BY <1>1, <2>1, <2>2, <3>2 DEF ListsTrue
    <3> QED
      BY <3>1, <3>2
  <2> QED
    BY <2>1, <2>2, <2>3, <2>4
<1>9. CASE ~ room
  <2>1. /\ hits' \in [Buckets -> [Clients -> SUBSET Hit]] /\ hits'[b][k] = R
        /\ \A x \in Buckets, y \in Clients : <<x, y>> # <<b, k>> => hits'[x][y] = hits[x][y]
    BY <1>1, <1>6, <1>7, <1>9
  <2>2. admitted' = admitted
    BY <1>6, <1>9
  <2>3. ~ RoomFor(b, k)
    BY <1>4, <1>5, <1>9, <1>a DEF RoomFor, Counting
  <2>4. ASSUME NEW x \in Buckets, NEW y \in Clients
        PROVE  ListTrue(admitted'[x][y], hits'[x][y], ticks, RateLimit(x))
    <3>1. CASE <<x, y>> = <<b, k>>
      BY <1>4, <1>5, <1>9, <1>a, <2>1, <2>2, <3>1
    <3>2. CASE <<x, y>> # <<b, k>>
      BY <1>1, <2>1, <2>2, <3>2 DEF ListsTrue
    <3> QED
      BY <3>1, <3>2
  <2> QED
    BY <1>1, <2>1, <2>2, <2>3, <2>4
<1> QED
  BY <1>8, <1>9

\* A step that looks at one request, and leaves the limiter alone.
LEMMA PendingStep ==
  ASSUME LimitsInv, NEW c \in Pending, NEW n \in {NoRequest} \cup Passed, n # NoRequest => PassedTrue(n),
         pending' = [pending EXCEPT ![c] = n], authOn' = authOn, managed' = managed
  PROVE  pending' \in [Pending -> {NoRequest} \cup Passed] /\ PendingTrue'
<1>1. pending \in [Pending -> {NoRequest} \cup Passed]
  BY DEF LimitsInv
<1>2. /\ pending' \in [Pending -> {NoRequest} \cup Passed] /\ pending'[c] = n
      /\ \A d \in Pending \ {c} : pending'[d] = pending[d]
  BY <1>1
<1>4. \A d \in Pending : pending[d] # NoRequest => PassedTrue(pending[d])
  BY DEF LimitsInv, PendingTrue
<1>5. ASSUME NEW d \in Pending, pending'[d] # NoRequest
      PROVE  PassedTrue(pending[d])'
  <2>1. CASE d = c
    <3>1. PassedTrue(n)
      BY <1>2, <1>5, <2>1
    <3> QED
      BY <1>2, <2>1, <3>1 DEF PassedTrue, Admits
  <2>2. CASE d # c
    <3>1. PICK r : r = pending[d]
      OBVIOUS
    <3>2. PassedTrue(r) /\ pending'[d] = r
      BY <1>2, <1>4, <1>5, <2>2, <3>1
    <3> QED
      BY <3>2 DEF PassedTrue, Admits
  <2> QED
    BY <2>1, <2>2
<1> QED
  BY <1>2, <1>5 DEF PendingTrue

LimiterStays ==
    /\ authOn' = authOn /\ managed' = managed /\ ticks' = ticks /\ hits' = hits
    /\ admitted' = admitted /\ early' = early

LEMMA LimiterStaysStep ==
  ASSUME LimitsInv, NEW c \in Pending, NEW n \in {NoRequest} \cup Passed, n # NoRequest => PassedTrue(n),
         pending' = [pending EXCEPT ![c] = n], LimiterStays
  PROVE  LimitsInv'
<1>1. pending' \in [Pending -> {NoRequest} \cup Passed] /\ PendingTrue'
  BY PendingStep DEF LimiterStays
<1> QED
  BY <1>1 DEF LimitsInv, LimiterStays, ListsTrue, ListTrue, InWindow, RateLimit

LEMMA PassedFacts ==
  ASSUME LimitsInv, NEW c \in Pending, pending[c] # NoRequest
  PROVE  \E r \in Passed : r = pending[c] /\ PassedTrue(r)
<1>1. pending[c] \in Passed
  BY DEF LimitsInv
<1> QED
  BY <1>1 DEF LimitsInv, PendingTrue

LEMMA IdleFacts ==
  /\ NoRequest.stage = "idle"
  /\ \A r \in Passed : r.stage \in {"reading", "route"} /\ r # NoRequest
BY DEF NoRequest, Passed

LEMMA ArriveStep ==
  ASSUME LimitsInv, NEW c \in Pending, NEW k \in Clients, NEW path \in Paths, NEW genuine \in BOOLEAN,
         NEW length \in Nat, NEW declared \in BOOLEAN, NEW role \in 0 .. 2,
         Arrive(c, k, path, genuine, length, declared, role)
  PROVE  LimitsInv'
<1> DEFINE b == BucketOf(path)
           accepted == ~ (declared /\ length > BodyLimit(path))
<1>1. PICK row : row = [stage |-> "reading", path |-> path, genuine |-> genuine, role |-> role,
                            left |-> length, handed |-> 0]
  OBVIOUS
<1>2. /\ row \in Passed /\ row.genuine = genuine /\ row.path = path
      /\ row.handed = 0 /\ row.stage = "reading"
  BY <1>1 DEF Passed
<1>3. authOn' = authOn /\ managed' = managed /\ ticks' = ticks
  BY DEF Arrive
<1>4. pending \in [Pending -> {NoRequest} \cup Passed]
  BY DEF LimitsInv
<1>5. CASE authOn /\ Unsafe(path) /\ ~ genuine
  <2>1. hits' = hits /\ pending' = pending /\ admitted' = admitted /\ early' = early
    BY <1>5 DEF Arrive
  <2>2. pending[c] = NoRequest /\ pending' = [pending EXCEPT ![c] = NoRequest]
    BY <1>4, <2>1 DEF Arrive
  <2> QED
    BY <1>3, <2>1, <2>2, LimiterStaysStep DEF LimiterStays
<1>6. ASSUME ~ (authOn /\ Unsafe(path) /\ ~ genuine)
      PROVE  PassedTrue(row)
  <2>1. BodyLimit(path) \in Nat
    BY LimitFacts
  <2>2. WithBody(path) => 0 <= BodyLimit(path)
    BY <2>1
  <2> QED
    BY <1>2, <1>6, <2>2 DEF PassedTrue
<1>7. CASE ~ (authOn /\ Unsafe(path) /\ ~ genuine) /\ b = "none"
  <2>1. PICK n : n = IF accepted THEN row ELSE NoRequest
    OBVIOUS
  <2>2. n \in {NoRequest} \cup Passed /\ (n # NoRequest => PassedTrue(n))
    BY <1>2, <1>6, <1>7, <2>1
  <2>3. /\ pending' = [pending EXCEPT ![c] = n]
        /\ hits' = hits /\ admitted' = admitted /\ early' = early
    BY <1>1, <1>7, <2>1 DEF Arrive
  <2> QED
    BY <1>3, <2>2, <2>3, LimiterStaysStep DEF LimiterStays
<1>8. CASE ~ (authOn /\ Unsafe(path) /\ ~ genuine) /\ b # "none"
  <2>1. b \in Buckets
    BY <1>8 DEF BucketOf, Buckets, Paths
  <2>2. PICK n : n = IF accepted /\ admitted' # admitted THEN row ELSE NoRequest
    OBVIOUS
  <2>3. n \in {NoRequest} \cup Passed /\ (n # NoRequest => PassedTrue(n))
    BY <1>2, <1>6, <1>8, <2>2
  <2>4. /\ pending' = [pending EXCEPT ![c] = n] /\ Allow(b, k)
        /\ early' = (early \/ (RoomFor(b, k) /\ admitted' = admitted))
    BY <1>1, <1>8, <2>2 DEF Arrive
  <2>5. /\ hits' \in [Buckets -> [Clients -> SUBSET Hit]]
        /\ admitted' \in [Buckets -> [Clients -> SUBSET Hit]]
        /\ \A x \in Buckets, y \in Clients :
              ListTrue(admitted'[x][y], hits'[x][y], ticks, RateLimit(x))
        /\ RoomFor(b, k) => admitted' # admitted
    BY <2>1, <2>4, AllowStep
  <2>6. ListsTrue'
    BY <1>3, <2>5 DEF ListsTrue, RateLimit
  <2>7. pending' \in [Pending -> {NoRequest} \cup Passed] /\ PendingTrue'
    BY <1>3, <2>3, <2>4, PendingStep
  <2>8. ~ early'
    BY <2>4, <2>5 DEF LimitsInv
  <2> QED
    BY <1>3, <2>5, <2>6, <2>7, <2>8 DEF LimitsInv
<1> QED
  BY <1>5, <1>7, <1>8

LEMMA ReceiveBodyStep ==
  ASSUME LimitsInv, NEW c \in Pending, NEW n \in Nat, Receive(c, n)
  PROVE  LimitsInv'
<1>1. pending[c] # NoRequest
  BY IdleFacts DEF Receive
<1>2. PICK r \in Passed : r = pending[c] /\ PassedTrue(r)
  BY <1>1, PassedFacts
<1>3. /\ r.stage = "reading" /\ WithBody(r.path) /\ n \in 1 .. r.left
      /\ pending' = [pending EXCEPT ![c] =
            IF Fits(r, n) THEN [r EXCEPT !.handed = @ + n, !.left = @ - n] ELSE NoRequest]
      /\ LimiterStays
  BY <1>2 DEF Receive, LimiterStays
<1>4. PICK q : q = [r EXCEPT !.handed = @ + n, !.left = @ - n]
  OBVIOUS
<1>5. /\ q \in Passed /\ q.stage = r.stage /\ q.path = r.path /\ q.genuine = r.genuine
      /\ q.handed = r.handed + n /\ q.role = r.role
  <2>1. r.left \in Nat /\ r.handed \in Nat
    BY DEF Passed
  <2>2. r.left - n \in Nat /\ r.handed + n \in Nat
    BY <1>3, <2>1
  <2>3. PICK left, handed : left = r.left - n /\ handed = r.handed + n
    OBVIOUS
  <2>4. q = [r EXCEPT !.handed = handed, !.left = left] /\ left \in Nat /\ handed \in Nat
    BY <1>4, <2>2, <2>3
  <2> QED
    BY <2>3, <2>4 DEF Passed
<1>6. Fits(r, n) => PassedTrue(q)
  BY <1>2, <1>3, <1>5 DEF Fits, PassedTrue
<1>7. pending' = [pending EXCEPT ![c] = IF Fits(r, n) THEN q ELSE NoRequest]
  BY <1>3, <1>4
<1> QED
  BY <1>3, <1>5, <1>6, <1>7, LimiterStaysStep

LEMMA DependStep ==
  ASSUME LimitsInv, NEW c \in Pending, Depend(c)
  PROVE  LimitsInv'
<1>1. pending[c] # NoRequest
  BY IdleFacts DEF Depend
<1>2. PICK r \in Passed : r = pending[c] /\ PassedTrue(r)
  BY <1>1, PassedFacts
<1>3. /\ pending' = [pending EXCEPT ![c] = IF Admits(r) THEN [r EXCEPT !.stage = "route"] ELSE NoRequest]
      /\ LimiterStays
  BY <1>2 DEF Depend, LimiterStays
<1>4. PICK q : q = [r EXCEPT !.stage = "route"]
  OBVIOUS
<1>5. /\ q \in Passed /\ q.path = r.path /\ q.genuine = r.genuine
      /\ q.handed = r.handed /\ q.role = r.role
  BY <1>4 DEF Passed
<1>6. Admits(r) => PassedTrue(q)
  BY <1>2, <1>5 DEF PassedTrue, Admits
<1>7. pending' = [pending EXCEPT ![c] = IF Admits(r) THEN q ELSE NoRequest]
  BY <1>3, <1>4
<1> QED
  BY <1>3, <1>5, <1>6, <1>7, LimiterStaysStep

LEMMA LimitsInvInit ==
  ASSUME LimitsInit
  PROVE  LimitsInv
<1>1. /\ hits \in [Buckets -> [Clients -> SUBSET Hit]] /\ admitted \in [Buckets -> [Clients -> SUBSET Hit]]
      /\ \A b \in Buckets, k \in Clients : hits[b][k] = {} /\ admitted[b][k] = {}
  BY DEF LimitsInit
<1>2. ListsTrue
  <2>1. \A now, limit : ListTrue({}, {}, now, limit)
    BY FS_EmptySet DEF ListTrue
  <2> QED
    BY <1>1, <2>1 DEF ListsTrue
<1> QED
  BY <1>1, <1>2 DEF LimitsInit, LimitsInv, PendingTrue

LEMMA LimitsInvNext ==
  ASSUME LimitsInv, [LimitsNext]_limitsVars
  PROVE  LimitsInv'
<1>1. CASE TickOn
  <2>1. /\ ticks' = ticks + 1 /\ authOn' = authOn /\ managed' = managed /\ hits' = hits
        /\ pending' = pending /\ admitted' = admitted /\ early' = early
    BY <1>1 DEF TickOn
  <2>2. ticks \in Nat /\ ListsTrue
    BY DEF LimitsInv
  <2>3. \A b \in Buckets, k \in Clients :
           ListTrue(admitted[b][k], hits[b][k], ticks + 1, RateLimit(b))
    BY <2>2, ListTick, LimitFacts DEF ListsTrue
  <2>4. ListsTrue'
    BY <2>1, <2>3 DEF ListsTrue, RateLimit
  <2>5. PendingTrue'
    BY <2>1 DEF LimitsInv, PendingTrue, PassedTrue, Admits
  <2> QED
    BY <2>1, <2>4, <2>5 DEF LimitsInv
<1>2. ASSUME NEW c \in Pending, Depend(c)
      PROVE  LimitsInv'
  BY <1>2, DependStep
<1>3. ASSUME NEW c \in Pending, Finish(c)
      PROVE  LimitsInv'
  BY <1>3, LimiterStaysStep DEF Finish, LimiterStays
<1>4. ASSUME NEW c \in Pending, NEW n \in 1 .. MaxBody, Receive(c, n)
      PROVE  LimitsInv'
  <2>1. n \in Nat
    BY LimitsAssumption
  <2> QED
    BY <1>4, <2>1, ReceiveBodyStep
<1>5. ASSUME NEW c \in Pending, NEW k \in Clients, NEW path \in Paths, NEW marked \in BOOLEAN,
             NEW origin \in {"none", "ours", "foreign"}, NEW length \in 0 .. MaxBody,
             NEW declared \in BOOLEAN, NEW role \in 0 .. 2,
             Arrive(c, k, path, Genuine(marked, origin), length, declared, role)
      PROVE  LimitsInv'
  <2>1. length \in Nat /\ Genuine(marked, origin) \in BOOLEAN
    BY LimitsAssumption DEF Genuine
  <2>2. PICK genuine \in BOOLEAN : genuine = Genuine(marked, origin)
    BY <2>1
  <2>3. Arrive(c, k, path, genuine, length, declared, role)
    BY <1>5, <2>2
  <2> QED
    BY <2>1, <2>3, ArriveStep
<1>6. CASE UNCHANGED limitsVars
  BY <1>6 DEF limitsVars, LimitsInv, ListsTrue, ListTrue, InWindow, RateLimit, PendingTrue, PassedTrue, Admits
<1> QED
  BY <1>1, <1>2, <1>3, <1>4, <1>5, <1>6 DEF LimitsNext

\* No window of time lets more requests of an address through than its limit, none
\* is refused that there was room for, no parser is handed more than the limit of
\* its path, and a route runs only behind every check.
THEOREM RequestsAlwaysBounded == LimitsSpec => []RequestsBounded
<1>1. LimitsSpec => []LimitsInv
  BY LimitsInvInit, LimitsInvNext, PTL DEF LimitsSpec
<1>2. ASSUME LimitsInv
      PROVE  RequestsBounded
  <2>1. WindowKept
    BY <1>2 DEF LimitsInv, ListsTrue, ListTrue, InWindow, WindowKept
  <2>2. NeverEarly
    BY <1>2 DEF LimitsInv, NeverEarly
  <2>3. OnlyChecked
    BY <1>2 DEF LimitsInv, PendingTrue, PassedTrue, Admits, OnlyChecked
  <2> QED
    BY <2>1, <2>2, <2>3 DEF RequestsBounded
<1> QED
  BY <1>1, <1>2, PTL
================================================================================
