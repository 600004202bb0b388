-------------------------- MODULE ChatRequests_proofs --------------------------
(***************************************************************************)
(* Theorems about a request that aggregates for the language model         *)
(* (ChatRequests), for any number of requests, any limits and payloads.    *)
(***************************************************************************)
EXTENDS ChatRequests, FiniteSetTheorems, SequenceTheorems, WellFoundedInduction, TLAPS

\* What a request carries, with its images left out and its names renamed or not.
Body ==
    [json : Nat \ {0}, turns : Seq(Nat) \ {<<>>}, attachment : Nat, images : Nat,
     seesImages : BOOLEAN, hosts : {b.hosts : b \in Bodies}, mentions : {b.mentions : b \in Bodies},
     anonymise : BOOLEAN, production : BOOLEAN, search : BOOLEAN]

\* SentWithinBudget of what is sent for a body.
BudgetKept(s, b) ==
    /\ \/ FitsBudget(s.json, s.turns, s.attachment, s.images)
       \/ s.turns = <<>> /\ s.attachment = 0 /\ s.jsonCut
    /\ s.attachmentCut => s.jsonCut /\ Len(s.turns) <= 1
    /\ Len(s.turns) < Min({MaxTurns, Len(b.turns)}) => s.jsonCut

\* NamesComeBack of the names that are sent for a body.
NamesKept(names, b) ==
    \A n \in names :
        /\ b.anonymise /\ n.mention \in Tokenised(b) => ~ n.raw
        /\ n.mention \in Tokenised(b) =>
              \/ n.token = n.mention
              \/ {h \in b.hosts : ShortName(h) = n.mention} = {n.token}

\* A request at each place.
InSlot == {"reading", "allowed", "aggregating"}
WithModel == {"asking", "searching", "answered", "failed", "previewed"}
Payloads == {NothingSent} \cup {Prepared(b) : b \in Bodies} \cup {Previewed(b) : b \in Bodies}
ChatRow ==
    [pc : {"idle"} \cup InSlot \cup WithModel, user : ChatUsers \cup {""},
     kind : {"", "chat", "preview", "timeline"}, body : Bodies \cup {<<>>}, sent : Payloads,
     round : Nat, todo : Nat, open : Nat, searches : Nat, sources : Nat]
ChatTrue(r) ==
    /\ r.pc \in InSlot => r.user \in ChatUsers /\ r.round = 0 /\ r.open = 0
    /\ r.pc \in WithModel =>
          r.body \in Bodies /\ BudgetKept(r.sent, r.body) /\ NamesKept(r.sent.names, r.body)
    /\ r.round <= MaxSearches + 2 /\ r.searches <= MaxSearches
    /\ r.pc = "asking" => r.open = 0 /\ r.round < MaxSearches + 2
    /\ r.pc = "searching" => r.open = r.todo

Holding(rows) == {c \in Chats : rows[c].pc = "aggregating"}
HoldingFor(rows, u) == {c \in Chats : rows[c].pc = "aggregating" /\ rows[c].user = u}
SlotsTrue(rows, all, by) ==
    /\ all = Cardinality(Holding(rows)) /\ all <= GlobalSlots
    /\ by \in [ChatUsers -> Nat]
    /\ \A u \in ChatUsers : by[u] = Cardinality(HoldingFor(rows, u)) /\ by[u] <= UserSlots

ChatInv ==
    /\ operators \subseteq ChatUsers
    /\ chat \in [Chats -> ChatRow]
    /\ \A c \in Chats : ChatTrue(chat[c])
    /\ SlotsTrue(chat, taken, takenBy)

\* The larger and the smaller of two numbers, and the largest of a set.
LEMMA TwoFacts ==
    ASSUME NEW m \in Nat, NEW n \in Nat
    PROVE  /\ Min({m, n}) \in {m, n} /\ Min({m, n}) <= m /\ Min({m, n}) <= n
           /\ n > 0 => Max({0, n - 1}) = n - 1
<1>1. \E x \in {m, n} : \A y \in {m, n} : x <= y
    OBVIOUS
<1>2. Min({m, n}) \in {m, n} /\ \A y \in {m, n} : Min({m, n}) <= y
    BY <1>1 DEF Min
<1>3. ASSUME n > 0 PROVE Max({0, n - 1}) = n - 1
    <2>1. \E x \in {0, n - 1} : \A y \in {0, n - 1} : x >= y
        BY <1>3
    <2>2. Max({0, n - 1}) \in {0, n - 1} /\ \A y \in {0, n - 1} : Max({0, n - 1}) >= y
        BY <2>1 DEF Max
    <2> QED
        BY <1>3, <2>2
<1> QED
    BY <1>2, <1>3

LEMMA LargestFacts ==
    ASSUME NEW most \in Nat, NEW S \in SUBSET (1 .. most), S # {}
    PROVE  Max(S) \in S
<1> DEFINE Left == {most - n : n \in S}
           R == OpToRel(<, Nat)
<1>1. Left \in SUBSET Nat
    <2>1. \A n \in S : n \in 1 .. most
        OBVIOUS
    <2>2. \A n \in 1 .. most : most - n \in Nat
        OBVIOUS
    <2> QED
        BY <2>1, <2>2
<1>2. Left # {}
    OBVIOUS
<1>3. \E x \in Left : \A y \in Left : ~ (<<y, x>> \in R)
    <2>1. IsWellFoundedOn(R, Nat)
        BY NatLessThanWellFounded
    <2> HIDE DEF Left, R
    <2> QED
        BY <1>1, <1>2, <2>1, WFMin
<1>4. PICK x \in Left : \A y \in Left : ~ (y < x)
    BY <1>1, <1>3 DEF OpToRel
<1>5. PICK n \in S : x = most - n
    OBVIOUS
<1>6. \A k \in S : n >= k
    <2>1. SUFFICES ASSUME NEW k \in S PROVE n >= k
        OBVIOUS
    <2>2. ~ (most - k < most - n)
        BY <1>4, <1>5
    <2>3. k \in Nat /\ n \in Nat
        OBVIOUS
    <2> QED
        BY <2>2, <2>3
<1> QED
    BY <1>6 DEF Max

\* What was cut until it fits says so, and the last turn goes last.
LEMMA FittedFacts ==
    ASSUME NEW b \in Body
    PROVE  BudgetKept(FitPayload(b), b)
<1> DEFINE kept == Min({MaxTurns, Len(b.turns)})
           Going(k) == WithTurns(b, LastTurns(b, k))
           enough == {k \in 1 .. kept : Within(Going(k))}
           one == Going(1)
           less == BestAttachment(b, one.json, one.turns)
           cutOne == [one EXCEPT !.attachment = less, !.attachmentCut = less # b.attachment]
           bare == [b EXCEPT !.attachment = 0]
           none == [WithTurns(bare, <<>>) EXCEPT !.attachmentCut = b.attachment > 0]
           chosen == IF enough # {} THEN Going(Max(enough))
                     ELSE IF Within(cutOne) THEN cutOne ELSE none
<1>1. FitPayload(b) = [chosen EXCEPT !.jsonCut = @ \/ Len(chosen.turns) < kept]
    BY DEF FitPayload
<1>2. b.turns \in Seq(Nat) /\ Len(b.turns) \in Nat \ {0} /\ b.json \in Nat \ {0}
      /\ b.attachment \in Nat
    <2>1. b.turns \in Seq(Nat) /\ b.turns # <<>> /\ b.json \in Nat \ {0} /\ b.attachment \in Nat
        BY DEF Body
    <2> QED
        BY <2>1, EmptySeq
<1>3. kept \in 1 .. Len(b.turns)
    <2>1. MaxTurns \in Nat \ {0}
        BY ChatAssumption
    <2>2. kept \in {MaxTurns, Len(b.turns)} /\ kept <= Len(b.turns)
        BY <1>2, <2>1, TwoFacts
    <2> QED
        BY <1>2, <2>1, <2>2
<1>4. ASSUME NEW k \in 1 .. kept PROVE Len(LastTurns(b, k)) = k
    <2> DEFINE m == Len(b.turns) - k + 1
               n == Len(b.turns)
    <2>1. m \in 1 .. n /\ n \in Nat /\ k = n - m + 1
        BY <1>2, <1>3
    <2>2. ASSUME NEW i \in m .. n PROVE b.turns[i] \in Nat
        <3>1. i \in 1 .. Len(b.turns)
            BY <2>1
        <3> QED
            BY <1>2, <3>1, ElementOfSeq
    <2>3. Len(SubSeq(b.turns, m, n)) = IF m <= n THEN n - m + 1 ELSE 0
        <3> HIDE DEF m, n
        <3> QED
            BY <2>1, <2>2, SubSeqProperties
    <2> QED
        BY <2>1, <2>3 DEF LastTurns
<1>5. ASSUME NEW turns, NEW a \in Nat, NEW w, w = [b EXCEPT !.attachment = a]
      PROVE  /\ WithTurns(w, turns).turns = turns
             /\ WithTurns(w, turns).attachment = a
             /\ WithTurns(w, turns).images = b.images
             /\ WithTurns(w, turns).attachmentCut = FALSE
             /\ ~ Within(WithTurns(w, turns)) => WithTurns(w, turns).jsonCut
    <2>1. w.json = b.json /\ w.attachment = a /\ w.images = b.images
        BY <1>5 DEF Body
    <2>2. FitsBudget(w.json, turns, w.attachment, w.images) =>
              BestJson(w, turns) = w.json
        <3> DEFINE fitting == {j \in 0 .. w.json + CutSuffix :
                                  FitsBudget(j, turns, w.attachment, w.images)}
        <3>1. ASSUME FitsBudget(w.json, turns, w.attachment, w.images) PROVE w.json \in fitting
            <4>1. w.json \in 0 .. w.json + CutSuffix
                <5>1. CutSuffix \in Nat
                    BY ChatAssumption
                <5> QED
                    BY <1>2, <2>1, <5>1
            <4> QED
                BY <3>1, <4>1
        <3>2. w.json \in fitting => Shortened(w.json, fitting) = w.json
            BY DEF Shortened
        <3> QED
            BY <1>2, <2>1, <3>1, <3>2 DEF BestJson
    <2>3. WithTurns(w, turns) =
              [json |-> BestJson(w, turns), turns |-> turns, attachment |-> a, images |-> b.images,
               jsonCut |-> ~ FitsBudget(b.json, turns, a, b.images), attachmentCut |-> FALSE,
               names |-> {}]
        BY <2>1 DEF WithTurns
    <2>4. Within(WithTurns(w, turns)) = FitsBudget(BestJson(w, turns), turns, a, b.images)
        BY <2>3 DEF Within
    <2>5. ASSUME ~ Within(WithTurns(w, turns)) PROVE WithTurns(w, turns).jsonCut
        <3>1. ~ FitsBudget(b.json, turns, a, b.images)
            BY <2>1, <2>2, <2>4, <2>5
        <3>2. WithTurns(w, turns).jsonCut = (~ FitsBudget(w.json, turns, w.attachment, w.images))
            BY DEF WithTurns
        <3>3. ~ FitsBudget(w.json, turns, w.attachment, w.images)
            BY <2>1, <3>1
        <3> QED
            BY <3>2, <3>3
    <2> QED
        BY <2>3, <2>5
<1>6. b = [b EXCEPT !.attachment = b.attachment]
    BY DEF Body
<1>7. CASE enough # {}
    <2>1. Max(enough) \in enough
        <3>1. kept \in Nat /\ enough \in SUBSET (1 .. kept)
            BY <1>3
        <3> HIDE DEF enough, kept
        <3> QED
            BY <1>7, <3>1, LargestFacts
    <2>2. PICK k \in 1 .. kept : k = Max(enough) /\ Within(Going(k))
        BY <2>1
    <2>3. chosen = Going(k)
        BY <1>7, <2>2
    <2>4. /\ Len(Going(k).turns) = k
          /\ Going(k).attachmentCut = FALSE
        <3>1. Len(LastTurns(b, k)) = k
            BY <1>4, <2>2
        <3>2. Going(k).turns = LastTurns(b, k) /\ Going(k).attachmentCut = FALSE
            BY DEF WithTurns
        <3> QED
            BY <3>1, <3>2
    <2>5. Within([Going(k) EXCEPT !.jsonCut = @ \/ Len(Going(k).turns) < kept])
        BY <2>2 DEF Within, WithTurns
    <2> DEFINE s == [Going(k) EXCEPT !.jsonCut = @ \/ Len(Going(k).turns) < kept]
    <2>6. s.turns = Going(k).turns /\ s.attachmentCut = FALSE
          /\ (s.jsonCut <=> Going(k).jsonCut \/ Len(Going(k).turns) < kept)
        BY <2>4 DEF WithTurns
    <2> QED
        BY <1>1, <2>3, <2>4, <2>5, <2>6 DEF BudgetKept, Within
<1> DEFINE sent(t) == [t EXCEPT !.jsonCut = @ \/ Len(t.turns) < kept]
<1>8. CASE enough = {}
    <2>1. 1 \in 1 .. kept /\ ~ Within(one)
        <3>1. 1 \in 1 .. kept
            BY <1>3
        <3>2. 1 \notin enough
            BY <1>8
        <3> QED
            BY <3>1, <3>2
    <2>2. Len(one.turns) = 1 /\ one.jsonCut
        <3>1. Len(LastTurns(b, 1)) = 1
            BY <1>4, <2>1
        <3>2. one.turns = LastTurns(b, 1)
            BY DEF WithTurns
        <3>3. one.jsonCut
            BY <1>2, <1>5, <1>6, <2>1
        <3> QED
            BY <3>1, <3>2, <3>3
    <2>3. CASE Within(cutOne)
        <3>1. chosen = cutOne
            BY <1>8, <2>3
        <3>2. /\ sent(cutOne).turns = one.turns
              /\ sent(cutOne).jsonCut
              /\ Within(sent(cutOne))
            <4>1. sent(cutOne).turns = one.turns /\ cutOne.turns = one.turns
                BY DEF WithTurns
            <4>2. Within(sent(cutOne))
                BY <2>3 DEF WithTurns, Within
            <4>3. cutOne.jsonCut = one.jsonCut
                BY DEF WithTurns
            <4>4. sent(cutOne).jsonCut = (cutOne.jsonCut \/ Len(cutOne.turns) < kept)
                BY DEF WithTurns
            <4> QED
                BY <2>2, <4>1, <4>2, <4>3, <4>4
        <3> QED
            <4> DEFINE t == FitPayload(b)
            <4>1. t = sent(cutOne)
                BY <1>1, <3>1
            <4>2. /\ Len(t.turns) <= 1 /\ t.jsonCut
                  /\ FitsBudget(t.json, t.turns, t.attachment, t.images)
                <5>1. Len(sent(cutOne).turns) = 1
                    BY <2>2, <3>2
                <5>2. FitsBudget(sent(cutOne).json, sent(cutOne).turns, sent(cutOne).attachment,
                                 sent(cutOne).images)
                    BY <3>2 DEF Within
                <5>3. t.jsonCut
                    BY <3>2, <4>1
                <5>4. Len(t.turns) = 1
                    BY <4>1, <5>1
                <5>5. FitsBudget(t.json, t.turns, t.attachment, t.images)
                    BY <4>1, <5>2
                <5> HIDE DEF sent, cutOne, t
                <5> QED
                    BY <5>3, <5>4, <5>5
            <4> HIDE DEF t
            <4> QED
                BY <4>2 DEF BudgetKept, t
    <2>4. CASE ~ Within(cutOne)
        <3>1. chosen = none
            BY <1>8, <2>4
        <3>2. none.turns = <<>> /\ none.attachment = 0
            BY <1>5, 0 \in Nat DEF WithTurns
        <3>3. sent(none).turns = <<>> /\ sent(none).attachment = 0
            BY <3>2 DEF WithTurns
        <3>4. sent(none).jsonCut = (none.jsonCut \/ Len(none.turns) < kept)
            BY DEF WithTurns
        <3>5. Len(none.turns) = 0 /\ 0 < kept
            BY <1>3, <3>2
        <3> QED
            <4> DEFINE t == FitPayload(b)
            <4>1. t = sent(none)
                BY <1>1, <3>1
            <4>2. t.turns = <<>> /\ t.attachment = 0
                BY <3>3, <4>1
            <4>3. t.jsonCut
                BY <3>4, <3>5, <4>1
            <4>4. Len(t.turns) <= 1
                BY <4>2
            <4> HIDE DEF t
            <4> QED
                BY <4>2, <4>3, <4>4 DEF BudgetKept, t
    <2> QED
        BY <2>3, <2>4
<1> QED
    BY <1>7, <1>8

\* What is sent has its fields, whichever way it was fitted.
SentFields == {"json", "turns", "attachment", "images", "jsonCut", "attachmentCut", "names"}
LEMMA FittedShape ==
    ASSUME NEW b
    PROVE  DOMAIN FitPayload(b) = SentFields
<1> DEFINE kept == Min({MaxTurns, Len(b.turns)})
           enough == {k \in 1 .. kept : Within(WithTurns(b, LastTurns(b, k)))}
           one == WithTurns(b, LastTurns(b, 1))
           less == BestAttachment(b, one.json, one.turns)
           cutOne == [one EXCEPT !.attachment = less, !.attachmentCut = less # b.attachment]
           none == [WithTurns([b EXCEPT !.attachment = 0], <<>>)
                       EXCEPT !.attachmentCut = b.attachment > 0]
           chosen == IF enough # {} THEN WithTurns(b, LastTurns(b, Max(enough)))
                     ELSE IF Within(cutOne) THEN cutOne ELSE none
<1>1. ASSUME NEW w, NEW turns PROVE DOMAIN WithTurns(w, turns) = SentFields
    BY DEF WithTurns, SentFields
<1>2. ASSUME NEW s, DOMAIN s = SentFields, NEW x
      PROVE  /\ DOMAIN [s EXCEPT !.attachmentCut = x] = SentFields
             /\ DOMAIN [s EXCEPT !.jsonCut = x] = SentFields
             /\ DOMAIN [s EXCEPT !.attachment = x] = SentFields
    BY <1>2
<1>3. DOMAIN cutOne = SentFields
    <2>1. cutOne = [[one EXCEPT !.attachment = less] EXCEPT !.attachmentCut = less # b.attachment]
        OBVIOUS
    <2>2. DOMAIN [one EXCEPT !.attachment = less] = SentFields
        BY <1>1, <1>2
    <2> QED
        BY <2>1, <2>2
<1>4. DOMAIN none = SentFields
    BY <1>1
<1>5. DOMAIN chosen = SentFields
    <2> HIDE DEF enough, cutOne, none
    <2> QED
        BY <1>1, <1>3, <1>4
<1>6. FitPayload(b) = [chosen EXCEPT !.jsonCut = chosen.jsonCut \/ Len(chosen.turns) < kept]
    BY DEF FitPayload
<1> HIDE DEF chosen, kept
<1> QED
    BY <1>5, <1>6

\* A token stands for one name.
LEMMA NamesFacts ==
    ASSUME NEW b \in Body, IsFiniteSet(b.hosts)
    PROVE  NamesKept(NamesSent(b), b)
<1>1. ASSUME NEW s PROVE TokenFor(b, s) = s \/ {h \in b.hosts : ShortName(h) = s} = {TokenFor(b, s)}
    <2>1. ASSUME s \notin Registered(b), Cardinality(QualifiedAs(b, s)) = 1
          PROVE  {h \in b.hosts : ShortName(h) = s} = {TokenFor(b, s)}
        <3>1. QualifiedAs(b, s) = {h \in b.hosts : ShortName(h) = s}
            BY <2>1 DEF QualifiedAs, Registered
        <3>2. IsFiniteSet(QualifiedAs(b, s))
            <4>1. QualifiedAs(b, s) \in SUBSET b.hosts
                BY DEF QualifiedAs
            <4> QED
                BY <4>1, FS_Subset
        <3>3. PICK x : QualifiedAs(b, s) = {x}
            BY <2>1, <3>2, FS_Singleton
        <3>4. TokenFor(b, s) = x
            BY <2>1, <3>3 DEF TokenFor
        <3> QED
            BY <3>1, <3>3, <3>4
    <2> QED
        BY <2>1 DEF TokenFor
<1>2. ASSUME NEW m
      PROVE  /\ Anonymised(b, m).mention = m
             /\ m \in Tokenised(b) => Anonymised(b, m).raw = FALSE
             /\ m \in Tokenised(b) => Anonymised(b, m).token = TokenFor(b, m)
    BY DEF Anonymised
<1>3. CASE b.anonymise
    <2>1. NamesSent(b) = {Anonymised(b, m) : m \in b.hosts \cup b.mentions}
        BY <1>3 DEF NamesSent
    <2>2. ASSUME NEW m PROVE
              /\ b.anonymise /\ Anonymised(b, m).mention \in Tokenised(b) => ~ Anonymised(b, m).raw
              /\ Anonymised(b, m).mention \in Tokenised(b) =>
                    \/ Anonymised(b, m).token = Anonymised(b, m).mention
                    \/ {h \in b.hosts : ShortName(h) = Anonymised(b, m).mention}
                         = {Anonymised(b, m).token}
        <3>1. CASE m \in Tokenised(b)
            <4>1. Anonymised(b, m).mention = m /\ Anonymised(b, m).raw = FALSE
                  /\ Anonymised(b, m).token = TokenFor(b, m)
                BY <1>2, <3>1
            <4>2. TokenFor(b, m) = m \/ {h \in b.hosts : ShortName(h) = m} = {TokenFor(b, m)}
                BY <1>1
            <4> QED
                BY <4>1, <4>2
        <3>2. CASE m \notin Tokenised(b)
            BY <1>2, <3>2
        <3> QED
            BY <3>1, <3>2
    <2> QED
        BY <2>1, <2>2 DEF NamesKept
<1>4. CASE ~ b.anonymise
    <2>1. NamesSent(b) =
              {[mention |-> m, raw |-> TRUE, token |-> m] : m \in b.hosts \cup b.mentions}
        BY <1>4 DEF NamesSent
    <2> QED
        BY <1>4, <2>1 DEF NamesKept
<1> QED
    BY <1>3, <1>4

\* What goes out for a body, sent or shown, keeps the budget and the names.
LEMMA PreparedFacts ==
    ASSUME NEW b \in Body, IsFiniteSet(b.hosts)
    PROVE  BudgetKept(Prepared(b), b) /\ NamesKept(Prepared(b).names, b)
<1> DEFINE shown == IF b.seesImages THEN b ELSE [b EXCEPT !.images = 0]
           fitted == FitPayload(shown)
<1>1. shown \in Body /\ shown.turns = b.turns
    <2>1. [b EXCEPT !.images = 0] \in Body /\ [b EXCEPT !.images = 0].turns = b.turns
        BY DEF Body
    <2> QED
        BY <2>1
<1>2. BudgetKept(fitted, shown) /\ DOMAIN fitted = SentFields
    <2> HIDE DEF shown
    <2> QED
        BY <1>1, FittedFacts, FittedShape
<1>3. Prepared(b) = [fitted EXCEPT !.names = NamesSent(b)]
    BY DEF Prepared
<1> HIDE DEF fitted, shown
<1>4. /\ Prepared(b).json = fitted.json /\ Prepared(b).turns = fitted.turns
      /\ Prepared(b).attachment = fitted.attachment /\ Prepared(b).images = fitted.images
      /\ Prepared(b).jsonCut = fitted.jsonCut /\ Prepared(b).attachmentCut = fitted.attachmentCut
      /\ Prepared(b).names = NamesSent(b)
    BY <1>2, <1>3 DEF SentFields
<1>5. BudgetKept(Prepared(b), b)
    BY <1>1, <1>2, <1>4 DEF BudgetKept
<1> QED
    BY <1>4, <1>5, NamesFacts

LEMMA PreviewedFacts ==
    ASSUME NEW b \in Body, IsFiniteSet(b.hosts)
    PROVE  BudgetKept(Previewed(b), b) /\ NamesKept(Previewed(b).names, b)
<1>1. CASE b.production
    <2> DEFINE renamed == [b EXCEPT !.anonymise = TRUE]
    <2>1. renamed \in Body /\ renamed.turns = b.turns /\ renamed.hosts = b.hosts
          /\ renamed.anonymise = TRUE
        BY DEF Body
    <2>2. Previewed(b) = Prepared(renamed)
        BY <1>1 DEF Previewed
    <2>3. Tokenised(renamed) = Tokenised(b)
        BY <2>1 DEF Tokenised, Registered
    <2> HIDE DEF renamed
    <2>4. BudgetKept(Prepared(renamed), renamed) /\ NamesKept(Prepared(renamed).names, renamed)
        BY <2>1, PreparedFacts
    <2>5. BudgetKept(Prepared(renamed), b)
        BY <2>1, <2>4 DEF BudgetKept
    <2>6. NamesKept(Prepared(renamed).names, b)
        BY <2>1, <2>3, <2>4 DEF NamesKept
    <2> QED
        BY <2>2, <2>5, <2>6
<1>2. CASE ~ b.production
    BY <1>2, PreparedFacts DEF Previewed
<1> QED
    BY <1>1, <1>2

LEMMA BodyFacts ==
    ASSUME NEW b \in Bodies
    PROVE  b \in Body /\ IsFiniteSet(b.hosts)
<1>1. /\ b \in [json : Nat \ {0}, turns : Seq(Nat) \ {<<>>}, attachment : Nat, images : Nat,
                seesImages : BOOLEAN, hosts : {b.hosts}, mentions : {b.mentions},
                anonymise : BOOLEAN, production : BOOLEAN, search : BOOLEAN]
      /\ IsFiniteSet(b.hosts)
    BY ChatAssumption
<1> QED
    BY <1>1 DEF Body

-----------------------------------------------------------------------------
(* The slots.                                                               *)

LEMMA HoldingFacts ==
    ASSUME NEW rows, NEW u
    PROVE  /\ IsFiniteSet(Holding(rows)) /\ IsFiniteSet(HoldingFor(rows, u))
           /\ Cardinality(Holding(rows)) \in Nat /\ Cardinality(HoldingFor(rows, u)) \in Nat
<1>1. IsFiniteSet(Chats)
    BY ChatAssumption
<1>2. Holding(rows) \in SUBSET Chats /\ HoldingFor(rows, u) \in SUBSET Chats
    BY DEF Holding, HoldingFor
<1>3. IsFiniteSet(Holding(rows)) /\ IsFiniteSet(HoldingFor(rows, u))
    BY <1>1, <1>2, FS_Subset
<1> QED
    BY <1>3, FS_CardinalityType

\* One request changes.
ChatChanges(c, rows, rows2) ==
    /\ rows \in [Chats -> ChatRow] /\ rows2 \in [Chats -> ChatRow]
    /\ \A d \in Chats \ {c} : rows2[d] = rows[d]

LEMMA SlotsKept ==
    ASSUME NEW c \in Chats, NEW rows, NEW rows2, NEW all, NEW by, ChatChanges(c, rows, rows2),
           SlotsTrue(rows, all, by), rows[c].pc # "aggregating", rows2[c].pc # "aggregating"
    PROVE  SlotsTrue(rows2, all, by)
<1>1. Holding(rows2) = Holding(rows)
    BY DEF Holding, ChatChanges
<1>2. \A u \in ChatUsers : HoldingFor(rows2, u) = HoldingFor(rows, u)
    BY DEF HoldingFor, ChatChanges
<1> QED
    BY <1>1, <1>2 DEF SlotsTrue

LEMMA SlotTaken ==
    ASSUME NEW c \in Chats, NEW rows, NEW rows2, NEW all, NEW by, ChatChanges(c, rows, rows2),
           SlotsTrue(rows, all, by), rows[c].pc # "aggregating", rows2[c].pc = "aggregating",
           NEW u \in ChatUsers, rows2[c].user = u, all < GlobalSlots, by[u] < UserSlots
    PROVE  SlotsTrue(rows2, all + 1, [by EXCEPT ![u] = @ + 1])
<1>1. Holding(rows2) = Holding(rows) \cup {c} /\ c \notin Holding(rows)
    BY DEF Holding, ChatChanges
<1>2. HoldingFor(rows2, u) = HoldingFor(rows, u) \cup {c} /\ c \notin HoldingFor(rows, u)
    BY DEF HoldingFor, ChatChanges
<1>3. \A w \in ChatUsers \ {u} : HoldingFor(rows2, w) = HoldingFor(rows, w)
    BY DEF HoldingFor, ChatChanges
<1>4. /\ Cardinality(Holding(rows2)) = all + 1
      /\ Cardinality(HoldingFor(rows2, u)) = by[u] + 1
    <2>1. all = Cardinality(Holding(rows)) /\ by[u] = Cardinality(HoldingFor(rows, u))
        BY DEF SlotsTrue
    <2>2. IsFiniteSet(Holding(rows)) /\ IsFiniteSet(HoldingFor(rows, u))
        BY HoldingFacts
    <2>3. Cardinality(Holding(rows) \cup {c}) = Cardinality(Holding(rows)) + 1
        BY <1>1, <2>2, FS_AddElement
    <2>4. Cardinality(HoldingFor(rows, u) \cup {c}) = Cardinality(HoldingFor(rows, u)) + 1
        BY <1>2, <2>2, FS_AddElement
    <2> QED
        BY <1>1, <1>2, <2>1, <2>3, <2>4
<1>5. all \in Nat /\ GlobalSlots \in Nat /\ UserSlots \in Nat /\ by \in [ChatUsers -> Nat]
    BY ChatAssumption, HoldingFacts DEF SlotsTrue
<1>6. all + 1 <= GlobalSlots /\ by[u] + 1 <= UserSlots
    BY <1>5
<1>7. ASSUME NEW w \in ChatUsers
      PROVE  /\ [by EXCEPT ![u] = @ + 1][w] = Cardinality(HoldingFor(rows2, w))
             /\ [by EXCEPT ![u] = @ + 1][w] <= UserSlots
    <2>1. CASE w = u
        BY <1>4, <1>5, <1>6, <2>1
    <2>2. CASE w # u
        BY <1>3, <1>5, <2>2 DEF SlotsTrue
    <2> QED
        BY <2>1, <2>2
<1>8. [by EXCEPT ![u] = @ + 1] \in [ChatUsers -> Nat]
    BY <1>5
<1> QED
    BY <1>4, <1>6, <1>7, <1>8 DEF SlotsTrue

LEMMA SlotReturned ==
    ASSUME NEW c \in Chats, NEW rows, NEW rows2, NEW all, NEW by, ChatChanges(c, rows, rows2),
           SlotsTrue(rows, all, by), rows[c].pc = "aggregating", rows2[c].pc # "aggregating",
           NEW u \in ChatUsers, rows[c].user = u
    PROVE  SlotsTrue(rows2, Max({0, all - 1}), [by EXCEPT ![u] = Max({0, @ - 1})])
<1>1. Holding(rows2) = Holding(rows) \ {c} /\ c \in Holding(rows)
    BY DEF Holding, ChatChanges
<1>2. HoldingFor(rows2, u) = HoldingFor(rows, u) \ {c} /\ c \in HoldingFor(rows, u)
    BY DEF HoldingFor, ChatChanges
<1>3. \A w \in ChatUsers \ {u} : HoldingFor(rows2, w) = HoldingFor(rows, w)
    BY DEF HoldingFor, ChatChanges
<1>4. all = Cardinality(Holding(rows)) /\ by[u] = Cardinality(HoldingFor(rows, u))
    BY DEF SlotsTrue
<1>5. all \in Nat /\ GlobalSlots \in Nat /\ UserSlots \in Nat /\ by \in [ChatUsers -> Nat]
    BY ChatAssumption, HoldingFacts DEF SlotsTrue
<1>6. /\ Cardinality(Holding(rows2)) = all - 1 /\ all > 0
      /\ Cardinality(HoldingFor(rows2, u)) = by[u] - 1 /\ by[u] > 0
    <2>1. IsFiniteSet(Holding(rows)) /\ IsFiniteSet(HoldingFor(rows, u))
        BY HoldingFacts
    <2>2. Cardinality(Holding(rows) \ {c}) = Cardinality(Holding(rows)) - 1
        BY <1>1, <2>1, FS_RemoveElement
    <2>3. Cardinality(HoldingFor(rows, u) \ {c}) = Cardinality(HoldingFor(rows, u)) - 1
        BY <1>2, <2>1, FS_RemoveElement
    <2>4. Cardinality(Holding(rows2)) \in Nat /\ Cardinality(HoldingFor(rows2, u)) \in Nat
        BY HoldingFacts
    <2> QED
        BY <1>1, <1>2, <1>4, <1>5, <2>2, <2>3, <2>4
<1>7. Max({0, all - 1}) = all - 1 /\ Max({0, by[u] - 1}) = by[u] - 1
    BY <1>5, <1>6, TwoFacts
<1>8. [by EXCEPT ![u] = Max({0, @ - 1})] = [by EXCEPT ![u] = by[u] - 1]
    BY <1>7
<1>9. ASSUME NEW w \in ChatUsers
      PROVE  /\ [by EXCEPT ![u] = by[u] - 1][w] = Cardinality(HoldingFor(rows2, w))
             /\ [by EXCEPT ![u] = by[u] - 1][w] <= UserSlots
    <2>1. CASE w = u
        <3>1. by[u] <= UserSlots
            BY DEF SlotsTrue
        <3> QED
            BY <1>5, <1>6, <2>1, <3>1
    <2>2. CASE w # u
        BY <1>3, <1>5, <2>2 DEF SlotsTrue
    <2> QED
        BY <2>1, <2>2
<1>10. [by EXCEPT ![u] = by[u] - 1] \in [ChatUsers -> Nat]
    BY <1>5, <1>6
<1>11. all - 1 <= GlobalSlots
    BY <1>5 DEF SlotsTrue
<1> QED
    BY <1>6, <1>7, <1>8, <1>9, <1>10, <1>11 DEF SlotsTrue

-----------------------------------------------------------------------------
(* Steps.                                                                   *)

LEMMA NoChatFacts == NoChat \in ChatRow /\ ChatTrue(NoChat) /\ NoChat.pc = "idle"
<1>1. NothingSent \in Payloads
    BY DEF Payloads
<1>2. NoChat \in ChatRow
    BY <1>1 DEF NoChat, ChatRow, InSlot, WithModel
<1>3. MaxSearches \in Nat
    BY ChatAssumption
<1>4. ChatTrue(NoChat)
    BY <1>3 DEF NoChat, ChatTrue, InSlot, WithModel
<1> QED
    BY <1>2, <1>4 DEF NoChat

\* One request goes on, and holds a slot neither before nor after.
LEMMA RowStep ==
    ASSUME ChatInv, NEW c \in Chats, NEW r \in ChatRow, ChatTrue(r), chat' = [chat EXCEPT ![c] = r]
    PROVE  /\ ChatChanges(c, chat, chat') /\ chat'[c] = r
           /\ chat' \in [Chats -> ChatRow] /\ \A d \in Chats : ChatTrue(chat'[d])
<1>1. chat \in [Chats -> ChatRow] /\ \A d \in Chats : ChatTrue(chat[d])
    BY DEF ChatInv
<1>2. chat' \in [Chats -> ChatRow] /\ chat'[c] = r /\ \A d \in Chats \ {c} : chat'[d] = chat[d]
    BY <1>1
<1>3. \A d \in Chats : ChatTrue(chat'[d])
    BY <1>1, <1>2
<1> QED
    BY <1>1, <1>2, <1>3 DEF ChatChanges

LEMMA QuietChat ==
    ASSUME ChatInv, NEW c \in Chats, NEW r \in ChatRow, ChatTrue(r), chat' = [chat EXCEPT ![c] = r],
           chat[c].pc # "aggregating", r.pc # "aggregating",
           UNCHANGED <<operators, taken, takenBy>>
    PROVE  ChatInv'
<1>1. /\ ChatChanges(c, chat, chat') /\ chat'[c] = r
      /\ chat' \in [Chats -> ChatRow] /\ \A d \in Chats : ChatTrue(chat'[d])
    BY RowStep
<1>2. SlotsTrue(chat, taken, takenBy)
    BY DEF ChatInv
<1>3. SlotsTrue(chat', taken, takenBy)
    BY <1>1, <1>2, SlotsKept
<1> QED
    BY <1>1, <1>3 DEF ChatInv

LEMMA RowFacts ==
    ASSUME ChatInv, NEW c \in Chats
    PROVE  /\ chat[c] \in ChatRow /\ ChatTrue(chat[c])
           /\ chat[c].round \in Nat /\ chat[c].todo \in Nat /\ chat[c].open \in Nat
           /\ chat[c].searches \in Nat /\ chat[c].sources \in Nat /\ MaxSearches \in Nat
    BY ChatAssumption DEF ChatInv, ChatRow

\* Only the place of a request changes.
LEMMA PlaceFacts ==
    ASSUME ChatInv, NEW c \in Chats, NEW p \in {"idle"} \cup InSlot \cup WithModel,
           NEW r, r = [chat[c] EXCEPT !.pc = p]
    PROVE  /\ r \in ChatRow /\ r.pc = p /\ r.user = chat[c].user /\ r.kind = chat[c].kind
           /\ r.body = chat[c].body /\ r.sent = chat[c].sent /\ r.round = chat[c].round
           /\ r.todo = chat[c].todo /\ r.open = chat[c].open /\ r.searches = chat[c].searches
<1>1. chat[c] \in ChatRow
    BY RowFacts
<1> QED
    BY <1>1 DEF ChatRow

LEMMA ReceiveChatStep ==
    ASSUME ChatInv, NEW c \in Chats, NEW u \in ChatUsers, NEW kind \in {"chat", "preview", "timeline"},
           ReceiveChat(c, u, kind)
    PROVE  ChatInv'
<1>1. PICK r : r = [NoChat EXCEPT !.pc = "reading", !.user = u, !.kind = kind]
    OBVIOUS
<1>2. r = [pc |-> "reading", user |-> u, kind |-> kind, body |-> <<>>, sent |-> NothingSent,
           round |-> 0, todo |-> 0, open |-> 0, searches |-> 0, sources |-> 0]
    BY <1>1 DEF NoChat
<1>3. r \in ChatRow
    <2>1. NothingSent \in Payloads
        BY DEF Payloads
    <2> QED
        BY <1>2, <2>1 DEF ChatRow, InSlot
<1>4. MaxSearches \in Nat
    BY ChatAssumption
<1>5. ChatTrue(r)
    BY <1>2, <1>4 DEF ChatTrue, InSlot, WithModel
<1>6. chat' = [chat EXCEPT ![c] = r] /\ chat[c].pc = "idle"
      /\ UNCHANGED <<operators, taken, takenBy>>
    BY <1>1 DEF ReceiveChat, ChatAt
<1> QED
    BY <1>2, <1>3, <1>5, <1>6, QuietChat

LEMMA LeaveStep ==
    ASSUME ChatInv, NEW c \in Chats, chat' = [chat EXCEPT ![c] = NoChat],
           chat[c].pc # "aggregating", UNCHANGED <<operators, taken, takenBy>>
    PROVE  ChatInv'
    BY NoChatFacts, QuietChat

LEMMA BodyReadStep ==
    ASSUME ChatInv, NEW c \in Chats, BodyRead(c)
    PROVE  ChatInv'
<1>1. chat[c].pc = "reading" /\ UNCHANGED <<operators, taken, takenBy>>
    BY DEF BodyRead, ChatAt
<1>2. CASE chat' = [chat EXCEPT ![c] = NoChat]
    BY <1>1, <1>2, LeaveStep
<1>3. CASE ChatTo(c, "allowed")
    <2>1. PICK r : r = [chat[c] EXCEPT !.pc = "allowed"]
        OBVIOUS
    <2>2. chat' = [chat EXCEPT ![c] = r]
        BY <1>3, <2>1 DEF ChatTo
    <2>3. "allowed" \in {"idle"} \cup InSlot \cup WithModel
        BY DEF InSlot
    <2>4. r \in ChatRow /\ r.pc = "allowed" /\ r.user = chat[c].user /\ r.round = chat[c].round
          /\ r.open = chat[c].open /\ r.searches = chat[c].searches
        BY <2>1, <2>3, PlaceFacts
    <2>5. ChatTrue(r)
        BY <1>1, <2>4, RowFacts DEF ChatTrue, InSlot, WithModel
    <2> QED
        BY <1>1, <2>2, <2>4, <2>5, QuietChat
<1> QED
    BY <1>2, <1>3 DEF BodyRead

LEMMA TakeSlotStep ==
    ASSUME ChatInv, NEW c \in Chats, TakeSlot(c)
    PROVE  ChatInv'
<1> DEFINE u == chat[c].user
<1>1. /\ chat[c].pc = "allowed" /\ taken < GlobalSlots /\ takenBy[u] < UserSlots
      /\ taken' = taken + 1 /\ takenBy' = [takenBy EXCEPT ![u] = @ + 1]
      /\ operators' = operators
    BY DEF TakeSlot, ChatAt
<1>2. PICK r : r = [chat[c] EXCEPT !.pc = "aggregating"]
    OBVIOUS
<1>3. chat' = [chat EXCEPT ![c] = r]
    BY <1>2 DEF TakeSlot, ChatTo
<1>4. "aggregating" \in {"idle"} \cup InSlot \cup WithModel
    BY DEF InSlot
<1>5. r \in ChatRow /\ r.pc = "aggregating" /\ r.user = u /\ r.round = chat[c].round
      /\ r.open = chat[c].open /\ r.searches = chat[c].searches
    BY <1>2, <1>4, PlaceFacts
<1>6. u \in ChatUsers /\ ChatTrue(r)
    BY <1>1, <1>5, RowFacts DEF ChatTrue, InSlot, WithModel
<1>7. /\ ChatChanges(c, chat, chat') /\ chat'[c] = r
      /\ chat' \in [Chats -> ChatRow] /\ \A d \in Chats : ChatTrue(chat'[d])
    BY <1>3, <1>5, <1>6, RowStep
<1>8. SlotsTrue(chat', taken + 1, [takenBy EXCEPT ![u] = @ + 1])
    <2>1. SlotsTrue(chat, taken, takenBy)
        BY DEF ChatInv
    <2> HIDE DEF u
    <2> QED
        BY <1>1, <1>5, <1>6, <1>7, <2>1, SlotTaken
<1> QED
    BY <1>1, <1>7, <1>8 DEF ChatInv

\* A slot comes back, whatever becomes of its request.
LEMMA ReleaseStep ==
    ASSUME ChatInv, NEW c \in Chats, NEW r \in ChatRow, ChatTrue(r), chat' = [chat EXCEPT ![c] = r],
           chat[c].pc = "aggregating", r.pc # "aggregating", ReleaseSlot(c), operators' = operators
    PROVE  ChatInv'
<1>1. /\ ChatChanges(c, chat, chat') /\ chat'[c] = r
      /\ chat' \in [Chats -> ChatRow] /\ \A d \in Chats : ChatTrue(chat'[d])
    BY RowStep
<1>2. chat[c].user \in ChatUsers /\ SlotsTrue(chat, taken, takenBy)
    BY RowFacts DEF ChatTrue, InSlot, ChatInv
<1>3. SlotsTrue(chat', Max({0, taken - 1}), [takenBy EXCEPT ![chat[c].user] = Max({0, @ - 1})])
    <2>1. PICK u \in ChatUsers : u = chat[c].user
        BY <1>2
    <2>2. SlotsTrue(chat', Max({0, taken - 1}), [takenBy EXCEPT ![u] = Max({0, @ - 1})])
        BY <1>1, <1>2, <2>1, SlotReturned
    <2> QED
        BY <2>1, <2>2
<1>4. SlotsTrue(chat', taken', takenBy')
    BY <1>3 DEF ReleaseSlot
<1> QED
    BY <1>1, <1>4 DEF ChatInv

\* A request with its slot gets what is sent for it.
LEMMA PayloadStep ==
    ASSUME ChatInv, NEW c \in Chats, NEW b \in Bodies, NEW p \in {"asking", "previewed"},
           NEW s \in Payloads, BudgetKept(s, b), NamesKept(s.names, b),
           Aggregated(c, [chat[c] EXCEPT !.pc = p, !.body = b, !.sent = s])
    PROVE  ChatInv'
<1>1. PICK q : q = [chat[c] EXCEPT !.pc = p]
    OBVIOUS
<1>2. PICK r : r = [chat[c] EXCEPT !.pc = p, !.body = b, !.sent = s]
    OBVIOUS
<1>3. r = [[q EXCEPT !.body = b] EXCEPT !.sent = s]
    BY <1>1, <1>2
<1>4. p \in {"idle"} \cup InSlot \cup WithModel
    BY DEF WithModel
<1>5. q \in ChatRow /\ q.pc = p /\ q.user = chat[c].user /\ q.round = chat[c].round
      /\ q.open = chat[c].open /\ q.searches = chat[c].searches
    BY <1>1, <1>4, PlaceFacts
<1>6. r \in ChatRow /\ r.pc = p /\ r.user = chat[c].user /\ r.round = chat[c].round
      /\ r.open = chat[c].open /\ r.searches = chat[c].searches /\ r.body = b /\ r.sent = s
    BY <1>3, <1>5 DEF ChatRow
<1>7. /\ chat[c].pc = "aggregating" /\ ReleaseSlot(c) /\ operators' = operators
      /\ chat' = [chat EXCEPT ![c] = r]
    BY <1>2 DEF Aggregated, ChatAt
<1>8. chat[c].round = 0 /\ chat[c].open = 0 /\ chat[c].searches <= MaxSearches /\ MaxSearches \in Nat
    BY <1>7, RowFacts DEF ChatTrue, InSlot
<1>9. ChatTrue(r)
    BY <1>6, <1>8 DEF ChatTrue, InSlot, WithModel
<1> QED
    BY <1>6, <1>7, <1>9, ReleaseStep

LEMMA PreparedStep ==
    ASSUME ChatInv, NEW c \in Chats, NEW b \in Bodies, ChatPrepared(c, b) \/ PreviewPrepared(c, b)
    PROVE  ChatInv'
<1>1. b \in Body /\ IsFiniteSet(b.hosts)
    BY BodyFacts
<1>2. CASE ChatPrepared(c, b)
    <2>1. PICK s : s = Prepared(b)
        OBVIOUS
    <2>2. s \in Payloads /\ BudgetKept(s, b) /\ NamesKept(s.names, b)
        BY <1>1, <2>1, PreparedFacts DEF Payloads
    <2>3. Aggregated(c, [chat[c] EXCEPT !.pc = "asking", !.body = b, !.sent = s])
        BY <1>2, <2>1 DEF ChatPrepared
    <2> QED
        BY <2>2, <2>3, PayloadStep
<1>3. CASE PreviewPrepared(c, b)
    <2>1. PICK s : s = Previewed(b)
        OBVIOUS
    <2>2. s \in Payloads /\ BudgetKept(s, b) /\ NamesKept(s.names, b)
        BY <1>1, <2>1, PreviewedFacts DEF Payloads
    <2>3. Aggregated(c, [chat[c] EXCEPT !.pc = "previewed", !.body = b, !.sent = s])
        BY <1>3, <2>1 DEF PreviewPrepared
    <2> QED
        BY <2>2, <2>3, PayloadStep
<1> QED
    BY <1>2, <1>3

LEMMA AnswerStep ==
    ASSUME ChatInv, NEW c \in Chats, NEW p \in {"answered", "failed"}, ChatTo(c, p),
           chat[c].pc \in {"asking", "searching"}, UNCHANGED <<operators, taken, takenBy>>
    PROVE  ChatInv'
<1>1. PICK r : r = [chat[c] EXCEPT !.pc = p]
    OBVIOUS
<1>2. p \in {"idle"} \cup InSlot \cup WithModel
    BY DEF WithModel
<1>3. r \in ChatRow /\ r.pc = p /\ r.body = chat[c].body /\ r.sent = chat[c].sent
      /\ r.round = chat[c].round /\ r.searches = chat[c].searches
    BY <1>1, <1>2, PlaceFacts
<1>4. ChatTrue(r)
    BY <1>3, RowFacts DEF ChatTrue, InSlot, WithModel
<1>5. chat' = [chat EXCEPT ![c] = r]
    BY <1>1 DEF ChatTo
<1> QED
    BY <1>3, <1>4, <1>5, QuietChat

LEMMA ModelSearchesStep ==
    ASSUME ChatInv, NEW c \in Chats, NEW calls \in 1 .. MaxCalls, ModelSearches(c, calls)
    PROVE  ChatInv'
<1>1. chat[c].pc = "asking" /\ UNCHANGED <<operators, taken, takenBy>>
    BY DEF ModelSearches, ChatAt
<1>2. PICK q : q = [chat[c] EXCEPT !.pc = "searching"]
    OBVIOUS
<1>3. PICK r : r = [chat[c] EXCEPT !.pc = "searching", !.round = @ + 1, !.todo = calls,
                                   !.open = @ + calls]
    OBVIOUS
<1>4. calls \in Nat /\ chat[c].open = 0 /\ chat[c].round \in Nat /\ chat[c].round < MaxSearches + 2
      /\ MaxSearches \in Nat
    <2>1. calls \in Nat
        <3>1. MaxCalls \in Nat
            BY ChatAssumption
        <3> QED
            BY <3>1
    <2> QED
        BY <1>1, <2>1, RowFacts DEF ChatTrue
<1>5. q \in ChatRow /\ q.pc = "searching" /\ q.body = chat[c].body /\ q.sent = chat[c].sent
      /\ q.round = chat[c].round /\ q.open = chat[c].open /\ q.searches = chat[c].searches
    <2>1. "searching" \in {"idle"} \cup InSlot \cup WithModel
        BY DEF WithModel
    <2> QED
        BY <1>2, <2>1, PlaceFacts
<1>6. PICK n : n = chat[c].round + 1
    OBVIOUS
<1>7. r = [[[q EXCEPT !.round = n] EXCEPT !.todo = calls] EXCEPT !.open = calls]
    <2>1. PICK row : row = chat[c]
        OBVIOUS
    <2>2. row \in ChatRow /\ row.open + calls = calls /\ row.round + 1 = n
        BY <1>4, <1>6, <2>1, RowFacts
    <2>3. q = [row EXCEPT !.pc = "searching"]
        BY <1>2, <2>1
    <2>4. r = [row EXCEPT !.pc = "searching", !.round = n, !.todo = calls, !.open = calls]
        BY <1>3, <2>1, <2>2 DEF ChatRow
    <2> QED
        BY <2>3, <2>4
<1>8. r \in ChatRow /\ r.pc = "searching" /\ r.body = chat[c].body /\ r.sent = chat[c].sent
      /\ r.round = n /\ r.open = calls /\ r.todo = calls /\ r.searches = chat[c].searches
    <2>1. n \in Nat
        BY <1>4, <1>6
    <2> QED
        BY <1>4, <1>5, <1>7, <2>1 DEF ChatRow
<1>9. n <= MaxSearches + 2
    BY <1>4, <1>6
<1>10. ChatTrue(r)
    BY <1>1, <1>8, <1>9, RowFacts DEF ChatTrue, InSlot, WithModel
<1>11. chat' = [chat EXCEPT ![c] = r]
    BY <1>3 DEF ModelSearches
<1> QED
    BY <1>1, <1>8, <1>10, <1>11, QuietChat

\* A tool call is answered, by a search or by the limit.
LEMMA CallStep ==
    ASSUME ChatInv, NEW c \in Chats, NEW searches \in Nat, NEW sources \in Nat,
           searches <= MaxSearches, chat[c].pc = "searching", chat[c].todo > 0,
           chat' = [chat EXCEPT ![c] = [chat[c] EXCEPT !.todo = @ - 1, !.open = @ - 1,
                                                 !.searches = searches, !.sources = sources]],
           UNCHANGED <<operators, taken, takenBy>>
    PROVE  ChatInv'
<1>1. PICK q : q = chat[c]
    OBVIOUS
<1>2. q \in ChatRow /\ ChatTrue(q) /\ q.pc = "searching" /\ q.todo \in Nat /\ q.open = q.todo
      /\ q.todo > 0
    BY <1>1, RowFacts DEF ChatTrue
<1>3. PICK n \in Nat : n = q.todo - 1
    BY <1>2
<1>4. PICK r : r = [[[[q EXCEPT !.todo = n] EXCEPT !.open = n] EXCEPT !.searches = searches]
                       EXCEPT !.sources = sources]
    OBVIOUS
<1>5. chat' = [chat EXCEPT ![c] = r]
    <2>1. [q EXCEPT !.todo = @ - 1, !.open = @ - 1, !.searches = searches, !.sources = sources] = r
        BY <1>2, <1>3, <1>4 DEF ChatRow
    <2> QED
        BY <1>1, <2>1
<1>6. r \in ChatRow /\ r.pc = "searching" /\ r.body = q.body /\ r.sent = q.sent
      /\ r.round = q.round /\ r.open = n /\ r.todo = n /\ r.searches = searches
    BY <1>2, <1>4 DEF ChatRow
<1>7. ChatTrue(r)
    BY <1>2, <1>6 DEF ChatTrue, InSlot, WithModel
<1> QED
    BY <1>5, <1>6, <1>7, QuietChat

LEMMA SearchStep ==
    ASSUME ChatInv, NEW c \in Chats, NEW found \in BOOLEAN, Search(c, found)
    PROVE  ChatInv'
<1>1. PICK searches, sources :
          /\ searches = chat[c].searches + 1
          /\ sources = chat[c].sources + (IF found THEN 1 ELSE 0)
    OBVIOUS
<1>2. searches \in Nat /\ sources \in Nat /\ searches <= MaxSearches
    BY <1>1, RowFacts DEF Search
<1>3. chat' = [chat EXCEPT ![c] = [chat[c] EXCEPT !.todo = @ - 1, !.open = @ - 1,
                                            !.searches = searches, !.sources = sources]]
    <2>1. [chat[c] EXCEPT !.todo = @ - 1, !.open = @ - 1, !.searches = @ + 1,
                          !.sources = @ + (IF found THEN 1 ELSE 0)]
            = [chat[c] EXCEPT !.todo = @ - 1, !.open = @ - 1,
                              !.searches = searches, !.sources = sources]
        BY <1>1, RowFacts DEF ChatRow
    <2> QED
        BY <2>1 DEF Search
<1>4. chat[c].pc = "searching" /\ chat[c].todo > 0 /\ UNCHANGED <<operators, taken, takenBy>>
    BY DEF Search, ChatAt
<1> QED
    BY <1>2, <1>3, <1>4, CallStep

LEMMA SearchLimitedStep ==
    ASSUME ChatInv, NEW c \in Chats, SearchLimited(c)
    PROVE  ChatInv'
<1>1. PICK searches, sources : searches = chat[c].searches /\ sources = chat[c].sources
    OBVIOUS
<1>2. searches \in Nat /\ sources \in Nat /\ searches <= MaxSearches
    BY <1>1, RowFacts DEF ChatTrue
<1>3. chat' = [chat EXCEPT ![c] = [chat[c] EXCEPT !.todo = @ - 1, !.open = @ - 1,
                                            !.searches = searches, !.sources = sources]]
    <2>1. [chat[c] EXCEPT !.todo = @ - 1, !.open = @ - 1]
            = [chat[c] EXCEPT !.todo = @ - 1, !.open = @ - 1,
                              !.searches = searches, !.sources = sources]
        BY <1>1, RowFacts DEF ChatRow
    <2> QED
        BY <2>1 DEF SearchLimited
<1>4. chat[c].pc = "searching" /\ chat[c].todo > 0 /\ UNCHANGED <<operators, taken, takenBy>>
    BY DEF SearchLimited, ChatAt
<1> QED
    BY <1>2, <1>3, <1>4, CallStep

LEMMA NextRoundStep ==
    ASSUME ChatInv, NEW c \in Chats, NextRound(c)
    PROVE  ChatInv'
<1>1. /\ chat[c].pc = "searching" /\ chat[c].todo = 0 /\ UNCHANGED <<operators, taken, takenBy>>
      /\ \/ ChatTo(c, "asking") /\ chat[c].round < MaxSearches + 2
         \/ ChatTo(c, "answered")
    BY DEF NextRound, ChatAt
<1>2. CASE ChatTo(c, "asking") /\ chat[c].round < MaxSearches + 2
    <2>1. PICK r : r = [chat[c] EXCEPT !.pc = "asking"]
        OBVIOUS
    <2>2. "asking" \in {"idle"} \cup InSlot \cup WithModel
        BY DEF WithModel
    <2>3. r \in ChatRow /\ r.pc = "asking" /\ r.body = chat[c].body /\ r.sent = chat[c].sent
          /\ r.round = chat[c].round /\ r.open = chat[c].open /\ r.searches = chat[c].searches
        BY <2>1, <2>2, PlaceFacts
    <2>4. chat[c].open = 0
        BY <1>1, RowFacts DEF ChatTrue
    <2>5. ChatTrue(r)
        BY <1>1, <1>2, <2>3, <2>4, RowFacts DEF ChatTrue, InSlot, WithModel
    <2>6. chat' = [chat EXCEPT ![c] = r]
        BY <1>2, <2>1 DEF ChatTo
    <2> QED
        BY <1>1, <2>3, <2>5, <2>6, QuietChat
<1>3. CASE ChatTo(c, "answered")
    BY <1>1, <1>3, AnswerStep
<1> QED
    BY <1>1, <1>2, <1>3

LEMMA ChatInvInit == ChatInit => ChatInv
<1> SUFFICES ASSUME ChatInit PROVE ChatInv
    OBVIOUS
<1>1. chat = [c \in Chats |-> NoChat] /\ taken = 0 /\ takenBy = [u \in ChatUsers |-> 0]
      /\ operators = ChatUsers
    BY DEF ChatInit
<1>2. chat \in [Chats -> ChatRow] /\ \A c \in Chats : ChatTrue(chat[c]) /\ chat[c].pc = "idle"
    BY <1>1, NoChatFacts
<1>3. Holding(chat) = {} /\ \A u \in ChatUsers : HoldingFor(chat, u) = {}
    BY <1>2 DEF Holding, HoldingFor
<1>4. SlotsTrue(chat, taken, takenBy)
    <2>1. Cardinality({}) = 0 /\ GlobalSlots \in Nat /\ UserSlots \in Nat
        BY FS_EmptySet, ChatAssumption
    <2> QED
        BY <1>1, <1>3, <2>1 DEF SlotsTrue
<1> QED
    BY <1>1, <1>2, <1>4 DEF ChatInv

LEMMA ChatInvNext == ChatInv /\ [ChatNext]_chatVars => ChatInv'
<1> SUFFICES ASSUME ChatInv, [ChatNext]_chatVars PROVE ChatInv'
    OBVIOUS
<1>1. CASE UNCHANGED chatVars
    BY <1>1 DEF chatVars, ChatInv
<1>2. ASSUME NEW u \in ChatUsers, RoleChanges(u) PROVE ChatInv'
    BY <1>2 DEF RoleChanges, ChatInv
<1>3. ASSUME NEW c \in Chats,
             \/ \E u \in ChatUsers, kind \in {"chat", "preview", "timeline"} : ReceiveChat(c, u, kind)
             \/ BodyRead(c) \/ TakeSlot(c)
             \/ \E b \in Bodies : ChatPrepared(c, b) \/ PreviewPrepared(c, b)
             \/ \E calls \in 1 .. MaxCalls : ModelSearches(c, calls)
             \/ \E found \in BOOLEAN : Search(c, found)
             \/ SearchLimited(c) \/ NextRound(c)
      PROVE  ChatInv'
    BY <1>3, ReceiveChatStep, BodyReadStep, TakeSlotStep, PreparedStep, ModelSearchesStep, SearchStep,
       SearchLimitedStep, NextRoundStep
<1>4. ASSUME NEW c \in Chats, ChatRefused(c) \/ Busy(c) \/ ChatEnds(c) PROVE ChatInv'
    <2>1. /\ chat' = [chat EXCEPT ![c] = NoChat] /\ chat[c].pc # "aggregating"
          /\ UNCHANGED <<operators, taken, takenBy>>
        BY <1>4 DEF ChatRefused, Busy, ChatEnds, ChatAt
    <2> QED
        BY <2>1, LeaveStep
<1>5. ASSUME NEW c \in Chats, AggregationFails(c) \/ TimelineBuilt(c) PROVE ChatInv'
    <2>1. /\ chat' = [chat EXCEPT ![c] = NoChat] /\ chat[c].pc = "aggregating"
          /\ ReleaseSlot(c) /\ operators' = operators
        BY <1>5 DEF AggregationFails, TimelineBuilt, Aggregated, ChatAt
    <2> QED
        BY <2>1, NoChatFacts, ReleaseStep
<1>6. ASSUME NEW c \in Chats, ModelAnswers(c) \/ ModelFails(c) PROVE ChatInv'
    <2>1. /\ ChatTo(c, "answered") \/ ChatTo(c, "failed")
          /\ chat[c].pc \in {"asking", "searching"} /\ UNCHANGED <<operators, taken, takenBy>>
        BY <1>6 DEF ModelAnswers, ModelFails, ChatAt
    <2> QED
        BY <2>1, AnswerStep
<1> QED
    BY <1>1, <1>2, <1>3, <1>4, <1>5, <1>6 DEF ChatNext

LEMMA ChatInv_Promises == ChatInv => ChatTypeOK /\ ChatPromises
<1> SUFFICES ASSUME ChatInv PROVE ChatTypeOK /\ ChatPromises
    OBVIOUS
<1>1. MaxSearches \in Nat /\ GlobalSlots \in Nat /\ UserSlots \in Nat
    BY ChatAssumption
<1>2. SlotsTrue(chat, taken, takenBy) /\ chat \in [Chats -> ChatRow] /\ operators \subseteq ChatUsers
    BY DEF ChatInv
<1>3. ChatTypeOK
    <2>1. taken \in 0 .. GlobalSlots /\ \A u \in ChatUsers : takenBy[u] \in 0 .. UserSlots
        BY <1>1, <1>2, HoldingFacts DEF SlotsTrue
    <2>2. ASSUME NEW c \in Chats
          PROVE  /\ chat[c].pc \in {"idle", "reading", "allowed", "aggregating", "asking", "searching",
                                    "answered", "failed", "previewed"}
                 /\ chat[c].user \in ChatUsers \cup {""}
                 /\ chat[c].kind \in {"", "chat", "preview", "timeline"}
                 /\ chat[c].round \in 0 .. MaxSearches + 2
        <3>1. chat[c] \in ChatRow /\ chat[c].round \in Nat /\ chat[c].round <= MaxSearches + 2
            BY RowFacts DEF ChatTrue
        <3>2. chat[c].round \in 0 .. MaxSearches + 2
            BY <1>1, <3>1
        <3> QED
            BY <3>1, <3>2 DEF ChatRow, InSlot, WithModel
    <2> QED
        BY <1>2, <2>1, <2>2 DEF ChatTypeOK
<1>4. SlotsAccounted
    BY <1>2 DEF SlotsTrue, SlotsAccounted, Holding, HoldingFor, ChatAt
<1>5. ASSUME NEW c \in Chats, Sending(c)
      PROVE  BudgetKept(chat[c].sent, chat[c].body) /\ NamesKept(chat[c].sent.names, chat[c].body)
    BY <1>5, RowFacts DEF Sending, ChatTrue, WithModel
<1>6. SentWithinBudget
    BY <1>5 DEF SentWithinBudget, BudgetKept
<1>7. NamesComeBack
    BY <1>5 DEF NamesComeBack, NamesKept
<1>8. CallsAnswered
    BY RowFacts DEF CallsAnswered, ChatTrue, ChatAt
<1> QED
    BY <1>3, <1>4, <1>6, <1>7, <1>8 DEF ChatPromises

\* Slots are counted exactly and never exceeded, what is sent keeps the budget or has
\* nothing left to give up, known names do not go out and come back as what was meant,
\* and no tool call stays open (aggregation_slot, fit_chat_payload_to_token_budget,
\* anonymize_chat_for_llm, run_chat_with_web_search).
THEOREM ChatKeepsPromises == ChatSpec => [](ChatTypeOK /\ ChatPromises)
<1>1. ChatInit => ChatInv
    BY ChatInvInit
<1>2. ChatInv /\ [ChatNext]_chatVars => ChatInv'
    BY ChatInvNext
<1>3. ChatInv => ChatTypeOK /\ ChatPromises
    BY ChatInv_Promises
<1> QED
    BY <1>1, <1>2, <1>3, PTL DEF ChatSpec
==============================================================================
