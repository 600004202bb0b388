---------------------------- MODULE ChatRequests ----------------------------
(***************************************************************************)
(* A request that aggregates a period for the language model: chat, its    *)
(* preview and the incident timeline.  Permission before and after the     *)
(* body, the slots that bound the aggregation, what is cut and renamed so  *)
(* that the model may see it, and the rounds of web searches.              *)
(*                                                                         *)
(* A text is the set of names that occur in it and a size in tokens.  The  *)
(* language model and the search service are external: they answer         *)
(* anything or fail.                                                       *)
(***************************************************************************)
EXTENDS Integers, Sequences, FiniteSets, SequencesExt, FiniteSetsExt

CONSTANTS
    ChatUsers, Chats,      \* users, and requests under way at once
    GlobalSlots, UserSlots,
    MaxSearches,           \* chat_web_search_max_calls
    MaxCalls,              \* bound: tool calls in one answer of the model
    TokenBudget, SystemTokens, TurnOverhead, ImageTokens, CutSuffix,
    MaxTurns,              \* MAX_CHAT_MESSAGES
    Bodies,                \* what requests carry, with the data of their period
    VcenterNames,          \* names and hosts of the registered vCenters
    ShortName(_)           \* the first label of a qualified host name, or ""

ASSUME ChatAssumption ==
    /\ {GlobalSlots, UserSlots, MaxSearches, MaxCalls, MaxTurns} \subseteq Nat \ {0}
    /\ {TokenBudget, SystemTokens, TurnOverhead, ImageTokens, CutSuffix} \subseteq Nat
    /\ IsFiniteSet(Chats) /\ "" \notin ChatUsers
    /\ \A b \in Bodies :
          /\ b \in [json : Nat \ {0}, turns : Seq(Nat) \ {<<>>}, attachment : Nat, images : Nat,
                    seesImages : BOOLEAN, hosts : {b.hosts}, mentions : {b.mentions},
                    anonymise : BOOLEAN, production : BOOLEAN, search : BOOLEAN]
          /\ IsFiniteSet(b.hosts)

VARIABLES
    operators,  \* users who now have the role of an operator
    chat,       \* request -> its state
    taken,      \* slots in use
    takenBy     \* user -> slots in use

chatVars == <<operators, chat, taken, takenBy>>

NothingSent == [json |-> 0, turns |-> <<>>, attachment |-> 0, images |-> 0,
                jsonCut |-> FALSE, attachmentCut |-> FALSE, names |-> {}]

\* round, todo, open and searches are the state of run_chat_with_web_search:
\* calls of the model, tool calls of its last answer still to go through, tool
\* calls of the conversation with no answer, searches made.
NoChat == [pc |-> "idle", user |-> "", kind |-> "", body |-> <<>>, sent |-> NothingSent,
           round |-> 0, todo |-> 0, open |-> 0, searches |-> 0, sources |-> 0]

ChatInit ==
    /\ operators = ChatUsers
    /\ chat = [c \in Chats |-> NoChat]
    /\ taken = 0
    /\ takenBy = [u \in ChatUsers |-> 0]

-----------------------------------------------------------------------------
(* What is sent: the token budget.                                          *)

Size(json, turns, attachment, images) ==
    SystemTokens + json + FoldSeq(LAMBDA t, sum : t + sum, 0, turns) + attachment + images * ImageTokens
      + TurnOverhead * (2 + Len(turns) + (IF attachment > 0 THEN 1 ELSE 0))

FitsBudget(json, turns, attachment, images) ==
    Size(json, turns, attachment, images) <= TokenBudget

\* The longest text that fits once cut: whole, or with the mark of the cut.
\* The binary search finds it because a longer text has more tokens.
Shortened(whole, fitting) ==
    LET cut == fitting \cap (CutSuffix + 1 .. CutSuffix + whole - 1)
    IN IF whole \in fitting THEN whole ELSE IF cut = {} THEN 0 ELSE Max(cut)

\* _best_json_string_for_budget: where nothing fits one character is kept.
BestJson(b, turns) ==
    LET best == Shortened(b.json, {j \in 0 .. b.json + CutSuffix : FitsBudget(j, turns, b.attachment, b.images)})
    IN IF best = 0 THEN 1 + CutSuffix ELSE best

\* _best_attachment_block_for_budget: nothing is kept where nothing fits.
BestAttachment(b, json, turns) ==
    Shortened(b.attachment, {a \in 0 .. b.attachment + CutSuffix : FitsBudget(json, turns, a, b.images)})

LastTurns(b, k) == SubSeq(b.turns, Len(b.turns) - k + 1, Len(b.turns))

\* What goes out with these turns, once the JSON is cut as they need.
WithTurns(b, turns) ==
    [json |-> BestJson(b, turns), turns |-> turns, attachment |-> b.attachment, images |-> b.images,
     jsonCut |-> ~ FitsBudget(b.json, turns, b.attachment, b.images), attachmentCut |-> FALSE,
     names |-> {}]
Within(s) == FitsBudget(s.json, s.turns, s.attachment, s.images)

\* The JSON is cut first, then the oldest turns but the last, then the
\* attachment, then the last turn; at the end what is left is sent anyway.
\* Once the JSON had to be cut its flag stays, even if fewer turns let it whole.
FitPayload(b) ==
    LET kept == Min({MaxTurns, Len(b.turns)})
        enough == {k \in 1 .. kept : Within(WithTurns(b, LastTurns(b, k)))}
        one == WithTurns(b, LastTurns(b, 1))
        less == BestAttachment(b, one.json, one.turns)
        cutOne == [one EXCEPT !.attachment = less, !.attachmentCut = less # b.attachment]
        none == [WithTurns([b EXCEPT !.attachment = 0], <<>>)
                    EXCEPT !.attachmentCut = b.attachment > 0]
        chosen == IF enough # {} THEN WithTurns(b, LastTurns(b, Max(enough)))
                  ELSE IF Within(cutOne) THEN cutOne ELSE none
    IN [chosen EXCEPT !.jsonCut = @ \/ Len(chosen.turns) < kept]

-----------------------------------------------------------------------------
(* What is sent: names.  A token stands for the name it was issued for.     *)

Registered(b) == b.hosts \cup VcenterNames

\* Qualified names whose first label is this one, where it is no host itself.
QualifiedAs(b, s) == {h \in b.hosts : ShortName(h) = s /\ s \notin b.hosts}

\* _apply_entity_fqdn_short_aliases and token_for.
TokenFor(b, s) ==
    IF s \notin Registered(b) /\ Cardinality(QualifiedAs(b, s)) = 1
    THEN CHOOSE h \in QualifiedAs(b, s) : TRUE ELSE s

Tokenised(b) == Registered(b) \cup {s \in {ShortName(h) : h \in b.hosts} : s # ""}

\* anonymize_plain_text: the longest of the names that occur at a place is
\* replaced; of a qualified name that is not known only its first label may be.
Anonymised(b, mention) ==
    LET Shown(s) == [mention |-> mention, raw |-> FALSE, token |-> TokenFor(b, s)]
    IN IF mention \in Tokenised(b) THEN Shown(mention)
       ELSE IF ShortName(mention) \in Tokenised(b) THEN Shown(ShortName(mention))
       ELSE [mention |-> mention, raw |-> TRUE, token |-> mention]

\* The data of the period, the turns and the attachment go through one table.
NamesSent(b) ==
    IF b.anonymise
    THEN {Anonymised(b, m) : m \in b.hosts \cup b.mentions}
    ELSE {[mention |-> m, raw |-> TRUE, token |-> m] : m \in b.hosts \cup b.mentions}

\* build_chat_llm_context, and _accepted_attachments before it: images are left
\* out where the model takes none, texts are cut to the limit of a file.
Prepared(b) ==
    LET shown == IF b.seesImages THEN b ELSE [b EXCEPT !.images = 0]
    IN [FitPayload(shown) EXCEPT !.names = NamesSent(b)]

\* A preview in production renames whatever the setting says.
Previewed(b) == Prepared(IF b.production THEN [b EXCEPT !.anonymise = TRUE] ELSE b)

-----------------------------------------------------------------------------
(* A request up to its slot.                                                *)

ChatAt(c, pc) == chat[c].pc = pc
ChatTo(c, pc) == chat' = [chat EXCEPT ![c].pc = pc]
NeedsOperator(kind) == kind # "timeline"

\* _ChatRoute looks at the role before the body is read, the timeline does not.
ReceiveChat(c, u, kind) ==
    /\ ChatAt(c, "idle")
    /\ NeedsOperator(kind) => u \in operators
    /\ chat' = [chat EXCEPT ![c] = [NoChat EXCEPT !.pc = "reading", !.user = u, !.kind = kind]]
    /\ UNCHANGED <<operators, taken, takenBy>>

\* The body has arrived, and RequireOperator looks at the role again.
BodyRead(c) ==
    /\ ChatAt(c, "reading")
    /\ IF NeedsOperator(chat[c].kind) /\ chat[c].user \notin operators
       THEN chat' = [chat EXCEPT ![c] = NoChat]
       ELSE ChatTo(c, "allowed")
    /\ UNCHANGED <<operators, taken, takenBy>>

\* 404, 422, 503 (not configured) or 400 before the slot is asked for.
ChatRefused(c) ==
    /\ ChatAt(c, "allowed")
    /\ chat' = [chat EXCEPT ![c] = NoChat]
    /\ UNCHANGED <<operators, taken, takenBy>>

(* Mutant: the share of one user is not looked at. *)
TakeSlot_Unchecked(c) ==
    /\ ChatAt(c, "allowed")
    /\ taken < GlobalSlots
    /\ taken' = taken + 1
    /\ takenBy' = [takenBy EXCEPT ![chat[c].user] = @ + 1]
    /\ ChatTo(c, "aggregating")
    /\ UNCHANGED operators

\* try_acquire: it counts and takes in one step, or answers 503 at once.
TakeSlot(c) ==
    LET u == chat[c].user
    IN /\ ChatAt(c, "allowed")
       /\ taken < GlobalSlots /\ takenBy[u] < UserSlots
       /\ taken' = taken + 1
       /\ takenBy' = [takenBy EXCEPT ![u] = @ + 1]
       /\ ChatTo(c, "aggregating")
       /\ UNCHANGED operators

Busy(c) ==
    /\ ChatAt(c, "allowed")
    /\ taken >= GlobalSlots \/ takenBy[chat[c].user] >= UserSlots
    /\ chat' = [chat EXCEPT ![c] = NoChat]
    /\ UNCHANGED <<operators, taken, takenBy>>

ReleaseSlot(c) ==
    /\ taken' = Max({0, taken - 1})
    /\ takenBy' = [takenBy EXCEPT ![chat[c].user] = Max({0, @ - 1})]

(* Mutant: an aggregation that fails keeps its slot. *)
AggregationFails_SlotKept(c) ==
    /\ ChatAt(c, "aggregating")
    /\ chat' = [chat EXCEPT ![c] = NoChat]
    /\ UNCHANGED <<operators, taken, takenBy>>

\* Too many rows (422), an error of the database, or the request is cancelled.
AggregationFails(c) ==
    /\ ChatAt(c, "aggregating")
    /\ ReleaseSlot(c)
    /\ chat' = [chat EXCEPT ![c] = NoChat]
    /\ UNCHANGED operators

\* The slot is back before anything is sent.
Aggregated(c, state) ==
    /\ ChatAt(c, "aggregating")
    /\ ReleaseSlot(c)
    /\ chat' = [chat EXCEPT ![c] = state]
    /\ UNCHANGED operators

\* A timeline is the answer itself.
TimelineBuilt(c) == chat[c].kind = "timeline" /\ Aggregated(c, NoChat)

\* A chat goes on to the model with what fits.
ChatPrepared(c, b) ==
    /\ chat[c].kind = "chat"
    /\ Aggregated(c, [chat[c] EXCEPT !.pc = "asking", !.body = b, !.sent = Prepared(b)])

\* A preview is answered with what would be sent.
PreviewPrepared(c, b) ==
    /\ chat[c].kind = "preview"
    /\ Aggregated(c, [chat[c] EXCEPT !.pc = "previewed", !.body = b, !.sent = Previewed(b)])

-----------------------------------------------------------------------------
(* The model and its searches: run_period_chat, run_chat_with_web_search.   *)

\* An answer without tool calls ends the rounds; so does the last round, whose
\* text is then empty.
ModelAnswers(c) ==
    /\ ChatAt(c, "asking")
    /\ ChatTo(c, "answered")
    /\ UNCHANGED <<operators, taken, takenBy>>

ModelSearches(c, calls) ==
    /\ ChatAt(c, "asking")
    /\ chat[c].body.search
    /\ chat' = [chat EXCEPT ![c] = [chat[c] EXCEPT !.pc = "searching", !.round = @ + 1,
                                                   !.todo = calls, !.open = @ + calls]]
    /\ UNCHANGED <<operators, taken, takenBy>>

ModelFails(c) ==
    /\ chat[c].pc \in {"asking", "searching"}
    /\ ChatTo(c, "failed")
    /\ UNCHANGED <<operators, taken, takenBy>>

\* A search brings a source or fails; the model is told either.
Search(c, found) ==
    /\ ChatAt(c, "searching")
    /\ chat[c].todo > 0
    /\ chat[c].searches < MaxSearches
    /\ chat' = [chat EXCEPT ![c] = [chat[c] EXCEPT !.todo = @ - 1, !.open = @ - 1,
                                                   !.searches = @ + 1,
                                                   !.sources = @ + (IF found THEN 1 ELSE 0)]]
    /\ UNCHANGED <<operators, taken, takenBy>>

SearchLimited(c) ==
    /\ ChatAt(c, "searching")
    /\ chat[c].todo > 0
    /\ chat[c].searches >= MaxSearches
    /\ chat' = [chat EXCEPT ![c] = [chat[c] EXCEPT !.todo = @ - 1, !.open = @ - 1]]
    /\ UNCHANGED <<operators, taken, takenBy>>

NextRound(c) ==
    /\ ChatAt(c, "searching")
    /\ chat[c].todo = 0
    /\ ChatTo(c, IF chat[c].round < MaxSearches + 2 THEN "asking" ELSE "answered")
    /\ UNCHANGED <<operators, taken, takenBy>>

\* The tokens of the text are replaced, the sources and the stored research are
\* appended (not to a failure), and the answer is on its way.
ChatEnds(c) ==
    /\ chat[c].pc \in {"answered", "failed", "previewed"}
    /\ chat' = [chat EXCEPT ![c] = NoChat]
    /\ UNCHANGED <<operators, taken, takenBy>>

\* An administrator changes the role of a user.
RoleChanges(u) ==
    /\ operators' = IF u \in operators THEN operators \ {u} ELSE operators \cup {u}
    /\ UNCHANGED <<chat, taken, takenBy>>

ChatNext ==
    \/ \E c \in Chats :
          \/ \E u \in ChatUsers, kind \in {"chat", "preview", "timeline"} : ReceiveChat(c, u, kind)
          \/ BodyRead(c) \/ ChatRefused(c) \/ TakeSlot(c) \/ Busy(c) \/ AggregationFails(c)
          \/ TimelineBuilt(c)
          \/ \E b \in Bodies : ChatPrepared(c, b) \/ PreviewPrepared(c, b)
          \/ ModelAnswers(c) \/ ModelFails(c)
          \/ \E calls \in 1 .. MaxCalls : ModelSearches(c, calls)
          \/ \E found \in BOOLEAN : Search(c, found)
          \/ SearchLimited(c) \/ NextRound(c) \/ ChatEnds(c)
    \/ \E u \in ChatUsers : RoleChanges(u)

ChatSpec == ChatInit /\ [][ChatNext]_chatVars

(***************************************************************************)
(* Properties                                                              *)
(***************************************************************************)
\* Requests and counters have their shape.
ChatTypeOK ==
    /\ operators \subseteq ChatUsers
    /\ taken \in 0 .. GlobalSlots
    /\ \A u \in ChatUsers : takenBy[u] \in 0 .. UserSlots
    /\ \A c \in Chats :
          /\ chat[c].pc \in {"idle", "reading", "allowed", "aggregating", "asking", "searching",
                             "answered", "failed", "previewed"}
          /\ chat[c].user \in ChatUsers \cup {""}
          /\ chat[c].kind \in {"", "chat", "preview", "timeline"}
          /\ chat[c].round \in 0 .. MaxSearches + 2

\* A slot is in use exactly while its request aggregates, whatever ends that
\* (aggregation_slot, try_acquire, release).
SlotsAccounted ==
    LET Using(u) == {c \in Chats : ChatAt(c, "aggregating") /\ chat[c].user = u}
    IN /\ taken = Cardinality({c \in Chats : ChatAt(c, "aggregating")})
       /\ \A u \in ChatUsers : takenBy[u] = Cardinality(Using(u))

Sending(c) == chat[c].pc \in {"asking", "searching", "answered", "failed", "previewed"}

\* What is sent fits the budget unless nothing is left to give up, and what the
\* user asks about now is given up last (fit_chat_payload_to_token_budget).
SentWithinBudget ==
    \A c \in Chats : Sending(c) =>
        LET s == chat[c].sent
        IN /\ \/ FitsBudget(s.json, s.turns, s.attachment, s.images)
              \/ s.turns = <<>> /\ s.attachment = 0 /\ s.jsonCut
           /\ s.attachmentCut => s.jsonCut /\ Len(s.turns) <= 1
           /\ Len(s.turns) < Min({MaxTurns, Len(chat[c].body.turns)}) => s.jsonCut

\* The model sees no name the service knows, and a name that comes back in its
\* answer is the one that was meant (anonymize_chat_for_llm, deanonymize_text).
NamesComeBack ==
    \A c \in Chats : Sending(c) =>
        LET b == chat[c].body
        IN \A n \in chat[c].sent.names :
              /\ b.anonymise /\ n.mention \in Tokenised(b) => ~ n.raw
              /\ n.mention \in Tokenised(b) =>
                    \/ n.token = n.mention
                    \/ {h \in b.hosts : ShortName(h) = n.mention} = {n.token}

\* Whenever the model is called each of its tool calls has been answered, and no
\* more searches than allowed were made (run_chat_with_web_search).
CallsAnswered ==
    \A c \in Chats :
        /\ ChatAt(c, "asking") => chat[c].open = 0
        /\ chat[c].searches <= MaxSearches

\* A chat takes no more than its share, and the model gets what it should.
ChatPromises == SlotsAccounted /\ SentWithinBudget /\ NamesComeBack /\ CallsAnswered
=============================================================================
