--------------------------- MODULE LostFoundAgent ---------------------------
(***************************************************************************)
(* The lost-and-found agent in one conversation with one user: the request *)
(* limits, the rules that fill in a report or a claim over several         *)
(* messages, the confirmations, the calls of the backend and the ranking   *)
(* of the items found.  The conversation's context travels with each call; *)
(* what a call that did not fail returns is laid over what was kept before. *)
(*                                                                         *)
(* A message is reduced to the intent the rules detect in it and the parts *)
(* of a report or a claim they extract; the interpretation by the language *)
(* model may add any of its own.  Claims are made in the backend of        *)
(* LostFoundClaims, while others claim and decide.                         *)
(***************************************************************************)
EXTENDS LostFoundClaims, SequencesExt

CONSTANTS
  User,         \* who talks to the agent
  Topics,       \* what a conversation may be about
  Minimum,      \* the least score of a match that is shown, in percent
  ShownAtMost,  \* the longest list of matches
  PerMinute, PerSession, Window, ConfirmTTL,
  MaxTime, MaxTurns, MaxAsked   \* bounds: the clock, the messages, the confirmations

ASSUME AgentAssumption ==
  /\ User \in Users
  /\ {Minimum, ShownAtMost, PerMinute, PerSession, Window, ConfirmTTL,
      MaxTime, MaxTurns, MaxAsked} \subseteq Nat

VARIABLES
  now,      \* the clock
  topic,    \* what this conversation is about
  ctx,      \* the context of the conversation
  calls,    \* the invocations in progress: a message, or a confirmation and its retry
  asked,    \* the confirmations shown to the user; the id of one is its place
  pending,  \* ConfirmationStore: the ids that can still be consumed
  limiter,  \* RateLimiter: the calls of the last minute, and how many in the session
  shown,    \* the matches shown last, with the query and the candidates
  turns,    \* messages so far
  accepted, \* history: the time of every call let through since the process started
  heard,    \* history: when the user last told each part well, in a message that was not lost
  wanted,   \* history: the intent the user last expressed in such a message
  sent      \* history: the writes sent to the backend

agentVars ==
  <<now, topic, ctx, calls, asked, pending, limiter, shown, turns, accepted, heard, wanted, sent>>
deskVars == <<agentVars, vars>>

Slots == {1, 2}
Parts == {"item", "description", "date", "report", "proof"}
Required == [report_lost |-> {"item", "description", "date"},
             report_found |-> {"item", "description", "date"},
             claim_item |-> {"report", "proof"}]
Writes == DOMAIN Required

\* A topic names known parts and reports, and bounds the transactions in progress
\* at once by the slots it names.  A report number that counts as told is
\* a good one: there is nothing to check about it.
GoodParts(parts) ==
  /\ DOMAIN parts \subseteq Parts /\ \A p \in DOMAIN parts : parts[p] \in BOOLEAN
  /\ "report" \in DOMAIN parts => parts["report"]
ASSUME TopicsAssumption ==
  \A o \in Topics :
    /\ \A m \in o.messages \cup o.guesses : GoodParts(m.parts)
    /\ o.reports \subseteq Reports /\ o.requests \subseteq Requests

\* A part of the context: the turn that told it, and whether it is valid.
Missing == [by |-> 0, ok |-> TRUE]
EmptyContext == [intent |-> NULL, parts |-> [p \in Parts |-> Missing]]

DeskInit ==
  /\ Init /\ now = 0 /\ topic \in Topics /\ ctx = EmptyContext
  /\ calls = [s \in Slots |-> NULL] /\ asked = <<>> /\ pending = {}
  /\ limiter = [events |-> <<>>, session |-> 0]
  /\ shown = NULL /\ turns = 0
  /\ accepted = <<>> /\ heard = [p \in Parts |-> 0] /\ wanted = NULL /\ sent = <<>>

(***************************************************************************)
(* RateLimiter.check                                                       *)
(***************************************************************************)
Recent == SelectSeq(limiter.events, LAMBDA t : now - t < Window)

\* Mutant: one call too many.
AllowsOneMore == Len(Recent) <= PerMinute /\ limiter.session < PerSession

Allows == Len(Recent) < PerMinute /\ limiter.session < PerSession

LetThrough ==
  /\ Allows
  /\ limiter' = [events |-> Append(Recent, now), session |-> limiter.session + 1]
  /\ accepted' = Append(accepted, now)

\* Refused: the caller hears of a failure.
TurnedAway == ~Allows /\ limiter' = [limiter EXCEPT !.events = Recent] /\ UNCHANGED accepted

(***************************************************************************)
(* Matching                                                                *)
(***************************************************************************)
Weights == [text |-> 25, visual |-> 20, cross_modal |-> 10, category |-> 20,
            location |-> 10, temporal |-> 10, colour |-> 5, histogram |-> 10]

\* _calibrate: a cosine in percent, stretched to 0..100.
Calibrate(v, lower, upper) ==
  IF v <= lower THEN 0 ELSE IF v >= upper THEN 100 ELSE ((v - lower) * 100) \div (upper - lower)

Calibrated(name, v) ==
  CASE name = "visual" -> Calibrate(v, 50, 95)
    [] name = "cross_modal" -> Calibrate(v, 15, 40)
    [] OTHER -> v

\* date_similarity of two days so many apart
DateSimilarity(days) ==
  CASE days = 0 -> 100 [] days = 1 -> 90 [] days \in 2..3 -> 70
    [] days \in 4..7 -> 50 [] days \in 8..30 -> 20 [] OTHER -> 0

\* temporal_similarity, with the times of day in hours, NULL if not known
TemporalSimilarity(days, t1, t2) ==
  IF t1 = NULL \/ t2 = NULL THEN DateSimilarity(days)
  ELSE LET apart == IF t1 > t2 THEN t1 - t2 ELSE t2 - t1
           around == IF apart > 12 THEN 24 - apart ELSE apart
       IN (80 * DateSimilarity(days) + 20 * (100 - (100 * around) \div 12)) \div 100

\* The images of both sides, compared with the model or else by colour.
VisualParts(cand) ==
  DOMAIN cand.images \cap (IF "visual" \in DOMAIN cand.images THEN {"visual", "cross_modal"}
                           ELSE {"histogram", "cross_modal"})

\* _score_candidate_detailed: the components that count.
Components(q, cand) ==
  (IF "item" \in q THEN {"text", "category", "location", "colour"}
   ELSE IF "description" \in q THEN {"text"} ELSE {})
  \cup (IF "date" \in q THEN {"temporal"} ELSE {}) \cup VisualParts(cand)

Similarity(name, cand) ==
  CASE name = "temporal" -> TemporalSimilarity(cand.days, cand.asked, cand.at)
    [] name \in DOMAIN cand.images -> Calibrated(name, cand.images[name])
    [] OTHER -> cand[name]

\* The weighted mean of the components that count, in percent.
Score(q, cand) ==
  LET names == Components(q, cand)
      Part(name) == Weights[name] * Similarity(name, cand)
      Weight(name) == Weights[name]
  IN IF names = {} THEN 0 ELSE MapThenSumSet(Part, names) \div MapThenSumSet(Weight, names)

\* Mutant: the list is cut before it is sorted.
RankCandidatesCut(q, cands) ==
  SelectSeq(SubSeq(cands, 1, IF Len(cands) < ShownAtMost THEN Len(cands) ELSE ShownAtMost),
            LAMBDA c : Score(q, c) >= Minimum)

\* rank_candidates
RankCandidates(q, cands) ==
  LET good == SortSeq(SelectSeq(cands, LAMBDA c : Score(q, c) >= Minimum),
                      LAMBDA c, d : Score(q, c) > Score(q, d))
  IN SubSeq(good, 1, IF Len(good) < ShownAtMost THEN Len(good) ELSE ShownAtMost)

\* _search_candidates: what the backend returned is ranked and shown.
Shows(q) ==
  \E cands \in topic.found :
    shown' = [query |-> q, candidates |-> cands, matches |-> RankCandidates(q, cands)]

(***************************************************************************)
(* Reading a message                                                       *)
(***************************************************************************)
\* Mutant: the model's reading of the intent goes before that of the conversation.
IntentOfGuess(c, m, guess) ==
  IF m.intent # NULL THEN m.intent ELSE IF guess # NULL THEN guess.intent
  ELSE IF c.intent # NULL THEN c.intent ELSE "search_found_items"

\* handle: this message, or else the conversation, or else the model.
IntentOf(c, m, guess) ==
  IF m.intent # NULL THEN m.intent ELSE IF c.intent # NULL THEN c.intent
  ELSE IF guess # NULL THEN guess.intent ELSE "search_found_items"

\* extract_fields: a long message about a report that does not name the item
\* is its description.
ExtractFields(m, intent) ==
  [p \in DOMAIN m.parts \cup
         (IF /\ intent \in {"report_lost", "report_found"} /\ m.long
             /\ "item" \notin DOMAIN m.parts
          THEN {"description"} ELSE {}) |->
     [by |-> turns, ok |-> IF p \in DOMAIN m.parts THEN m.parts[p] ELSE TRUE]]

InterpretedFields(guess) ==
  IF guess = NULL THEN <<>> ELSE [p \in DOMAIN guess.parts |-> [by |-> turns, ok |-> guess.parts[p]]]

Updated(parts, news) == [p \in Parts |-> IF p \in DOMAIN news THEN news[p] ELSE parts[p]]

\* Mutant: what is known already is not overwritten.
MergedKeeping(c, m, guess) ==
  LET intent == IntentOf(c, m, guess)
      news == Updated(Updated(EmptyContext.parts, ExtractFields(m, intent)), InterpretedFields(guess))
  IN [intent |-> intent, parts |-> [p \in Parts |-> IF c.parts[p].by > 0 THEN c.parts[p] ELSE news[p]]]

\* The context with what this message and then the model say.
Merged(c, m, guess) ==
  LET intent == IntentOf(c, m, guess)
  IN [intent |-> intent,
      parts |-> Updated(Updated(c.parts, ExtractFields(m, intent)), InterpretedFields(guess))]

\* Mutant: a date in the future is kept.
DropInvalidFieldsNot(c) == c

\* drop_invalid_fields, for the fields of a report.
DropInvalidFields(c) ==
  [c EXCEPT !.parts = [p \in Parts |-> IF p \in Required.report_lost /\ ~@[p].ok THEN Missing ELSE @[p]]]

Has(c, part) == c.parts[part].by > 0

(***************************************************************************)
(* Answers                                                                 *)
(***************************************************************************)
Idle(s) == calls[s] = NULL
EndCall(s) == calls' = [calls EXCEPT ![s] = NULL]

\* Any answer with status failed.
Failed(s) ==
  /\ EndCall(s)
  /\ UNCHANGED <<now, topic, ctx, asked, pending, limiter, shown, turns, accepted, heard, wanted, sent>>

\* Mutant: what the conversation knew goes before what the agent returns.
KeptBefore(c) ==
  [c EXCEPT !.parts = [p \in Parts |-> IF Has(ctx, p) THEN ctx.parts[p] ELSE @[p]]]

\* _build_conversation_context: the contexts returned in the conversation are
\* merged key by key, so a part the agent has dropped comes back as it was.
Kept(c) == [c EXCEPT !.parts = [p \in Parts |-> IF Has(c, p) THEN @[p] ELSE ctx.parts[p]]]

\* Any other answer to a message, with its context.
Answers(s, c) ==
  /\ EndCall(s) /\ ctx' = Kept(c)
  /\ UNCHANGED <<now, topic, limiter, turns, accepted, sent>>

\* What the user tells well: neither the rules nor the model find it invalid.
ToldWell(m, guess) ==
  {p \in DOMAIN m.parts :
     m.parts[p] /\ (guess # NULL /\ p \in DOMAIN guess.parts => guess.parts[p])}

Hears(m, guess) ==
  /\ heard' = [p \in Parts |-> IF p \in ToldWell(m, guess) THEN turns ELSE heard[p]]
  /\ wanted' = IF m.intent # NULL THEN m.intent ELSE wanted

Replies(s, c) == Answers(s, c) /\ UNCHANGED <<asked, pending, shown>>

\* needs_confirmation: a copy of the fields is stored, and shown.
Asks(s, c, action) ==
  /\ Answers(s, c) /\ Len(asked) < MaxAsked
  /\ asked' = Append(asked, [action |-> action, expires |-> now + ConfirmTTL,
                             payload |-> [p \in Required[action] |-> c.parts[p]]])
  /\ pending' = pending \cup {Len(asked) + 1}
  /\ UNCHANGED shown

(***************************************************************************)
(* The handlers                                                            *)
(***************************************************************************)
\* _prepare_report and _prepare_found
PrepareReport(s, c0) ==
  LET c == DropInvalidFields(c0)
  IN IF \A p \in Required[c.intent] : Has(c, p) THEN Asks(s, c, c.intent) ELSE Replies(s, c)

\* _prepare_claim: a proof that is too short or too long is asked for again.
PrepareClaim(s, c) ==
  IF Has(c, "report") /\ Has(c, "proof") /\ c.parts["proof"].ok THEN Asks(s, c, "claim_item")
  ELSE Replies(s, c)

QueryOf(c) == {p \in {"item", "description", "date"} : Has(c, p)}

\* _search: without a criterion it asks for one.
Search(s, c) ==
  IF QueryOf(c) = {} THEN Replies(s, c)
  ELSE Answers(s, c) /\ Shows(QueryOf(c)) /\ UNCHANGED <<asked, pending>>

\* _detail reads the report, or asks which.
Detail(s, c) == Replies(s, c)

(***************************************************************************)
(* invoke with a message                                                   *)
(***************************************************************************)
Say(m) ==
  /\ \A s \in Slots : Idle(s)
  /\ turns < MaxTurns /\ turns' = turns + 1
  /\ \/ LetThrough /\ calls' = [calls EXCEPT ![1] = [pc |-> "reading", msg |-> m]]
     \/ TurnedAway /\ UNCHANGED calls
  /\ UNCHANGED <<now, topic, ctx, asked, pending, shown, heard, wanted, sent, vars>>

Reading(s) == calls[s] # NULL /\ calls[s].pc = "reading"

\* handle, with what the model has understood or, without it, by the rules alone.
Handle(s) ==
  /\ Reading(s)
  /\ \E guess \in topic.guesses \cup {NULL} :
       LET c == Merged(ctx, calls[s].msg, guess)
       IN /\ Hears(calls[s].msg, guess)
          /\ CASE c.intent \in {"report_lost", "report_found"} -> PrepareReport(s, c)
               [] c.intent = "claim_item" -> PrepareClaim(s, c)
               [] c.intent = "get_item_detail" -> Detail(s, c)
               [] OTHER -> Search(s, c)
  /\ UNCHANGED vars

\* The model is not available and the rules are not to do without it, the
\* backend does not answer, or the agent fails.
HandleFails(s) == Reading(s) /\ Failed(s) /\ UNCHANGED vars

(***************************************************************************)
(* invoke with a confirmation                                              *)
(***************************************************************************)
\* Mutant: a confirmation is consumed when the call has succeeded.
ConsumeLate(i) == UNCHANGED pending

\* ConfirmationStore.consume
Consume(i) == pending' = pending \ {i}

\* The user confirms, and may do so again at any time; no message is in progress.
Confirm(s, i) ==
  /\ Idle(s) /\ \A r \in Slots : ~Reading(r)
  /\ LetThrough
  /\ IF i \in pending /\ asked[i].expires > now
     THEN Consume(i) /\ calls' = [calls EXCEPT ![s] = [pc |-> "calling", id |-> i]]
     ELSE UNCHANGED <<pending, calls>>
  /\ UNCHANGED <<now, topic, ctx, asked, shown, turns, heard, wanted, sent, vars>>

Calling(s, actions) ==
  calls[s] # NULL /\ calls[s].pc = "calling" /\ asked[calls[s].id].action \in actions

\* The fields as they were when the user was asked.
Payload(i) == asked[i].payload

Sends(s) == sent' = Append(sent, [id |-> calls[s].id, payload |-> Payload(calls[s].id)])

\* report_lost, report_found: the report is created, or the backend refuses.
SendReport(s) ==
  /\ Calling(s, {"report_lost", "report_found"}) /\ Sends(s)
  /\ calls' = [calls EXCEPT ![s] = [pc |-> "created", id |-> calls[s].id]]
  /\ UNCHANGED <<now, topic, ctx, asked, pending, limiter, shown, turns, accepted, heard, wanted, vars>>

\* The matches for the new report are searched for.
MatchReport(s) ==
  /\ calls[s] # NULL /\ calls[s].pc = "created"
  /\ EndCall(s) /\ Shows(Required.report_lost)
  /\ UNCHANGED <<now, topic, ctx, asked, pending, limiter, turns, accepted, heard, wanted, sent, vars>>

\* claim_item: the transaction of LostFoundClaimService.create.
SendClaim(s, t) ==
  /\ Calling(s, {"claim_item"}) /\ Sends(s)
  /\ \E p \in topic.reports : CreateClaim(t, p, User)
  /\ calls' = [calls EXCEPT ![s] = [pc |-> "claiming", id |-> calls[s].id, tx |-> t]]
  /\ UNCHANGED <<now, topic, ctx, asked, pending, limiter, shown, turns, accepted, heard, wanted>>

Claiming(s) == calls[s] # NULL /\ calls[s].pc = "claiming"

ClaimEnds(s) ==
  /\ Claiming(s) /\ (CommitClaim(calls[s].tx) \/ RollBack(calls[s].tx))
  /\ Failed(s)

\* The backend refuses or answers too late, or the search for matches fails.
CallFails(s) ==
  /\ calls[s] # NULL /\ calls[s].pc \in {"calling", "created"}
  /\ Failed(s) /\ UNCHANGED vars

(***************************************************************************)
(* Others                                                                  *)
(***************************************************************************)
Tick ==
  /\ now < MaxTime /\ now' = now + 1
  /\ UNCHANGED <<topic, ctx, calls, asked, pending, limiter, shown, turns, accepted, heard, wanted, sent, vars>>

\* The process starts again: confirmations and limits are gone with the calls.
Restart ==
  /\ \A s \in Slots : ~Claiming(s)
  /\ pending # {} \/ limiter.session > 0
  /\ pending' = {} /\ limiter' = [events |-> <<>>, session |-> 0] /\ accepted' = <<>>
  /\ calls' = [s \in Slots |-> NULL]
  /\ UNCHANGED <<now, topic, ctx, asked, shown, turns, heard, wanted, sent, vars>>

\* Others claim, decide and moderate meanwhile.
OthersAct ==
  /\ \E t \in topic.requests :
       /\ \A s \in Slots : Claiming(s) => calls[s].tx # t
       /\ \/ \E p \in topic.reports :
               \/ \E u \in Users \ {User} : CreateClaim(t, p, u)
               \/ EditReport(t, p) \/ CloseReport(t, p) \/ DeleteReport(t, p)
               \/ Delist(t, p) \/ Restore(t, p)
          \/ \E i \in DOMAIN claims : ApproveClaim(t, i) \/ RejectClaim(t, i)
          \/ CommitClaim(t) \/ CommitDecision(t) \/ CommitEdit(t) \/ CommitDelete(t)
          \/ RollBack(t)
  /\ UNCHANGED agentVars

DeskNext ==
  \/ \E m \in topic.messages : Say(m)
  \/ \E s \in Slots :
       \/ Handle(s) \/ HandleFails(s)
       \/ \E i \in DOMAIN asked : Confirm(s, i)
       \/ SendReport(s) \/ MatchReport(s) \/ CallFails(s)
       \/ \E t \in topic.requests : SendClaim(s, t)
       \/ ClaimEnds(s)
  \/ Tick \/ Restart \/ OthersAct

DeskSpec == DeskInit /\ [][DeskNext]_deskVars

(***************************************************************************)
(* Properties                                                              *)
(***************************************************************************)
\* The types of the variables.
DeskTypeOK ==
  /\ TypeOK
  /\ now \in 0..MaxTime /\ topic \in Topics /\ turns \in 0..MaxTurns
  /\ ctx.parts \in [Parts -> [by: 0..MaxTurns, ok: BOOLEAN]]
  /\ pending \subseteq DOMAIN asked
  /\ \A i \in DOMAIN asked : asked[i].action \in Writes /\ \A p \in DOMAIN asked[i].payload :
       asked[i].payload[p].by > 0 /\ asked[i].payload[p].ok

\* consume: a confirmation is used once.  However the user repeats it, in
\* parallel or after a failure, and whenever the agent restarts, it sends one
\* write to the backend, with the fields the user saw.
SentOnceAsShown ==
  /\ \A j, k \in DOMAIN sent : sent[j].id = sent[k].id => j = k
  /\ \A j \in DOMAIN sent : sent[j].payload = asked[sent[j].id].payload

\* What the user is asked to confirm holds, for every part, what he last told
\* well of it or later readings of the model, never something older.  A message
\* that failed was not heard.  Nor was a date that the rules or the model read
\* as one in the future: the agent drops it and asks for the date, the
\* orchestration brings back the date told before, and with that one the user
\* may be asked to confirm in the next turn.
FieldsAreLatest ==
  [][\A i \in DOMAIN asked' \ DOMAIN asked :
       \A p \in DOMAIN asked'[i].payload : asked'[i].payload[p].by >= heard'[p]]_asked

\* handle: the model decides on the intent only while the user has not.  A
\* write is asked for only if it is what the user expressed last.
WriteIsWanted ==
  [][\A i \in DOMAIN asked' \ DOMAIN asked :
       wanted' # NULL => asked'[i].action = wanted']_asked

\* check: in any minute since the process started no more than PerMinute calls
\* are let through, wherever that minute begins.
RateIsBounded ==
  \A i \in DOMAIN accepted :
    Cardinality({j \in DOMAIN accepted : accepted[j] >= accepted[i] /\ accepted[j] < accepted[i] + Window})
      <= PerMinute

\* rank_candidates: no candidate left out matches better than one shown, none
\* shown matches less than the minimum, and they come best first.  A score is a
\* proportion whatever the models return, so that candidates with and without
\* images or texts can be compared.
BestAreShown ==
  shown # NULL =>
    LET Value(c) == Score(shown.query, c)
        best == shown.matches
    IN /\ \A c \in ToSet(shown.candidates) : Value(c) \in 0..100
       /\ \A i, j \in DOMAIN best : i < j => Value(best[i]) >= Value(best[j])
       /\ \A i \in DOMAIN best : Value(best[i]) >= Minimum
       /\ \A c \in ToSet(shown.candidates) \ ToSet(best) :
            Value(c) < Minimum \/ (Len(best) = ShownAtMost /\ Value(c) <= Value(best[Len(best)]))

(***************************************************************************)
(* The inductive invariant (LostFoundProofs)                               *)
(***************************************************************************)
Payloads == UNION {[Required[w] -> [by: 1..MaxTurns, ok: {TRUE}]] : w \in Writes}
Questions == [action: Writes, expires: Nat, payload: Payloads]

DeskTypes ==
  /\ now \in 0..MaxTime /\ topic \in Topics /\ turns \in 0..MaxTurns
  /\ ctx.parts \in [Parts -> [by: 0..MaxTurns, ok: BOOLEAN]] /\ ctx.parts["report"].ok
  /\ DOMAIN calls = Slots
  /\ \A s \in Slots : calls[s] # NULL =>
       /\ calls[s].pc \in {"reading", "calling", "created", "claiming"}
       /\ calls[s].pc = "reading" => calls[s].msg \in topic.messages
       /\ calls[s].pc = "claiming" => calls[s].tx \in Requests
  /\ asked \in Seq(Questions) /\ pending \subseteq DOMAIN asked
  /\ heard \in [Parts -> 0..MaxTurns] /\ \A p \in Parts : heard[p] <= turns
  /\ sent \in Seq([id: Nat, payload: Payloads])

\* Slot s has consumed a confirmation that is still to be sent.
Due(s) == calls[s] # NULL /\ calls[s].pc = "calling"

\* A confirmation is pending, or due in one slot, or sent once, or lost.
Once ==
  /\ \A j, k \in DOMAIN sent : sent[j].id = sent[k].id => j = k
  /\ \A j \in DOMAIN sent : /\ sent[j].id \in DOMAIN asked \ pending
                           /\ sent[j].payload = asked[sent[j].id].payload
  /\ \A s \in Slots : Due(s) =>
       /\ calls[s].id \in DOMAIN asked \ pending
       /\ \A j \in DOMAIN sent : sent[j].id # calls[s].id
       /\ \A r \in Slots : Due(r) /\ calls[r].id = calls[s].id => r = s

\* What the context has of a part is as late as what was told well of it, and the
\* intent is the one last expressed.
Latest == \A p \in Parts : ctx.parts[p].by = 0 \/ ctx.parts[p].by >= heard[p]
Wanted == wanted # NULL => ctx.intent = wanted

DeskInv == DeskTypes /\ Once /\ Latest /\ Wanted
=============================================================================
