-------------------------- MODULE MCLostFoundAgent --------------------------
(* A small instance of LostFoundAgent: a conversation about a report, about  *)
(* a claim or a search, or no conversation while others moderate.  Two       *)
(* transactions overlap where others moderate one report; elsewhere they     *)
(* come one at a time.                                                       *)
EXTENDS LostFoundAgent

CONSTANTS owner, p1, p2, t1

OneOwner == [p \in Reports |-> owner]

NoParts == [p \in {} |-> TRUE]
Quiet == [intent |-> NULL, parts |-> NoParts, long |-> FALSE]
Guess(intent, parts) == [intent |-> intent, parts |-> parts]

Candidate(text, days, images) ==
  [text |-> text, category |-> 100, location |-> text, colour |-> 0, days |-> days, asked |-> 23, at |-> 1,
   images |-> images]
Near == Candidate(80, 1, [histogram |-> 40])
Far == Candidate(30, 40, [p \in {} |-> 0])
Lookalike == Candidate(10, 2, [visual |-> 99, cross_modal |-> -20])
Opposite == Candidate(0, 31, [visual |-> -90])
SomeFound == {<<>>, <<Far, Opposite, Near>>, <<Near, Lookalike, Far>>, <<Opposite, Far, Lookalike, Near>>}

ReportTopic ==
  [messages |-> {[Quiet EXCEPT !.intent = "report_lost", !.parts = [item |-> TRUE]],
                 [Quiet EXCEPT !.parts = [date |-> TRUE], !.long = TRUE],
                 [Quiet EXCEPT !.intent = "report_found", !.parts = [item |-> TRUE], !.long = TRUE]},
   guesses |-> {Guess("search_found_items", [description |-> TRUE]),
                Guess("report_found", [date |-> FALSE])},
   found |-> {<<Near>>}, reports |-> {}, requests |-> {}]
ClaimTopic ==
  [messages |-> {[Quiet EXCEPT !.intent = "claim_item", !.parts = [report |-> TRUE]],
                 [Quiet EXCEPT !.parts = [proof |-> TRUE]]},
   guesses |-> {Guess("claim_item", [proof |-> FALSE])},
   found |-> {<<>>}, reports |-> {p1}, requests |-> {t1}]
SearchTopic ==
  [messages |-> {[Quiet EXCEPT !.intent = "search_found_items"],
                 [Quiet EXCEPT !.parts = [item |-> TRUE]], [Quiet EXCEPT !.parts = [date |-> TRUE]],
                 [Quiet EXCEPT !.intent = "get_item_detail"]},
   guesses |-> {}, found |-> SomeFound, reports |-> {}, requests |-> {}]
ModerationTopic == [messages |-> {}, guesses |-> {}, found |-> {}, reports |-> {p1}, requests |-> Requests]
ReportsTopic == [ModerationTopic EXCEPT !.reports = Reports, !.requests = {t1}]
SomeTopics == {ReportTopic, ClaimTopic, SearchTopic, ModerationTopic, ReportsTopic}
=============================================================================
