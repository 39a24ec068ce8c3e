------------------------------ MODULE ChatTurn ------------------------------
(***************************************************************************)
(* The turns of one conversation that runs on one thread of the            *)
(* orchestration graph: the user sends a message when the previous turn    *)
(* has ended, the graph executes one node per step, and stops at           *)
(* human_approval until the user confirms or cancels.  What the classifier *)
(* answers, what agents and tools return and what the user decides is      *)
(* nondeterministic.  Requests that run into each other, lost checkpoints  *)
(* and closed streams are the subject of ChatSession.                      *)
(***************************************************************************)
EXTENDS TurnGraph

CONSTANTS MaxTurns,          \* bound on the messages the user sends
          MaxClarifications  \* bound on those in a clarification beyond them

ASSUME BoundsAssumption == MaxTurns \in Nat /\ MaxClarifications \in Nat

VARIABLES
  node,       \* the node to execute next, "END" between turns
  st,         \* the AgentState of the thread
  issued,     \* confirmation ids the agents have handed out
  decision,   \* what the user answered to each confirmation
  calls,      \* confirmed calls made to the agents, per confirmation
  prompts,    \* confirmations shown in this turn
  searchOKs,  \* web searches the user agreed to in this turn
  searches,   \* web searches carried out in this turn
  streak,     \* messages in a row taken to agents that only asked, unclassified
  reply       \* the invocations the reply of the turn reports

vars == <<node, st, issued, decision, calls, prompts, searchOKs, searches,
          streak, reply>>
counters == <<issued, decision, calls, prompts, searchOKs, searches, streak, reply>>

Init ==
  /\ node = "END" /\ st = BlankState
  /\ issued = 0
  /\ decision = [c \in Cids |-> "none"]
  /\ calls = [c \in Cids |-> 0]
  /\ prompts = 0 /\ searchOKs = 0 /\ searches = 0 /\ streak = 0
  /\ reply = {}

(***************************************************************************)
(* The user                                                                *)
(***************************************************************************)
\* chat_stream on a thread whose last run has ended.
NewMessage ==
  /\ node = "END"
  /\ st.turn < MaxTurns + IF st.pendingInfo # NULL THEN MaxClarifications ELSE 0
  /\ node' = "input_guardrail"
  /\ st' = InitialState(st, st.turn + 1)
  /\ prompts' = 0 /\ searchOKs' = 0 /\ searches' = 0 /\ reply' = {}
  /\ UNCHANGED <<issued, decision, calls, streak>>

\* chat_resume: the interrupt returns the decision and human_approval runs.
Decide(approved) ==
  /\ node = "human_approval"
  /\ st' = HumanApproval(st, approved)
  /\ node' = AfterHumanApproval(st')
  /\ IF st.approval.who = WebSearch
     THEN /\ searchOKs' = searchOKs + IF approved THEN 1 ELSE 0
          /\ UNCHANGED decision
     ELSE /\ decision' = [decision EXCEPT ![st.approval.cid] =
                            IF approved THEN "approved" ELSE "cancelled"]
          /\ UNCHANGED searchOKs
  /\ UNCHANGED <<issued, calls, prompts, searches, streak, reply>>

(***************************************************************************)
(* The graph                                                               *)
(***************************************************************************)
Guard(injected) ==
  /\ node = "input_guardrail"
  /\ st' = InputGuardrail(st, injected)
  /\ node' = "intent_router"
  /\ UNCHANGED counters

Route(c, abandon) ==
  /\ node = "intent_router"
  /\ st' = IntentRouter(st, c, abandon)
  /\ node' = RouteByIntent(st')
  /\ streak' = IF st.error THEN streak
               ELSE IF st.pendingInfo # NULL /\ ~abandon THEN streak + 1 ELSE 0
  /\ UNCHANGED <<issued, decision, calls, prompts, searchOKs, searches, reply>>

\* The plan is exhausted: the node returns {}.
InvokeNobody ==
  /\ node = "agent_invoker" /\ PlanDone(st)
  /\ node' = AfterAgentInvoke(st)
  /\ UNCHANGED <<st, counters>>

Invoke(status) ==
  /\ node = "agent_invoker" /\ ~PlanDone(st)
  /\ status = "needs_confirmation" => issued < MaxConfirmations
  /\ st' = AgentInvoker(st, status, issued + 1)
  /\ node' = AfterAgentInvoke(st')
  /\ calls' = IF IsConfirmationCall(st)
              THEN [calls EXCEPT ![st.pendingConfirmation.cid] = @ + 1] ELSE calls
  /\ issued' = issued + IF status = "needs_confirmation" THEN 1 ELSE 0
  /\ prompts' = prompts + IF st'.approval # NULL THEN 1 ELSE 0
  /\ streak' = IF status = "needs_more_info" THEN streak ELSE 0
  /\ UNCHANGED <<decision, searchOKs, searches, reply>>

AskForSearch ==
  /\ node = "utility_tool_executor" /\ SearchGate(st)
  /\ st' = AskSearch(st)
  /\ node' = AfterUtility(st')
  /\ prompts' = prompts + 1
  /\ UNCHANGED <<issued, decision, calls, searchOKs, searches, streak, reply>>

RunTools(broken) ==
  /\ node = "utility_tool_executor" /\ ~SearchGate(st)
  /\ broken \subseteq ToolsToRun(st)
  /\ st' = UtilityExecutor(st, broken)
  /\ node' = AfterUtility(st')
  /\ searches' = searches + IF WebSearch \in ToolsToRun(st) THEN 1 ELSE 0
  /\ UNCHANGED <<issued, decision, calls, prompts, searchOKs, streak, reply>>

\* Every path of chat_responder ends in one AI message.
Respond ==
  /\ node = "chat_responder"
  /\ st' = Replied(st)
  /\ node' = "output_guardrail"
  /\ UNCHANGED counters

OutputGuardrail ==
  /\ node = "output_guardrail"
  /\ node' = "response_aggregator"
  /\ UNCHANGED <<st, counters>>

\* Nothing is added to a turn chat_responder has answered.
Aggregate ==
  /\ node = "response_aggregator"
  /\ node' = "END"
  /\ st' = Replied(st)
  /\ reply' = IF st.last = "ai" THEN {} ELSE ReplyParts(st)
  /\ UNCHANGED <<issued, decision, calls, prompts, searchOKs, searches, streak>>

\* The checkpointed run of the graph, without the user.
GraphStep ==
  \/ \E injected \in BOOLEAN : Guard(injected)
  \/ \E c \in Classifications, abandon \in BOOLEAN : Route(c, abandon)
  \/ InvokeNobody
  \/ \E status \in AgentStatus : Invoke(status)
  \/ AskForSearch
  \/ \E broken \in SUBSET Tools : RunTools(broken)
  \/ Respond
  \/ OutputGuardrail
  \/ Aggregate

Next == NewMessage \/ (\E approved \in BOOLEAN : Decide(approved)) \/ GraphStep

Spec == Init /\ [][Next]_vars

\* Every node returns: calls to agents, tools and the LLM time out.  The
\* user is not obliged to answer or to write.
FairSpec == Spec /\ WF_vars(GraphStep)

(***************************************************************************)
(* Properties                                                              *)
(***************************************************************************)
\* The types of the variables.
TypeOK ==
  /\ node \in Nodes
  /\ st \in AgentState
  /\ issued \in 0..MaxConfirmations
  /\ decision \in [Cids -> {"none", "approved", "cancelled"}]
  /\ calls \in [Cids -> Nat]
  /\ prompts \in Nat /\ searchOKs \in Nat /\ searches \in Nat /\ streak \in Nat
  /\ reply \subseteq Nat

\* A write an agent asked to have confirmed is carried out only after the
\* user confirmed that very confirmation, and at most once: agent_invoker
\* consumes the mark human_approval leaves for it.
ConfirmedOnce ==
  \A c \in Cids : calls[c] <= IF decision[c] = "approved" THEN 1 ELSE 0

\* A confirmed write is not forgotten: by the end of the turn agent_invoker
\* has made the confirmed call, whatever else the plan held.
ConfirmedIsCarriedOut ==
  node = "END" => \A c \in Cids : decision[c] = "approved" => calls[c] = 1

\* No web search without the user's consent in the same turn: neither a
\* second pass of utility_tool_executor after an agent's confirmation, nor a
\* mark left by an earlier turn, opens the gate.
SearchesAgreed == searches <= searchOKs

\* The user is not asked for ever.  In a turn, at most once per planned agent
\* and once for the search: an agent that answers a confirmed call with another
\* needs_confirmation does not trap the user in a loop of confirmations.  Over
\* turns, agents that do nothing but ask for missing information take fewer than
\* three messages in a row before one is classified again.
QuestionsEnd == prompts <= Len(st.plan) + 1 /\ streak < MaxAttempts

\* When the reply of a turn asks the user for missing information, the next
\* message will be taken to one of the agents that asked.
SomeAskerRemembered ==
  \A i \in reply : node = "END" /\ st.invs[i].status = "needs_more_info" =>
    /\ st.pendingInfo # NULL
    /\ \E j \in reply : st.invs[j] = [turn |-> st.turn, status |-> "needs_more_info",
                                      agent |-> st.pendingInfo.agent]

\* The outcome of every call of the turn that completed is in the reply,
\* unless the chat model answers because everything else failed.
OutcomesReported ==
  \A i \in DOMAIN st.invs :
    node = "END" /\ st.invs[i].turn = st.turn /\ st.invs[i].status = "completed"
      => i \in reply

\* A turn in progress ends or stops at a confirmation.
TurnEnds == node \notin {"END", "human_approval"} ~> node \in {"END", "human_approval"}

(***************************************************************************)
(* The inductive invariant of the safety theorems (ChatTurnProofs)         *)
(***************************************************************************)
Approved(c) == decision[c] = "approved"

\* The run is suspended exactly while a confirmation is on the screen.
SuspendedIffAsking == node = "human_approval" <=> st.approval # NULL

\* A confirmation that is on the screen is new, and its agent is the one to
\* call next.
AskingIsFresh ==
  st.approval # NULL =>
    IF st.approval.who = WebSearch THEN st.pendingUtility = NULL
    ELSE /\ st.approval.cid \in 1..issued
         /\ decision[st.approval.cid] = "none"
         /\ ~PlanDone(st) /\ CurrentAgent(st) = st.approval.who
         /\ st.invs # <<>>

\* A confirmed call that is still to be made is the next call.
PendingIsNext ==
  st.pendingConfirmation # NULL =>
    LET c == st.pendingConfirmation.cid
    IN /\ c \in 1..issued /\ Approved(c) /\ calls[c] = 0
       /\ ~PlanDone(st) /\ CurrentAgent(st) = st.pendingConfirmation.agent
       /\ \/ node = "agent_invoker"
          \/ node = "utility_tool_executor" /\ st.pendingUtility # NULL

\* The user's answer to the search is used by the very next pass of the
\* tools, or there was nothing to run.
SearchAnswerIsUsed ==
  st.pendingUtility # NULL =>
    \/ ToolsToRun(st) = {}
    \/ node = "utility_tool_executor" /\ st.pendingConfirmation = NULL

\* The tools have not run in this turn as long as a pass is still to come.
ToolsToCome ==
  \/ node \in {"input_guardrail", "intent_router", "utility_tool_executor"}
  \/ st.pendingUtility # NULL
  \/ st.approval # NULL /\ st.approval.who = WebSearch
NotRunYet == ToolsToCome => st.ran = {}

\* A call is made for a decided confirmation, and an approved one has been
\* made or is pending.
CallsFollowDecisions ==
  \A c \in Cids :
    /\ c > issued => decision[c] = "none"
    /\ ~Approved(c) => calls[c] = 0
    /\ Approved(c) => \/ calls[c] = 1
                       \/ /\ st.pendingConfirmation # NULL
                          /\ st.pendingConfirmation.cid = c

\* Every search is covered by a consent that no other search uses.
SearchesCovered ==
  searches + (IF st.pendingUtility = "approved" THEN 1 ELSE 0) <= searchOKs

IInv ==
  /\ TypeOK /\ SuspendedIffAsking /\ AskingIsFresh /\ PendingIsNext
  /\ SearchAnswerIsUsed /\ NotRunYet /\ CallsFollowDecisions /\ SearchesCovered

(***************************************************************************)
(* What the replies rest on (ChatTurnProofs)                               *)
(***************************************************************************)
AgentAsks == st.approval # NULL /\ st.approval.who # WebSearch
BeforeRoute == node \in {"input_guardrail", "intent_router"}

\* Each agent of the plan up to idx has asked for one confirmation at most, the
\* one at idx may be about to be called again, and the search is asked for first.
PromptsCounted ==
  /\ st.idx <= Len(st.plan)
  /\ prompts <= st.idx + 1 + IF AgentAsks \/ st.pendingConfirmation # NULL THEN 1 ELSE 0
  /\ BeforeRoute \/ (node = "utility_tool_executor" /\ st.pendingUtility = NULL) => prompts = 0

\* Every message taken to an agent that asked is one of the attempts it counts,
\* and is taken to no other agent.
AttemptsCounted ==
  /\ streak < MaxAttempts
  /\ st.pendingInfo # NULL =>
       /\ st.pendingInfo.attempts < MaxAttempts
       /\ \/ streak < st.pendingInfo.attempts
          \/ streak = st.pendingInfo.attempts /\ node = "agent_invoker" /\ ~PlanDone(st)
  /\ streak > 0 =>
       /\ Len(st.plan) <= 1
       /\ PlanDone(st) \/ (node = "agent_invoker" /\ st.pendingInfo # NULL)

\* Invocations belong to this turn or an earlier one; what is asked or about to
\* be called again was begun in this turn.
InThisTurn ==
  /\ \A i \in DOMAIN st.invs : st.invs[i].turn <= st.turn
  /\ BeforeRoute => TurnInvocations(st) = {}
  /\ AgentAsks => st.invs[Len(st.invs)].turn = st.turn

HasProgress(s) ==
  \E i \in TurnInvocations(s) : s.invs[i].status \notin {"needs_confirmation", "needs_more_info"}
Inquiries(s) == {i \in TurnInvocations(s) : s.invs[i].status = "needs_more_info"}

\* As long as the turn has only asked for missing information, one of those who
\* asked is remembered.
AskerRemembered ==
  /\ st.pendingConfirmation # NULL => HasProgress(st)
  /\ ~AgentAsks /\ ~HasProgress(st) /\ Inquiries(st) # {} =>
       /\ st.pendingInfo # NULL
       /\ \E j \in Inquiries(st) : st.invs[j].agent = st.pendingInfo.agent

ReplyIsOfTurn == node = "END" => reply = {} \/ reply = ReplyParts(st)

TurnInv == PromptsCounted /\ AttemptsCounted /\ InThisTurn /\ AskerRemembered /\ ReplyIsOfTurn

\* A plan that names an agent twice is not excluded by the classifier.
Distinct(plan) == \A i, j \in DOMAIN plan : plan[i] = plan[j] => i = j
Done(s) == {s.plan[k] : k \in 1..s.idx}
Completed(s) == {i \in TurnInvocations(s) : s.invs[i].status = "completed"}

\* No agent was called before the tools had their pass.
AgentsToCome ==
  \/ BeforeRoute
  \/ st.approval # NULL /\ st.approval.who = WebSearch
  \/ (node = "utility_tool_executor" \/ st.pendingUtility # NULL) /\ ToolsToRun(st) # {}

\* With plans that name no agent twice, an agent that completed a call has not
\* failed,
CompletedStand ==
  /\ Distinct(st.plan) /\ st.failed \subseteq Done(st) /\ (BeforeRoute => st.failed = {})
  /\ \A i \in Completed(st) : st.invs[i].agent \in Done(st) \ st.failed

\* and the chat model answers only where no call was completed.
AnsweredInstead ==
  /\ st.last = "ai" => node \in {"output_guardrail", "response_aggregator", "END"}
  /\ node = "chat_responder" \/ (node # "END" /\ st.last = "ai") => Completed(st) = {}
  /\ node = "END" => Completed(st) = {} \/ reply = ReplyParts(st)

OutcomesInv ==
  CompletedStand /\ AnsweredInstead /\ (AgentsToCome => TurnInvocations(st) = {})
=============================================================================
