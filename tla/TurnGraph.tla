----------------------------- MODULE TurnGraph -----------------------------
(***************************************************************************)
(* The nodes and conditional edges of the orchestration graph of the chat  *)
(* core (agent/chat_core/orchestration/graph), as functions of AgentState. *)
(* A node of the code takes the state and returns an update; here it takes *)
(* the state and whatever it hears from outside (a classification, an      *)
(* agent's status, a human decision) and returns the updated state.  The   *)
(* module has no variables: ChatTurn runs the graph on one thread,         *)
(* ChatSession runs it under checkpoints and concurrent requests.          *)
(*                                                                         *)
(* Abstractions: messages are reduced to who wrote the last one; the three *)
(* fields requires_approval, approval_agent and approval_context, which    *)
(* every node writes together, are the one field approval; a confirmation  *)
(* id is a number; a tool result is whether the tool succeeded.            *)
(***************************************************************************)
EXTENDS Naturals, Sequences, FiniteSets

CONSTANTS
  Agents,      \* the domain agents of AGENT_CAPABILITIES
  Plans,       \* the agent plans the intent classifier may produce
  Tools,       \* the utilities of UTILITY_CAPABILITIES
  WebSearch,   \* the one utility behind the confirmation gate
  MaxConfirmations,  \* bound on the confirmations agents ask for
  NULL

ASSUME PlansAssumption == Plans \subseteq Seq(Agents) /\ <<>> \in Plans
ASSUME ToolsAssumption == WebSearch \in Tools /\ WebSearch \notin Agents
ASSUME ConfirmationsAssumption == MaxConfirmations \in Nat
ASSUME NullAssumption  ==
  /\ NULL \notin Agents /\ NULL \notin {"approved", "cancelled"}
  /\ NULL \notin [who: Agents \cup {WebSearch}, cid: Nat]
  /\ NULL \notin [agent: Agents, cid: Nat] \cup [agent: Agents, attempts: Nat]

Cids == 1..MaxConfirmations

MaxAttempts == 3      \* the clarification rounds of agent_invoker

\* What a domain agent may answer; "failed" also stands for a call that
\* failed in the client.
AgentStatus == {"completed", "needs_confirmation", "needs_more_info", "failed"}

\* The agent's entry in agent_invocations: its status, or what
\* human_approval rewrote it to.
Invocations ==
  [turn: Nat, agent: Agents, status: AgentStatus \cup {"confirmed", "cancelled"}]

Nodes == {"input_guardrail", "intent_router", "agent_invoker",
          "utility_tool_executor", "human_approval", "chat_responder",
          "output_guardrail", "response_aggregator", "END"}

Intents == {"chat", "utility", "domain_agent"}

\* One answer of the intent classifier after the whitelist: "chat" has
\* empty plans, the other two may hold agents and tools alike, or nothing.
Classifications ==
  {c \in [intent: Intents, plan: Plans, tools: SUBSET Tools] :
     c.intent = "chat" => c.plan = <<>> /\ c.tools = {}}

AgentState ==
  [turn: Nat, last: {"human", "ai"}, error: BOOLEAN, intent: Intents,
   plan: Seq(Agents), tools: SUBSET Tools, idx: Nat,
   invs: Seq(Invocations), failed: SUBSET Agents, serviceFailure: BOOLEAN,
   ran: SUBSET Tools, ranOK: SUBSET Tools,
   approval: {NULL} \cup [who: Agents \cup {WebSearch}, cid: Nat],
   pendingConfirmation: {NULL} \cup [agent: Agents, cid: Nat],
   pendingUtility: {NULL, "approved", "cancelled"},
   pendingInfo: {NULL} \cup [agent: Agents, attempts: Nat]]

\* A thread that has no checkpoint.
BlankState ==
  [turn |-> 0, last |-> "ai", error |-> FALSE, intent |-> "chat",
   plan |-> <<>>, tools |-> {}, idx |-> 0, invs |-> <<>>, failed |-> {},
   serviceFailure |-> FALSE, ran |-> {}, ranOK |-> {}, approval |-> NULL,
   pendingConfirmation |-> NULL, pendingUtility |-> NULL,
   pendingInfo |-> NULL]

\* The input of a new turn laid over the checkpoint: everything is reset
\* except agent_invocations and pending_info, which the input leaves out.
InitialState(s, turn) ==
  [BlankState EXCEPT !.turn = turn, !.last = "human",
                     !.invs = s.invs, !.pendingInfo = s.pendingInfo]

(***************************************************************************)
(* Nodes                                                                   *)
(***************************************************************************)
InputGuardrail(s, injected) == [s EXCEPT !.error = injected]

RouteTo(s, c) == [s EXCEPT !.intent = c.intent, !.plan = c.plan,
                           !.tools = c.tools, !.idx = 0]

JustChat == [intent |-> "chat", plan |-> <<>>, tools |-> {}]

\* Mutant: the router consumes the clarification it continues.
IntentRouterForgets(s, c, abandon) ==
  IF s.error THEN RouteTo(s, JustChat)
  ELSE IF s.pendingInfo = NULL THEN RouteTo(s, c)
  ELSE IF abandon THEN [RouteTo(s, JustChat) EXCEPT !.pendingInfo = NULL]
  ELSE [RouteTo(s, [intent |-> "domain_agent",
                    plan |-> <<s.pendingInfo.agent>>, tools |-> {}])
          EXCEPT !.pendingInfo = NULL]

\* An injected prompt never reaches the classifier; a turn that continues a
\* clarification skips it and returns to the agent that asked, or gives up.
IntentRouter(s, c, abandon) ==
  IF s.error THEN RouteTo(s, JustChat)
  ELSE IF s.pendingInfo = NULL THEN RouteTo(s, c)
  ELSE IF abandon THEN [RouteTo(s, JustChat) EXCEPT !.pendingInfo = NULL]
  ELSE RouteTo(s, [intent |-> "domain_agent",
                   plan |-> <<s.pendingInfo.agent>>, tools |-> {}])

CurrentAgent(s) == s.plan[s.idx + 1]
PlanDone(s) == s.idx >= Len(s.plan)

IsConfirmationCall(s) ==
  /\ s.pendingConfirmation # NULL
  /\ s.pendingConfirmation.agent = CurrentAgent(s)

\* The agent at idx answered status; cid is the id of the confirmation it
\* asks for.  A first call that needs confirmation stays at idx; a confirmed
\* call always moves on.
AgentInvoker(s, status, cid) ==
  LET agent    == CurrentAgent(s)
      asks     == status = "needs_confirmation" /\ ~IsConfirmationCall(s)
      attempts == 1 + IF s.pendingInfo = NULL THEN 0 ELSE s.pendingInfo.attempts
      gaveUp   == status = "needs_more_info" /\ attempts >= MaxAttempts
      inv      == [turn |-> s.turn, agent |-> agent,
                   status |-> IF gaveUp THEN "failed" ELSE status]
  IN [s EXCEPT
        !.invs = Append(@, inv),
        !.idx  = IF asks THEN @ ELSE @ + 1,
        !.pendingConfirmation = NULL,
        !.pendingInfo = IF status = "needs_more_info" /\ ~gaveUp
                        THEN [agent |-> agent, attempts |-> attempts] ELSE NULL,
        !.approval = IF asks THEN [who |-> agent, cid |-> cid] ELSE @,
        !.failed = IF status = "failed"
                      \/ (status = "needs_confirmation" /\ IsConfirmationCall(s))
                   THEN @ \cup {agent} ELSE @,
        !.serviceFailure = @ \/ status = "failed"]

\* The web search gate: the plan searches and nobody has been asked yet.
SearchGate(s) == WebSearch \in s.tools /\ s.pendingUtility = NULL
AskSearch(s)  == [s EXCEPT !.approval = [who |-> WebSearch, cid |-> 0]]

\* Mutant: the declined search stays in the plan.
ToolsToRunAll(s) == s.tools

\* The tools one pass runs: a declined search is dropped from the plan.
ToolsToRun(s) ==
  IF s.pendingUtility = "cancelled" THEN s.tools \ {WebSearch} ELSE s.tools

\* With nothing to run the node returns {}: not even the mark is consumed.
UtilityExecutor(s, broken) ==
  IF ToolsToRun(s) = {} THEN s
  ELSE [s EXCEPT !.ran = ToolsToRun(s), !.ranOK = ToolsToRun(s) \ broken,
                 !.pendingUtility = NULL,
                 !.serviceFailure = @ \/ (ToolsToRun(s) \cap broken # {})]

\* Mutant: the decision is written to a field the aggregator does not read.
RewriteLastApproval(s, status) == [s.invs EXCEPT ![Len(s.invs)].status = "approved"]

\* The last invocation, which is the one that asked, is rewritten in place.
RewriteLast(s, status) == [s.invs EXCEPT ![Len(s.invs)].status = status]

\* Mutant: a cancelled confirmation is marked like a confirmed one.
HumanApprovalMarksAlways(s, approved) ==
  IF s.approval.who = WebSearch
  THEN [s EXCEPT !.approval = NULL,
                 !.pendingUtility = IF approved THEN "approved" ELSE "cancelled"]
  ELSE [s EXCEPT !.approval = NULL, !.invs = RewriteLast(s, "confirmed"),
                 !.pendingConfirmation = [agent |-> s.approval.who,
                                          cid   |-> s.approval.cid]]

\* Mutant: the plan moves on whatever the user decides.
HumanApprovalMovesOn(s, approved) ==
  IF s.approval.who = WebSearch
  THEN [s EXCEPT !.approval = NULL,
                 !.pendingUtility = IF approved THEN "approved" ELSE "cancelled"]
  ELSE [s EXCEPT !.approval = NULL, !.idx = @ + 1,
                 !.invs = RewriteLast(s, IF approved THEN "confirmed" ELSE "cancelled"),
                 !.pendingConfirmation =
                    IF approved THEN [agent |-> s.approval.who, cid |-> s.approval.cid]
                    ELSE NULL]

HumanApproval(s, approved) ==
  IF s.approval.who = WebSearch
  THEN [s EXCEPT !.approval = NULL,
                 !.pendingUtility = IF approved THEN "approved" ELSE "cancelled"]
  ELSE IF approved
  THEN [s EXCEPT !.approval = NULL, !.invs = RewriteLast(s, "confirmed"),
                 !.pendingConfirmation = [agent |-> s.approval.who,
                                          cid   |-> s.approval.cid]]
  ELSE [s EXCEPT !.approval = NULL, !.invs = RewriteLast(s, "cancelled"),
                 !.idx = @ + 1]

Replied(s) == [s EXCEPT !.last = "ai"]

(***************************************************************************)
(* What response_aggregator puts into the reply: the outcomes of this      *)
(* turn's invocations, without the questions that were superseded.         *)
(***************************************************************************)
TurnInvocations(s) == {i \in DOMAIN s.invs : s.invs[i].turn = s.turn}

\* Mutant: superseded questions are repeated.
ReplyPartsAll(s) == {i \in TurnInvocations(s) : s.invs[i].status # "needs_confirmation"}

ReplyParts(s) ==
  LET statusOf(i) == s.invs[i].status
      progress == \E i \in TurnInvocations(s) :
                    statusOf(i) \notin {"needs_confirmation", "needs_more_info"}
  IN {i \in TurnInvocations(s) :
        /\ statusOf(i) # "needs_confirmation"
        /\ statusOf(i) = "needs_more_info" => ~progress}

(***************************************************************************)
(* Edges                                                                   *)
(***************************************************************************)
RouteByIntent(s) ==
  CASE s.tools # {} \/ s.intent = "utility" -> "utility_tool_executor"
    [] s.tools = {} /\ s.intent = "domain_agent" -> "agent_invoker"
    [] s.tools = {} /\ s.intent = "chat" -> "chat_responder"

\* Mutant: one failed agent counts as all of them.
AnyAgentFailed(s) == s.failed # {}

AllAgentsFailed(s) == s.failed # {} /\ {s.plan[i] : i \in DOMAIN s.plan} \subseteq s.failed
AllToolsFailed(s)  == s.ran # {} /\ s.ranOK = {}

\* Mutant: the end of the plan is missed by one.
AfterAgentInvokeOneMore(s) ==
  IF s.approval # NULL THEN "human_approval"
  ELSE IF s.idx <= Len(s.plan) THEN "agent_invoker"
  ELSE IF s.plan # <<>> /\ AllAgentsFailed(s) THEN "chat_responder"
  ELSE "output_guardrail"

AfterAgentInvoke(s) ==
  IF s.approval # NULL THEN "human_approval"
  ELSE IF ~PlanDone(s) THEN "agent_invoker"
  ELSE IF s.plan # <<>> /\ AllAgentsFailed(s) THEN "chat_responder"
  ELSE "output_guardrail"

AfterUtility(s) ==
  IF s.approval # NULL THEN "human_approval"
  ELSE IF AllToolsFailed(s) THEN "chat_responder"
  ELSE IF s.plan # <<>> THEN "agent_invoker"
  ELSE "output_guardrail"

AfterHumanApproval(s) ==
  IF s.pendingUtility # NULL THEN "utility_tool_executor" ELSE "agent_invoker"
=============================================================================
