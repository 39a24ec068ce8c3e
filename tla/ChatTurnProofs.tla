--------------------------- MODULE ChatTurnProofs ---------------------------
(***************************************************************************)
(* The nodes of the graph keep AgentState well typed, and what they leave  *)
(* alone; and safety of ChatTurn for every set of agents, tools and plans, *)
(* and any number of turns and confirmations.                              *)
(***************************************************************************)
EXTENDS ChatTurn, TLAPS

(***************************************************************************)
(* The nodes of the graph                                                  *)
(***************************************************************************)

\* A thread without a checkpoint is in a well typed state.
LEMMA BlankStateType == BlankState \in AgentState
  BY Z3 DEF BlankState, AgentState, Intents

\* The input of a new turn is well typed if the checkpoint was.
LEMMA InitialStateType ==
  ASSUME NEW s \in AgentState, NEW n \in Nat
  PROVE  InitialState(s, n) \in AgentState
<1>1. s.invs \in Seq(Invocations)
  BY DEF AgentState
<1>2. s.pendingInfo \in {NULL} \cup [agent: Agents, attempts: Nat]
  BY DEF AgentState
<1> DEFINE b1 == [BlankState EXCEPT !.turn = n, !.last = "human"]
           b2 == [b1 EXCEPT !.invs = s.invs, !.pendingInfo = s.pendingInfo]
<1>3. b1 \in AgentState
  BY BlankStateType DEF AgentState
<1>4. InitialState(s, n) = b2
  BY DEF InitialState
<1> HIDE DEF b1
<1>5. QED
  BY <1>1, <1>2, <1>3, <1>4 DEF AgentState

\* input_guardrail keeps the state well typed.
LEMMA InputGuardrailType ==
  ASSUME NEW s \in AgentState, NEW i \in BOOLEAN
  PROVE  InputGuardrail(s, i) \in AgentState
  BY DEF InputGuardrail, AgentState

\* So does taking over a classification,
LEMMA RouteToType ==
  ASSUME NEW s \in AgentState, NEW c, c.intent \in Intents,
         c.plan \in Seq(Agents), c.tools \in SUBSET Tools
  PROVE  RouteTo(s, c) \in AgentState
  BY DEF RouteTo, AgentState

\* hence intent_router.
LEMMA IntentRouterType ==
  ASSUME NEW s \in AgentState, NEW c \in Classifications, NEW x \in BOOLEAN
  PROVE  IntentRouter(s, c, x) \in AgentState
<1>1. RouteTo(s, c) \in AgentState
  <2>1. c.intent \in Intents /\ c.plan \in Plans /\ c.tools \in SUBSET Tools
    BY DEF Classifications
  <2>2. QED
    BY <2>1, RouteToType, PlansAssumption
<1>2. RouteTo(s, JustChat) \in AgentState
  <2>1. JustChat.intent \in Intents /\ JustChat.plan \in Seq(Agents)
        /\ JustChat.tools \in SUBSET Tools
    BY DEF JustChat, Intents
  <2>2. QED
    BY <2>1, RouteToType
<1>3. [RouteTo(s, JustChat) EXCEPT !.pendingInfo = NULL] \in AgentState
  BY <1>2 DEF AgentState
<1>4. ASSUME s.pendingInfo # NULL
      PROVE  RouteTo(s, [intent |-> "domain_agent", plan |-> <<s.pendingInfo.agent>>,
                         tools |-> {}]) \in AgentState
  <2> DEFINE d == [intent |-> "domain_agent", plan |-> <<s.pendingInfo.agent>>,
                   tools |-> {}]
  <2>1. s.pendingInfo.agent \in Agents
    BY <1>4 DEF AgentState
  <2>2. d.intent \in Intents /\ d.plan \in Seq(Agents) /\ d.tools \in SUBSET Tools
    BY <2>1 DEF Intents
  <2> HIDE DEF d
  <2>3. RouteTo(s, d) \in AgentState
    BY <2>2, RouteToType
  <2>4. QED
    BY <2>3 DEF d
<1>5. QED
  BY <1>1, <1>2, <1>3, <1>4 DEF IntentRouter

\* The agent at idx is an agent as long as the plan is not exhausted.
LEMMA CurrentAgentType ==
  ASSUME NEW s \in AgentState, ~PlanDone(s)
  PROVE  CurrentAgent(s) \in Agents
  BY DEF CurrentAgent, PlanDone, AgentState

\* agent_invoker keeps the state well typed, whatever the agent answers.
LEMMA AgentInvokerType ==
  ASSUME NEW s \in AgentState, ~PlanDone(s), NEW status \in AgentStatus, NEW cid \in Nat
  PROVE  AgentInvoker(s, status, cid) \in AgentState
<1> DEFINE agent    == CurrentAgent(s)
           asks     == status = "needs_confirmation" /\ ~IsConfirmationCall(s)
           attempts == 1 + IF s.pendingInfo = NULL THEN 0 ELSE s.pendingInfo.attempts
           gaveUp   == status = "needs_more_info" /\ attempts >= MaxAttempts
           inv      == [turn |-> s.turn, agent |-> agent,
                        status |-> IF gaveUp THEN "failed" ELSE status]
           invs     == Append(s.invs, inv)
           idx      == IF asks THEN s.idx ELSE s.idx + 1
           info     == IF status = "needs_more_info" /\ ~gaveUp
                       THEN [agent |-> agent, attempts |-> attempts] ELSE NULL
           approval == IF asks THEN [who |-> agent, cid |-> cid] ELSE s.approval
           failed   == IF status = "failed"
                          \/ (status = "needs_confirmation" /\ IsConfirmationCall(s))
                       THEN s.failed \cup {agent} ELSE s.failed
           down     == s.serviceFailure \/ status = "failed"
<1>1. agent \in Agents
  BY CurrentAgentType
<1> HIDE DEF agent
<1>2. attempts \in Nat
  BY DEF AgentState
<1> HIDE DEF attempts
<1>3. inv \in Invocations
  BY <1>1 DEF Invocations, AgentState, AgentStatus
<1> HIDE DEF inv
<1>4. invs \in Seq(Invocations)
  BY <1>3 DEF AgentState
<1>5. idx \in Nat
  BY DEF AgentState
<1>6. info \in {NULL} \cup [agent: Agents, attempts: Nat]
  BY <1>1, <1>2
<1>7. approval \in {NULL} \cup [who: Agents \cup {WebSearch}, cid: Nat]
  BY <1>1 DEF AgentState
<1>8. failed \in SUBSET Agents
  BY <1>1 DEF AgentState
<1>9. down \in BOOLEAN
  BY DEF AgentState
<1>10. AgentInvoker(s, status, cid) =
         [s EXCEPT !.invs = invs, !.idx = idx, !.pendingConfirmation = NULL,
                   !.pendingInfo = info, !.approval = approval,
                   !.failed = failed, !.serviceFailure = down]
  BY DEF AgentInvoker, agent, inv, attempts, AgentState
<1> HIDE DEF invs, idx, info, approval, failed, down
<1> DEFINE s1 == [s EXCEPT !.invs = invs, !.idx = idx, !.pendingConfirmation = NULL]
           s2 == [s1 EXCEPT !.pendingInfo = info, !.approval = approval]
           s3 == [s2 EXCEPT !.failed = failed, !.serviceFailure = down]
<1>11. AgentInvoker(s, status, cid) = s3
  BY <1>10
<1>12. s1 \in AgentState
  BY <1>4, <1>5 DEF AgentState
<1> HIDE DEF s1
<1>13. s2 \in AgentState
  BY <1>6, <1>7, <1>12 DEF AgentState
<1> HIDE DEF s2
<1>14. s3 \in AgentState
  BY <1>8, <1>9, <1>13 DEF AgentState
<1>15. QED
  BY <1>11, <1>14

\* The question of utility_tool_executor keeps the state well typed,
LEMMA AskSearchType ==
  ASSUME NEW s \in AgentState
  PROVE  AskSearch(s) \in AgentState
  BY DEF AskSearch, AgentState

\* and so does its pass over the tools.
LEMMA UtilityExecutorType ==
  ASSUME NEW s \in AgentState, NEW broken
  PROVE  UtilityExecutor(s, broken) \in AgentState
<1> DEFINE run  == ToolsToRun(s)
           down == s.serviceFailure \/ (run \cap broken # {})
<1>1. run \in SUBSET Tools
  BY DEF ToolsToRun, AgentState
<1>2. down \in BOOLEAN
  BY DEF AgentState
<1> DEFINE s1 == [s EXCEPT !.ran = run, !.ranOK = run \ broken]
           s2 == [s1 EXCEPT !.pendingUtility = NULL, !.serviceFailure = down]
<1>3. UtilityExecutor(s, broken) = IF run = {} THEN s ELSE s2
  BY DEF UtilityExecutor, AgentState
<1> HIDE DEF run, down
<1>4. s1 \in AgentState
  BY <1>1 DEF AgentState
<1> HIDE DEF s1
<1>5. s2 \in AgentState
  BY <1>2, <1>4 DEF AgentState
<1> HIDE DEF s2
<1>6. QED
  BY <1>3, <1>5

\* human_approval keeps the state well typed: an agent that asked has left
\* an invocation to rewrite.
LEMMA HumanApprovalType ==
  ASSUME NEW s \in AgentState, NEW x \in BOOLEAN, s.approval # NULL,
         s.approval.who # WebSearch => s.invs # <<>>
  PROVE  HumanApproval(s, x) \in AgentState
<1>1. CASE s.approval.who = WebSearch
  <2>1. HumanApproval(s, x)
          = [s EXCEPT !.approval = NULL,
                      !.pendingUtility = IF x THEN "approved" ELSE "cancelled"]
    BY <1>1 DEF HumanApproval
  <2>2. QED
    BY <2>1 DEF AgentState
<1>2. CASE s.approval.who # WebSearch
  <2>1. /\ s.approval.who \in Agents
        /\ s.approval.cid \in Nat
    <3>1. s.approval \in {NULL} \cup [who: Agents \cup {WebSearch}, cid: Nat]
      BY DEF AgentState
    <3>2. s.approval \in [who: Agents \cup {WebSearch}, cid: Nat]
      BY <3>1
    <3>3. QED
      BY <1>2, <3>2
  <2>2. s.invs \in Seq(Invocations) /\ Len(s.invs) \in 1..Len(s.invs)
    BY <1>2 DEF AgentState
  <2>3. ASSUME NEW status \in {"confirmed", "cancelled"}
        PROVE  RewriteLast(s, status) \in Seq(Invocations)
    <3>1. s.invs[Len(s.invs)] \in Invocations
      BY <2>2
    <3>2. [s.invs[Len(s.invs)] EXCEPT !.status = status] \in Invocations
      BY <3>1 DEF Invocations
    <3>3. QED
      BY <2>2, <3>2 DEF RewriteLast
  <2>4. QED
    <3>1. RewriteLast(s, "confirmed") \in Seq(Invocations)
          /\ RewriteLast(s, "cancelled") \in Seq(Invocations)
      BY <2>3
    <3>2. CASE x
      BY <1>2, <2>1, <3>1, <3>2 DEF HumanApproval, AgentState
    <3>3. CASE ~x
      <4>1. s.idx + 1 \in Nat
        BY DEF AgentState
      <4> DEFINE s1 == [s EXCEPT !.approval = NULL, !.idx = s.idx + 1]
      <4>2. s1 \in AgentState
        BY <4>1 DEF AgentState
      <4>3. HumanApproval(s, x) = [s1 EXCEPT !.invs = RewriteLast(s, "cancelled")]
        BY <1>2, <3>3 DEF HumanApproval
      <4> HIDE DEF s1
      <4>4. QED
        BY <3>1, <4>2, <4>3 DEF AgentState
    <3>4. QED
      BY <3>2, <3>3
<1>3. QED
  BY <1>1, <1>2

\* An answer of the chat model or the aggregator keeps the state well typed.
LEMMA RepliedType ==
  ASSUME NEW s \in AgentState
  PROVE  Replied(s) \in AgentState
  BY DEF Replied, AgentState

(***************************************************************************)
(* What the nodes leave alone                                              *)
(***************************************************************************)

\* A call to an agent clears the mark of the confirmed call, and asks only
\* when it was a first call.
LEMMA AgentInvokerFields ==
  ASSUME NEW s \in AgentState, ~PlanDone(s), NEW status \in AgentStatus, NEW cid \in Nat
  PROVE  LET t == AgentInvoker(s, status, cid)
             asks == status = "needs_confirmation" /\ ~IsConfirmationCall(s)
         IN /\ t.plan = s.plan /\ t.tools = s.tools /\ t.ran = s.ran
            /\ t.pendingUtility = s.pendingUtility
            /\ t.pendingConfirmation = NULL
            /\ asks => /\ t.approval = [who |-> CurrentAgent(s), cid |-> cid]
                       /\ t.idx = s.idx
                       /\ t.invs # <<>>
            /\ ~asks => t.approval = s.approval
<1> DEFINE asks == status = "needs_confirmation" /\ ~IsConfirmationCall(s)
           t == AgentInvoker(s, status, cid)
<1>1. /\ t.plan = s.plan /\ t.tools = s.tools /\ t.ran = s.ran
      /\ t.pendingUtility = s.pendingUtility
      /\ t.pendingConfirmation = NULL
  BY DEF AgentInvoker, AgentState
<1>2. /\ t.approval = IF asks THEN [who |-> CurrentAgent(s), cid |-> cid] ELSE s.approval
      /\ t.idx = IF asks THEN s.idx ELSE s.idx + 1
  BY DEF AgentInvoker, AgentState
<1>3. \E e : t.invs = Append(s.invs, e)
  BY DEF AgentInvoker, AgentState
<1>4. t.invs # <<>>
  BY <1>3 DEF AgentState
<1>5. QED
  BY <1>1, <1>2, <1>4

\* The pass of the tools leaves the plan and the agents' marks alone.
LEMMA UtilityExecutorFields ==
  ASSUME NEW s \in AgentState, NEW broken
  PROVE  LET t == UtilityExecutor(s, broken)
         IN /\ t.plan = s.plan /\ t.tools = s.tools /\ t.idx = s.idx
            /\ t.approval = s.approval
            /\ t.pendingConfirmation = s.pendingConfirmation
            /\ ToolsToRun(s) = {} => t = s
            /\ ToolsToRun(s) # {} => t.pendingUtility = NULL
  BY DEF UtilityExecutor, AgentState

\* What the decision does to the marks.
LEMMA HumanApprovalFields ==
  ASSUME NEW s \in AgentState, NEW x \in BOOLEAN, s.approval # NULL
  PROVE  LET t == HumanApproval(s, x)
             search == s.approval.who = WebSearch
         IN /\ t.plan = s.plan /\ t.tools = s.tools /\ t.ran = s.ran
            /\ t.approval = NULL
            /\ search => /\ t.pendingConfirmation = s.pendingConfirmation
                         /\ t.idx = s.idx
                         /\ t.pendingUtility = IF x THEN "approved" ELSE "cancelled"
            /\ ~search /\ x =>
                 /\ t.pendingConfirmation = [agent |-> s.approval.who,
                                             cid   |-> s.approval.cid]
                 /\ t.idx = s.idx
                 /\ t.pendingUtility = s.pendingUtility
            /\ ~search /\ ~x => /\ t.pendingConfirmation = s.pendingConfirmation
                                /\ t.pendingUtility = s.pendingUtility
<1>1. CASE s.approval.who = WebSearch
  BY <1>1 DEF HumanApproval, AgentState
<1>2. CASE s.approval.who # WebSearch /\ x
  BY <1>2 DEF HumanApproval, AgentState
<1>3. CASE s.approval.who # WebSearch /\ ~x
  BY <1>3 DEF HumanApproval, AgentState
<1>4. QED
  BY <1>1, <1>2, <1>3

\* What a call to an agent does to the plan's progress and to the outcomes:
\* one entry is appended, of this turn, for the agent at idx.
LEMMA AgentInvokerOutcome ==
  ASSUME NEW s \in AgentState, ~PlanDone(s), NEW status \in AgentStatus, NEW cid \in Nat
  PROVE  LET t == AgentInvoker(s, status, cid)
             asks == status = "needs_confirmation" /\ ~IsConfirmationCall(s)
             attempts == 1 + IF s.pendingInfo = NULL THEN 0 ELSE s.pendingInfo.attempts
             gaveUp == status = "needs_more_info" /\ attempts >= MaxAttempts
         IN /\ t.turn = s.turn /\ t.last = s.last
            /\ t.idx = IF asks THEN s.idx ELSE s.idx + 1
            /\ t.invs = Append(s.invs, [turn |-> s.turn, agent |-> CurrentAgent(s),
                                        status |-> IF gaveUp THEN "failed" ELSE status])
            /\ t.failed = s.failed \/ (~asks /\ status # "completed"
                                       /\ t.failed = s.failed \cup {CurrentAgent(s)})
            /\ t.pendingInfo = IF status = "needs_more_info" /\ ~gaveUp
                               THEN [agent |-> CurrentAgent(s), attempts |-> attempts]
                               ELSE NULL
<1> DEFINE t == AgentInvoker(s, status, cid)
           asks == status = "needs_confirmation" /\ ~IsConfirmationCall(s)
           attempts == 1 + IF s.pendingInfo = NULL THEN 0 ELSE s.pendingInfo.attempts
           gaveUp == status = "needs_more_info" /\ attempts >= MaxAttempts
<1>1. /\ t.turn = s.turn /\ t.last = s.last
      /\ t.idx = IF asks THEN s.idx ELSE s.idx + 1
  BY DEF AgentInvoker, AgentState
<1>2. t.invs = Append(s.invs, [turn |-> s.turn, agent |-> CurrentAgent(s),
                               status |-> IF gaveUp THEN "failed" ELSE status])
  BY DEF AgentInvoker, AgentState
<1>3. t.failed = IF status = "failed"
                    \/ (status = "needs_confirmation" /\ IsConfirmationCall(s))
                 THEN s.failed \cup {CurrentAgent(s)} ELSE s.failed
  BY DEF AgentInvoker, AgentState
<1>4. t.pendingInfo = IF status = "needs_more_info" /\ ~gaveUp
                      THEN [agent |-> CurrentAgent(s), attempts |-> attempts] ELSE NULL
  BY DEF AgentInvoker, AgentState
<1> HIDE DEF t
<1>5. t.failed = s.failed \/ (~asks /\ status # "completed"
                              /\ t.failed = s.failed \cup {CurrentAgent(s)})
  BY <1>3
<1>6. QED
  BY <1>1, <1>2, <1>4, <1>5 DEF t

\* Two states that agree on what the replies are made of.
SameOutcomes(s, t) ==
  /\ t.turn = s.turn /\ t.invs = s.invs /\ t.plan = s.plan
  /\ t.idx = s.idx /\ t.failed = s.failed /\ t.pendingInfo = s.pendingInfo
  /\ t.pendingConfirmation = s.pendingConfirmation

\* The guardrail and the tools do not touch it.
LEMMA InputGuardrailOutcome ==
  ASSUME NEW s \in AgentState, NEW i \in BOOLEAN
  PROVE  /\ SameOutcomes(s, InputGuardrail(s, i))
         /\ InputGuardrail(s, i).approval = s.approval
         /\ InputGuardrail(s, i).last = s.last
  BY DEF InputGuardrail, SameOutcomes, AgentState

LEMMA AskSearchOutcome ==
  ASSUME NEW s \in AgentState
  PROVE  SameOutcomes(s, AskSearch(s)) /\ AskSearch(s).last = s.last
  BY DEF AskSearch, SameOutcomes, AgentState

LEMMA UtilityExecutorOutcome ==
  ASSUME NEW s \in AgentState, NEW broken
  PROVE  /\ SameOutcomes(s, UtilityExecutor(s, broken))
         /\ UtilityExecutor(s, broken).last = s.last
  BY DEF UtilityExecutor, SameOutcomes, AgentState

\* An answer of the chat model or the aggregator leaves everything else alone.
LEMMA RepliedOutcome ==
  ASSUME NEW s \in AgentState
  PROVE  /\ SameOutcomes(s, Replied(s)) /\ Replied(s).last = "ai"
         /\ Replied(s).approval = s.approval /\ Replied(s).tools = s.tools
         /\ Replied(s).pendingUtility = s.pendingUtility
  BY DEF Replied, SameOutcomes, AgentState

\* The answer to the search touches no outcome either; the answer to an agent's confirmation
\* rewrites the last outcome and, if it is no, moves on.
LEMMA HumanApprovalOutcome ==
  ASSUME NEW s \in AgentState, NEW x \in BOOLEAN, s.approval # NULL
  PROVE  LET t == HumanApproval(s, x)
             search == s.approval.who = WebSearch
         IN /\ search => SameOutcomes(s, t)
            /\ /\ t.turn = s.turn /\ t.last = s.last /\ t.plan = s.plan
               /\ t.failed = s.failed /\ t.pendingInfo = s.pendingInfo
            /\ ~search => /\ t.invs = RewriteLast(s, IF x THEN "confirmed" ELSE "cancelled")
                          /\ t.idx = IF x THEN s.idx ELSE s.idx + 1
<1>1. CASE s.approval.who = WebSearch
  BY <1>1 DEF HumanApproval, SameOutcomes, AgentState
<1>2. CASE s.approval.who # WebSearch /\ x
  BY <1>2 DEF HumanApproval, RewriteLast, AgentState
<1>3. CASE s.approval.who # WebSearch /\ ~x
  BY <1>3 DEF HumanApproval, RewriteLast, AgentState
<1>4. QED
  BY <1>1, <1>2, <1>3

\* The router restarts the plan: the classified one, nothing, or the agent
\* whose clarification the turn continues.
LEMMA IntentRouterOutcome ==
  ASSUME NEW s \in AgentState, NEW c \in Classifications, NEW x \in BOOLEAN
  PROVE  LET t == IntentRouter(s, c, x)
             continues == ~s.error /\ s.pendingInfo # NULL /\ ~x
         IN /\ t.turn = s.turn /\ t.last = s.last /\ t.invs = s.invs
            /\ t.failed = s.failed /\ t.idx = 0 /\ t.approval = s.approval
            /\ t.pendingConfirmation = s.pendingConfirmation
            /\ continues => /\ t.plan = <<s.pendingInfo.agent>> /\ t.tools = {}
                            /\ t.intent = "domain_agent" /\ t.pendingInfo = s.pendingInfo
            /\ ~continues => t.plan = <<>> \/ t.plan \in Plans
            /\ s.error => t.pendingInfo = s.pendingInfo /\ t.plan = <<>>
            /\ ~continues /\ ~s.error => t.pendingInfo = NULL
<1>1. CASE s.error
  BY <1>1 DEF IntentRouter, RouteTo, JustChat, AgentState
<1>2. CASE ~s.error /\ s.pendingInfo = NULL
  BY <1>2 DEF IntentRouter, RouteTo, Classifications, AgentState
<1>3. CASE ~s.error /\ s.pendingInfo # NULL /\ x
  BY <1>3 DEF IntentRouter, RouteTo, JustChat, AgentState
<1>4. CASE ~s.error /\ s.pendingInfo # NULL /\ ~x
  BY <1>4 DEF IntentRouter, RouteTo, AgentState
<1>5. QED
  BY <1>1, <1>2, <1>3, <1>4 DEF AgentState

(***************************************************************************)
(* The invariant is inductive                                              *)
(***************************************************************************)

\* It holds initially.
LEMMA InitEstablishes == Init => IInv
<1> SUFFICES ASSUME Init PROVE IInv
  OBVIOUS
<1>1. TypeOK
  BY BlankStateType, BoundsAssumption, ConfirmationsAssumption DEF Init, TypeOK, Nodes, Cids
<1>2. /\ st.approval = NULL /\ st.pendingConfirmation = NULL
      /\ st.pendingUtility = NULL /\ st.ran = {}
  BY DEF Init, BlankState
<1>3. SuspendedIffAsking /\ AskingIsFresh /\ PendingIsNext /\ SearchAnswerIsUsed /\ NotRunYet
  BY <1>2 DEF Init, SuspendedIffAsking, AskingIsFresh, PendingIsNext,
              SearchAnswerIsUsed, NotRunYet
<1>4. CallsFollowDecisions /\ SearchesCovered
  BY <1>2, NullAssumption DEF Init, CallsFollowDecisions, SearchesCovered, Approved
<1>5. QED
  BY <1>1, <1>3, <1>4 DEF IInv

\* A step that leaves the marks alone, made while no confirmation is on the
\* screen and no confirmed call is to be made, preserves it.
LEMMA QuietStep ==
  ASSUME IInv, TypeOK', node' # "human_approval",
         st.approval = NULL, st.pendingConfirmation = NULL,
         st'.approval = NULL, st'.pendingConfirmation = NULL,
         \/ st'.pendingUtility = NULL
         \/ /\ st'.pendingUtility = st.pendingUtility
            /\ ToolsToRun(st)' = {} \/ node' = "utility_tool_executor",
         ToolsToCome' => st'.ran = {},
         searches' + (IF st'.pendingUtility = "approved" THEN 1 ELSE 0) <= searchOKs',
         UNCHANGED <<issued, decision, calls>>
  PROVE  IInv'
<1>1. SuspendedIffAsking' /\ AskingIsFresh' /\ PendingIsNext'
  BY DEF SuspendedIffAsking, AskingIsFresh, PendingIsNext
<1>2. SearchAnswerIsUsed' /\ NotRunYet'
  BY DEF SearchAnswerIsUsed, NotRunYet
<1>3. CallsFollowDecisions'
  BY DEF IInv, CallsFollowDecisions, Approved
<1>4. SearchesCovered'
  BY DEF SearchesCovered
<1>5. QED
  BY <1>1, <1>2, <1>3, <1>4 DEF IInv

\* A new message clears every mark of the turn before.
LEMMA NewMessagePreserves == IInv /\ NewMessage => IInv'
<1> SUFFICES ASSUME IInv, NewMessage PROVE IInv'
  OBVIOUS
<1> USE DEF NewMessage
<1>1. /\ st \in AgentState /\ st' \in AgentState
      /\ TypeOK'
  <2>1. st \in AgentState /\ st.turn + 1 \in Nat
    BY DEF IInv, TypeOK, AgentState
  <2>2. st' \in AgentState
    BY <2>1, InitialStateType
  <2>3. QED
    BY <2>1, <2>2 DEF IInv, TypeOK, Nodes
<1>2. /\ st'.approval = NULL /\ st'.pendingConfirmation = NULL
      /\ st'.pendingUtility = NULL /\ st'.ran = {}
  BY DEF InitialState, BlankState
<1>3. st.approval = NULL /\ st.pendingConfirmation = NULL
  BY DEF IInv, SuspendedIffAsking, PendingIsNext
<1>4. searches' + (IF st'.pendingUtility = "approved" THEN 1 ELSE 0) <= searchOKs'
  BY <1>2, NullAssumption
<1>5. QED
  BY <1>1, <1>2, <1>3, <1>4, QuietStep

\* The rejection of a message touches no mark,
LEMMA GuardPreserves ==
  ASSUME IInv, NEW injected \in BOOLEAN, Guard(injected)
  PROVE  IInv'
<1> USE DEF Guard, counters
<1>1. st \in AgentState /\ st' \in AgentState /\ TypeOK'
  <2>1. st \in AgentState
    BY DEF IInv, TypeOK
  <2>2. st' \in AgentState
    BY <2>1, InputGuardrailType
  <2>3. QED
    BY <2>1, <2>2 DEF IInv, TypeOK, Nodes
<1>2. /\ st'.approval = st.approval /\ st'.pendingConfirmation = st.pendingConfirmation
      /\ st'.pendingUtility = st.pendingUtility /\ st'.ran = st.ran
      /\ ToolsToRun(st') = ToolsToRun(st)
  BY <1>1 DEF InputGuardrail, ToolsToRun, AgentState
<1>3. st.approval = NULL /\ st.pendingConfirmation = NULL
  BY DEF IInv, SuspendedIffAsking, PendingIsNext
<1>4. st.pendingUtility # NULL => ToolsToRun(st) = {}
  BY DEF IInv, SearchAnswerIsUsed
<1>5. st.ran = {}
  BY DEF IInv, NotRunYet, ToolsToCome
<1>6. searches' + (IF st'.pendingUtility = "approved" THEN 1 ELSE 0) <= searchOKs'
  BY <1>2 DEF IInv, SearchesCovered
<1>7. QED
  BY <1>1, <1>2, <1>3, <1>4, <1>5, <1>6, QuietStep

\* nor does the routing; a search answer that found nothing to run goes with
\* the turn to the tools if there are any now.
LEMMA RoutePreserves ==
  ASSUME IInv, NEW c \in Classifications, NEW abandon \in BOOLEAN, Route(c, abandon)
  PROVE  IInv'
<1> USE DEF Route
<1>1. st \in AgentState /\ st' \in AgentState
  <2>1. st \in AgentState
    BY DEF IInv, TypeOK
  <2>2. QED
    BY <2>1, IntentRouterType
<1>2. /\ st'.approval = st.approval /\ st'.pendingConfirmation = st.pendingConfirmation
      /\ st'.pendingUtility = st.pendingUtility /\ st'.ran = st.ran
  BY <1>1 DEF IntentRouter, RouteTo, AgentState
<1>3. st.approval = NULL /\ st.pendingConfirmation = NULL
  BY DEF IInv, SuspendedIffAsking, PendingIsNext
<1>4. st.ran = {}
  BY DEF IInv, NotRunYet, ToolsToCome
<1>5. node' \in {"utility_tool_executor", "agent_invoker", "chat_responder"}
  BY <1>1 DEF RouteByIntent, AgentState, Intents
<1>6. ToolsToRun(st') = {} \/ node' = "utility_tool_executor"
  BY DEF RouteByIntent, ToolsToRun
<1>7. TypeOK'
  BY <1>1, <1>5 DEF IInv, TypeOK, Nodes
<1>8. searches' + (IF st'.pendingUtility = "approved" THEN 1 ELSE 0) <= searchOKs'
  BY <1>2 DEF IInv, SearchesCovered
<1>9. QED
  BY <1>2, <1>3, <1>4, <1>5, <1>6, <1>7, <1>8, QuietStep

\* A decision is taken on a fresh confirmation, so no other call waits; it
\* leaves exactly one mark.
LEMMA DecidePreserves ==
  ASSUME IInv, NEW approved \in BOOLEAN, Decide(approved)
  PROVE  IInv'
<1> USE DEF Decide
<1> DEFINE search == st.approval.who = WebSearch
           cid    == st.approval.cid
<1>1. /\ st \in AgentState /\ st.approval # NULL /\ st.pendingConfirmation = NULL
      /\ st.pendingUtility # NULL => ToolsToRun(st) = {}
  BY DEF IInv, TypeOK, SuspendedIffAsking, PendingIsNext, SearchAnswerIsUsed
<1>2. /\ search => st.pendingUtility = NULL
      /\ ~search => /\ cid \in 1..issued /\ decision[cid] = "none"
                    /\ ~PlanDone(st) /\ CurrentAgent(st) = st.approval.who
                    /\ st.invs # <<>>
  BY <1>1 DEF IInv, AskingIsFresh
<1>3. st' \in AgentState
  BY <1>1, <1>2, HumanApprovalType
<1>4. /\ st'.plan = st.plan /\ st'.tools = st.tools /\ st'.ran = st.ran
      /\ st'.approval = NULL
      /\ search => /\ st'.pendingConfirmation = NULL
                   /\ st'.pendingUtility = IF approved THEN "approved" ELSE "cancelled"
      /\ ~search /\ approved => /\ st'.pendingConfirmation = [agent |-> st.approval.who,
                                                              cid   |-> cid]
                                /\ st'.idx = st.idx
      /\ ~search /\ ~approved => st'.pendingConfirmation = NULL
      /\ ~search => st'.pendingUtility = st.pendingUtility
  BY <1>1, HumanApprovalFields
<1>5. node' = IF st'.pendingUtility # NULL THEN "utility_tool_executor" ELSE "agent_invoker"
  BY DEF AfterHumanApproval
<1>6. ~search => cid \in Cids
  BY <1>2, BoundsAssumption, ConfirmationsAssumption DEF IInv, TypeOK, Cids
<1>7. /\ search => decision' = decision
      /\ ~search => decision' = [decision EXCEPT ![cid] =
                                   IF approved THEN "approved" ELSE "cancelled"]
  OBVIOUS
<1> HIDE DEF Decide
<1>8. TypeOK'
  <2>1. decision' \in [Cids -> {"none", "approved", "cancelled"}]
    BY <1>7 DEF IInv, TypeOK
  <2>2. node' \in Nodes
    BY <1>5 DEF Nodes
  <2>3. searchOKs' \in Nat
    BY DEF Decide, IInv, TypeOK
  <2>4. QED
    BY <1>3, <2>1, <2>2, <2>3 DEF Decide, IInv, TypeOK
<1>9. SuspendedIffAsking' /\ AskingIsFresh'
  BY <1>4, <1>5 DEF SuspendedIffAsking, AskingIsFresh
<1>10. ASSUME ~search
       PROVE  calls[cid] = 0
  BY <1>2, <1>6, <1>10 DEF IInv, CallsFollowDecisions, Approved
<1>11. PendingIsNext'
  <2>1. CASE ~search /\ approved
    <3>1. /\ st'.pendingConfirmation.cid = cid
          /\ st'.pendingConfirmation.agent = st.approval.who
      BY <1>4, <2>1
    <3>2. decision'[cid] = "approved"
      BY <1>6, <1>7, <2>1 DEF IInv, TypeOK
    <3>3. ~PlanDone(st') /\ CurrentAgent(st') = st.approval.who
      BY <1>2, <1>4, <2>1 DEF PlanDone, CurrentAgent
    <3>4. QED
      BY <1>2, <1>5, <1>10, <2>1, <3>1, <3>2, <3>3 DEF Decide, PendingIsNext, Approved
  <2>2. CASE ~(~search /\ approved)
    BY <1>4, <2>2 DEF PendingIsNext
  <2>3. QED
    BY <2>1, <2>2
<1>12. SearchAnswerIsUsed'
  <2>1. CASE search
    BY <1>4, <1>5, <2>1 DEF SearchAnswerIsUsed
  <2>2. CASE ~search
    <3>1. ToolsToRun(st') = ToolsToRun(st)
      BY <1>4, <2>2 DEF ToolsToRun
    <3>2. QED
      BY <1>1, <1>4, <2>2, <3>1 DEF SearchAnswerIsUsed
  <2>3. QED
    BY <2>1, <2>2
<1>13. NotRunYet'
  <2>1. search \/ st.pendingUtility # NULL => st.ran = {}
    BY <1>1 DEF IInv, NotRunYet, ToolsToCome
  <2>2. QED
    BY <1>4, <1>5, <2>1 DEF NotRunYet, ToolsToCome
<1>14. CallsFollowDecisions'
  <2>1. CASE search
    BY <1>1, <1>4, <1>7, <2>1 DEF Decide, IInv, CallsFollowDecisions, Approved
  <2>2. CASE ~search
    <3> SUFFICES ASSUME NEW c \in Cids
                 PROVE  /\ c > issued => decision'[c] = "none"
                        /\ ~(decision'[c] = "approved") => calls[c] = 0
                        /\ decision'[c] = "approved" =>
                             \/ calls[c] = 1
                             \/ /\ st'.pendingConfirmation # NULL
                                /\ st'.pendingConfirmation.cid = c
      BY DEF Decide, CallsFollowDecisions, Approved
    <3>1. CASE c = cid
      <4>1. decision'[c] = IF approved THEN "approved" ELSE "cancelled"
        BY <1>6, <1>7, <2>2, <3>1 DEF IInv, TypeOK
      <4>2. ~(c > issued)
        BY <1>2, <2>2, <3>1 DEF IInv, TypeOK
      <4>3. approved => /\ st'.pendingConfirmation # NULL
                        /\ st'.pendingConfirmation.cid = c
        <5>1. ~search => cid \in Nat /\ st.approval.who \in Agents
          BY <1>1, <1>2, <2>2 DEF AgentState
        <5>2. QED
          BY <1>4, <2>2, <3>1, <5>1, NullAssumption
      <4>4. QED
        BY <1>10, <2>2, <3>1, <4>1, <4>2, <4>3
    <3>2. CASE c # cid
      <4>1. decision'[c] = decision[c]
        BY <1>6, <1>7, <2>2, <3>2 DEF IInv, TypeOK
      <4>2. QED
        BY <1>1, <4>1 DEF IInv, CallsFollowDecisions, Approved
    <3>3. QED
      BY <3>1, <3>2
  <2>3. QED
    BY <2>1, <2>2
<1>15. SearchesCovered'
  BY <1>2, <1>4, NullAssumption DEF Decide, IInv, TypeOK, SearchesCovered
<1>16. QED
  BY <1>8, <1>9, <1>11, <1>12, <1>13, <1>14, <1>15 DEF IInv

\* An exhausted plan calls nobody.
LEMMA InvokeNobodyPreserves == IInv /\ InvokeNobody => IInv'
<1> SUFFICES ASSUME IInv, InvokeNobody PROVE IInv'
  OBVIOUS
<1> USE DEF InvokeNobody, counters
<1>1. /\ st.approval = NULL /\ st.pendingConfirmation = NULL
      /\ st.pendingUtility # NULL => ToolsToRun(st) = {}
  BY DEF IInv, SuspendedIffAsking, PendingIsNext, SearchAnswerIsUsed
<1>2. node' \in {"chat_responder", "output_guardrail"}
  BY <1>1 DEF AfterAgentInvoke
<1>3. TypeOK'
  BY <1>2 DEF IInv, TypeOK, Nodes
<1>4. ToolsToCome' => st'.ran = {}
  BY <1>1, <1>2 DEF IInv, NotRunYet, ToolsToCome
<1>5. searches' + (IF st'.pendingUtility = "approved" THEN 1 ELSE 0) <= searchOKs'
  BY DEF IInv, SearchesCovered
<1>6. QED
  BY <1>1, <1>2, <1>3, <1>4, <1>5, QuietStep

\* A call to an agent consumes the mark of its confirmation; a first call may
\* put a new confirmation on the screen.
LEMMA InvokePreserves ==
  ASSUME IInv, NEW status \in AgentStatus, Invoke(status)
  PROVE  IInv'
<1> DEFINE asks == status = "needs_confirmation" /\ ~IsConfirmationCall(st)
<1>1. /\ st \in AgentState /\ ~PlanDone(st) /\ st.approval = NULL
      /\ st.pendingUtility # NULL => ToolsToRun(st) = {}
      /\ issued \in 0..MaxConfirmations
  BY DEF Invoke, IInv, TypeOK, SuspendedIffAsking, SearchAnswerIsUsed
<1>2. issued \in Nat /\ issued + 1 \in Nat
  BY <1>1, BoundsAssumption, ConfirmationsAssumption
<1>3. st' = AgentInvoker(st, status, issued + 1)
  BY DEF Invoke
<1>4. st' \in AgentState
  BY <1>1, <1>2, <1>3, AgentInvokerType
<1>5. /\ st'.plan = st.plan /\ st'.tools = st.tools /\ st'.ran = st.ran
      /\ st'.pendingUtility = st.pendingUtility
      /\ st'.pendingConfirmation = NULL
      /\ asks => /\ st'.approval = [who |-> CurrentAgent(st), cid |-> issued + 1]
                 /\ st'.idx = st.idx
                 /\ st'.invs # <<>>
      /\ ~asks => st'.approval = NULL
  BY <1>1, <1>2, <1>3, AgentInvokerFields
<1>6. CurrentAgent(st) \in Agents
  BY <1>1, CurrentAgentType
<1>7. asks => /\ st'.approval # NULL
              /\ st'.approval.who = CurrentAgent(st) /\ st'.approval.cid = issued + 1
  BY <1>2, <1>5, <1>6, NullAssumption
<1>8. /\ node' = AfterAgentInvoke(st')
      /\ node' = "human_approval" <=> st'.approval # NULL
      /\ node' \in Nodes \ {"input_guardrail", "intent_router", "utility_tool_executor"}
  BY DEF Invoke, AfterAgentInvoke, Nodes
<1>9. /\ issued' \in 0..MaxConfirmations /\ issued <= issued'
      /\ asks => issued' = issued + 1
  BY <1>1, BoundsAssumption, ConfirmationsAssumption DEF Invoke
<1>10. st.pendingConfirmation # NULL =>
         /\ IsConfirmationCall(st)
         /\ st.pendingConfirmation.cid \in Cids
         /\ Approved(st.pendingConfirmation.cid)
         /\ calls[st.pendingConfirmation.cid] = 0
  BY <1>1, BoundsAssumption, ConfirmationsAssumption DEF IInv, PendingIsNext, IsConfirmationCall, Cids
<1>11. calls' = IF st.pendingConfirmation # NULL
                THEN [calls EXCEPT ![st.pendingConfirmation.cid] = @ + 1] ELSE calls
  BY <1>10 DEF Invoke, IsConfirmationCall
<1>12. calls \in [Cids -> Nat]
  BY DEF IInv, TypeOK
<1>13. TypeOK'
  <2>1. calls' \in [Cids -> Nat]
    <3>1. CASE st.pendingConfirmation = NULL
      BY <1>11, <1>12, <3>1
    <3>2. CASE st.pendingConfirmation # NULL
      BY <1>10, <1>11, <1>12, <3>2
    <3>3. QED
      BY <3>1, <3>2
  <2>2. prompts' \in Nat /\ streak' \in Nat
    BY DEF Invoke, IInv, TypeOK
  <2>3. QED
    BY <1>4, <1>8, <1>9, <2>1, <2>2 DEF Invoke, IInv, TypeOK
<1>14. SuspendedIffAsking' /\ PendingIsNext'
  BY <1>5, <1>8 DEF SuspendedIffAsking, PendingIsNext
<1>15. AskingIsFresh'
  <2>1. CASE asks
    <3>1. decision[issued + 1] = "none"
      <4>1. issued + 1 \in Cids /\ issued + 1 > issued
        BY <1>1, <1>2, <2>1, BoundsAssumption, ConfirmationsAssumption DEF Invoke, Cids
      <4>2. QED
        BY <4>1 DEF IInv, CallsFollowDecisions
    <3>2. ~PlanDone(st') /\ CurrentAgent(st') = CurrentAgent(st)
      BY <1>1, <1>5, <2>1 DEF PlanDone, CurrentAgent
    <3>3. CurrentAgent(st) # WebSearch
      BY <1>6, ToolsAssumption
    <3>4. issued + 1 \in 1..issued'
      BY <1>2, <1>9, <2>1
    <3>5. decision' = decision
      BY DEF Invoke
    <3>6. QED
      BY <1>5, <1>7, <2>1, <3>1, <3>2, <3>3, <3>4, <3>5 DEF AskingIsFresh
  <2>2. CASE ~asks
    BY <1>5, <2>2 DEF AskingIsFresh
  <2>3. QED
    BY <2>1, <2>2
<1>16. SearchAnswerIsUsed'
  <2>1. ToolsToRun(st') = ToolsToRun(st)
    BY <1>5 DEF ToolsToRun
  <2>2. QED
    BY <1>1, <1>5, <2>1 DEF SearchAnswerIsUsed
<1>17. NotRunYet'
  <2>1. st.pendingUtility # NULL => st.ran = {}
    BY DEF IInv, NotRunYet, ToolsToCome
  <2>2. st'.approval # NULL => st'.approval.who # WebSearch
    BY <1>5, <1>6, <1>7, ToolsAssumption
  <2>3. QED
    BY <1>5, <1>8, <2>1, <2>2 DEF NotRunYet, ToolsToCome
<1>18. CallsFollowDecisions'
  <2> SUFFICES ASSUME NEW c \in Cids
               PROVE  /\ c > issued' => decision[c] = "none"
                      /\ ~Approved(c) => calls'[c] = 0
                      /\ Approved(c) => calls'[c] = 1
    BY DEF Invoke, CallsFollowDecisions, Approved
  <2>1. /\ c > issued => decision[c] = "none"
        /\ ~Approved(c) => calls[c] = 0
        /\ Approved(c) => \/ calls[c] = 1
                           \/ /\ st.pendingConfirmation # NULL
                              /\ st.pendingConfirmation.cid = c
    BY DEF IInv, CallsFollowDecisions
  <2>2. c > issued' => c > issued
    BY <1>2, <1>9 DEF Cids
  <2>3. CASE st.pendingConfirmation # NULL /\ c = st.pendingConfirmation.cid
    BY <1>10, <1>11, <1>12, <2>1, <2>2, <2>3
  <2>4. CASE ~(st.pendingConfirmation # NULL /\ c = st.pendingConfirmation.cid)
    <3>1. calls'[c] = calls[c]
      BY <1>11, <1>12, <2>4
    <3>2. QED
      BY <2>1, <2>2, <2>4, <3>1
  <2>5. QED
    BY <2>3, <2>4
<1>19. SearchesCovered'
  BY <1>5 DEF Invoke, IInv, SearchesCovered
<1>20. QED
  BY <1>13, <1>14, <1>15, <1>16, <1>17, <1>18, <1>19 DEF IInv

\* The tools ask for the search before anybody waits for a confirmed call.
LEMMA AskForSearchPreserves == IInv /\ AskForSearch => IInv'
<1> SUFFICES ASSUME IInv, AskForSearch PROVE IInv'
  OBVIOUS
<1>1. /\ st \in AgentState /\ st.pendingUtility = NULL /\ st.ran = {}
      /\ st.pendingConfirmation = NULL
  BY DEF AskForSearch, SearchGate, IInv, TypeOK, PendingIsNext, NotRunYet, ToolsToCome
<1>2. /\ st' \in AgentState
      /\ st'.approval = [who |-> WebSearch, cid |-> 0]
      /\ st'.pendingUtility = NULL /\ st'.ran = {}
      /\ st'.pendingConfirmation = NULL
  <2>1. st' = AskSearch(st)
    BY DEF AskForSearch
  <2>2. QED
    BY <1>1, <2>1, AskSearchType DEF AskSearch, AgentState
<1>3. st'.approval # NULL /\ st'.approval.who = WebSearch
  BY <1>2, NullAssumption
<1>4. node' = "human_approval"
  BY <1>3 DEF AskForSearch, AfterUtility
<1>5. TypeOK'
  BY <1>2, <1>4 DEF AskForSearch, IInv, TypeOK, Nodes
<1>6. /\ SuspendedIffAsking' /\ AskingIsFresh' /\ PendingIsNext'
      /\ SearchAnswerIsUsed' /\ NotRunYet'
  BY <1>2, <1>3, <1>4 DEF SuspendedIffAsking, AskingIsFresh, PendingIsNext,
                          SearchAnswerIsUsed, NotRunYet
<1>7. CallsFollowDecisions'
  BY <1>1, <1>2 DEF AskForSearch, IInv, CallsFollowDecisions, Approved
<1>8. SearchesCovered'
  BY <1>1, <1>2 DEF AskForSearch, IInv, SearchesCovered
<1>9. QED
  BY <1>5, <1>6, <1>7, <1>8 DEF IInv

\* A pass of the tools uses up the answer to the search; if there was nothing
\* to run, the confirmed call that may be waiting comes next.
LEMMA RunToolsPreserves ==
  ASSUME IInv, NEW broken, RunTools(broken)
  PROVE  IInv'
<1>1. /\ st \in AgentState /\ st.approval = NULL /\ st.ran = {}
      /\ node = "utility_tool_executor"
  BY DEF RunTools, IInv, TypeOK, SuspendedIffAsking, NotRunYet, ToolsToCome
<1>2. /\ st' = UtilityExecutor(st, broken) /\ st' \in AgentState
      /\ node' = AfterUtility(st')
      /\ UNCHANGED <<issued, decision, calls, prompts, searchOKs, streak, reply>>
      /\ searches' = searches + IF WebSearch \in ToolsToRun(st) THEN 1 ELSE 0
      /\ ~SearchGate(st)
  BY <1>1, UtilityExecutorType DEF RunTools
<1>3. /\ st'.plan = st.plan /\ st'.approval = NULL
      /\ st'.pendingConfirmation = st.pendingConfirmation
      /\ ToolsToRun(st) = {} => st' = st
      /\ ToolsToRun(st) # {} => st'.pendingUtility = NULL
  BY <1>1, <1>2, UtilityExecutorFields
<1>4. node' \in {"chat_responder", "agent_invoker", "output_guardrail"}
  BY <1>2, <1>3 DEF AfterUtility
<1>5. TypeOK'
  <2>1. searches' \in Nat
    BY <1>2 DEF IInv, TypeOK
  <2>2. QED
    BY <1>2, <1>4, <2>1 DEF IInv, TypeOK, Nodes
<1>6. SearchesCovered'
  <2>1. st.pendingUtility \in {NULL, "approved", "cancelled"} /\ searches \in Nat
        /\ searchOKs \in Nat
    BY <1>1 DEF IInv, TypeOK, AgentState
  <2>2. WebSearch \in ToolsToRun(st) => st.pendingUtility = "approved"
    BY <1>2, <2>1, NullAssumption DEF SearchGate, ToolsToRun
  <2>3. st'.pendingUtility = "approved" => ToolsToRun(st) = {} /\ st' = st
    BY <1>3, NullAssumption
  <2>4. QED
    BY <1>2, <2>1, <2>2, <2>3 DEF IInv, SearchesCovered
<1>7. SuspendedIffAsking' /\ AskingIsFresh'
  BY <1>3, <1>4 DEF SuspendedIffAsking, AskingIsFresh
<1>8. st.pendingConfirmation # NULL => st' = st /\ node' = "agent_invoker"
  <2> SUFFICES ASSUME st.pendingConfirmation # NULL
               PROVE  st' = st /\ node' = "agent_invoker"
    OBVIOUS
  <2>1. ToolsToRun(st) = {}
    BY <1>1 DEF IInv, PendingIsNext, SearchAnswerIsUsed
  <2>2. st' = st
    BY <1>3, <2>1
  <2>3. st.plan # <<>>
    BY <1>1 DEF IInv, PendingIsNext, PlanDone, AgentState
  <2>4. QED
    BY <1>1, <1>2, <2>2, <2>3 DEF AfterUtility, AllToolsFailed
<1>9. PendingIsNext'
  BY <1>2, <1>3, <1>8 DEF IInv, PendingIsNext, Approved
<1>10. SearchAnswerIsUsed' /\ NotRunYet'
  BY <1>1, <1>3, <1>4 DEF SearchAnswerIsUsed, NotRunYet, ToolsToCome
<1>11. CallsFollowDecisions'
  BY <1>2, <1>3 DEF IInv, CallsFollowDecisions, Approved
<1>12. QED
  BY <1>5, <1>6, <1>7, <1>9, <1>10, <1>11 DEF IInv

\* The nodes that only write or check the reply touch no mark.
LEMMA ReplyPreserves == IInv /\ (Respond \/ OutputGuardrail \/ Aggregate) => IInv'
<1> SUFFICES ASSUME IInv, Respond \/ OutputGuardrail \/ Aggregate PROVE IInv'
  OBVIOUS
<1>1. /\ node \in {"chat_responder", "output_guardrail", "response_aggregator"}
      /\ node' \in {"output_guardrail", "response_aggregator", "END"}
      /\ st' = st \/ st' = Replied(st)
      /\ reply' \in {reply, {}, ReplyParts(st)}
      /\ UNCHANGED <<issued, decision, calls, prompts, searchOKs, searches, streak>>
  BY DEF Respond, OutputGuardrail, Aggregate, counters
<1>2. /\ st \in AgentState /\ st.approval = NULL /\ st.pendingConfirmation = NULL
      /\ st.pendingUtility # NULL => ToolsToRun(st) = {} /\ st.ran = {}
  BY <1>1 DEF IInv, TypeOK, SuspendedIffAsking, PendingIsNext, SearchAnswerIsUsed,
              NotRunYet, ToolsToCome
<1>3. st' \in AgentState
  BY <1>1, <1>2, RepliedType
<1>4. /\ st'.approval = NULL /\ st'.pendingConfirmation = NULL
      /\ st'.pendingUtility = st.pendingUtility /\ st'.ran = st.ran
      /\ ToolsToRun(st') = ToolsToRun(st)
  <2>1. /\ st'.approval = st.approval /\ st'.pendingConfirmation = st.pendingConfirmation
        /\ st'.pendingUtility = st.pendingUtility
        /\ st'.ran = st.ran /\ st'.tools = st.tools
    BY <1>1, <1>2 DEF Replied, AgentState
  <2>2. QED
    BY <1>2, <2>1 DEF ToolsToRun
<1>5. ReplyParts(st) \subseteq Nat
  BY <1>2 DEF ReplyParts, TurnInvocations, AgentState
<1>6. TypeOK'
  BY <1>1, <1>3, <1>5 DEF IInv, TypeOK, Nodes
<1>7. searches' + (IF st'.pendingUtility = "approved" THEN 1 ELSE 0) <= searchOKs'
  BY <1>1, <1>4 DEF IInv, SearchesCovered
<1>8. ToolsToCome' => st'.ran = {}
  BY <1>1, <1>2, <1>4 DEF ToolsToCome
<1>9. QED
  BY <1>1, <1>2, <1>4, <1>6, <1>7, <1>8, QuietStep

\* A step that changes nothing preserves the invariant.
LEMMA StutterPreserves == IInv /\ UNCHANGED vars => IInv'
<1> SUFFICES ASSUME IInv, UNCHANGED vars PROVE IInv'
  OBVIOUS
<1> USE DEF vars
<1>1. TypeOK' /\ SuspendedIffAsking' /\ AskingIsFresh' /\ PendingIsNext'
  BY DEF IInv, TypeOK, SuspendedIffAsking, AskingIsFresh, PendingIsNext, Approved
<1>2. SearchAnswerIsUsed' /\ NotRunYet' /\ CallsFollowDecisions' /\ SearchesCovered'
  BY DEF IInv, SearchAnswerIsUsed, NotRunYet, ToolsToCome, CallsFollowDecisions,
         Approved, SearchesCovered
<1>3. QED
  BY <1>1, <1>2 DEF IInv

(***************************************************************************)
(* The safety theorems                                                     *)
(***************************************************************************)

\* Every reachable state of the conversation satisfies the invariant: the
\* run is suspended exactly while something is asked, a confirmation on the
\* screen is fresh, and a confirmed call that is still to be made comes next.
THEOREM Invariant == Spec => []IInv
<1>1. Init => IInv
  BY InitEstablishes
<1>2. IInv /\ [Next]_vars => IInv'
  <2> SUFFICES ASSUME IInv, [Next]_vars PROVE IInv'
    OBVIOUS
  <2>1. CASE NewMessage
    BY <2>1, NewMessagePreserves
  <2>2. ASSUME NEW approved \in BOOLEAN, Decide(approved) PROVE IInv'
    BY <2>2, DecidePreserves
  <2>3. ASSUME NEW injected \in BOOLEAN, Guard(injected) PROVE IInv'
    BY <2>3, GuardPreserves
  <2>4. ASSUME NEW c \in Classifications, NEW abandon \in BOOLEAN, Route(c, abandon)
        PROVE  IInv'
    BY <2>4, RoutePreserves
  <2>5. CASE InvokeNobody
    BY <2>5, InvokeNobodyPreserves
  <2>6. ASSUME NEW status \in AgentStatus, Invoke(status) PROVE IInv'
    BY <2>6, InvokePreserves
  <2>7. CASE AskForSearch
    BY <2>7, AskForSearchPreserves
  <2>8. ASSUME NEW broken \in SUBSET Tools, RunTools(broken) PROVE IInv'
    BY <2>8, RunToolsPreserves
  <2>9. CASE Respond \/ OutputGuardrail \/ Aggregate
    BY <2>9, ReplyPreserves
  <2>10. CASE UNCHANGED vars
    BY <2>10, StutterPreserves
  <2>11. QED
    BY <2>1, <2>2, <2>3, <2>4, <2>5, <2>6, <2>7, <2>8, <2>9, <2>10 DEF Next, GraphStep
<1>3. QED
  BY <1>1, <1>2, PTL DEF Spec

\* The state of the graph stays well typed.
THEOREM TypeCorrect == Spec => []TypeOK
<1>1. IInv => TypeOK
  BY DEF IInv
<1>2. QED
  BY <1>1, Invariant, PTL

\* A write that needs confirmation is carried out only after the user
\* confirmed that very confirmation, and at most once.
THEOREM NoUnconfirmedCall == Spec => []ConfirmedOnce
<1>1. IInv => ConfirmedOnce
  <2> SUFFICES ASSUME IInv, NEW c \in Cids
               PROVE  calls[c] <= IF decision[c] = "approved" THEN 1 ELSE 0
    BY DEF ConfirmedOnce
  <2>1. st.pendingConfirmation # NULL /\ st.pendingConfirmation.cid = c => calls[c] = 0
    BY DEF IInv, PendingIsNext
  <2>2. QED
    BY <2>1 DEF IInv, CallsFollowDecisions, Approved
<1>2. QED
  BY <1>1, Invariant, PTL

\* No confirmed write is forgotten: when the turn has ended, the agent has
\* been called for every confirmation the user approved.
THEOREM NoForgottenCall == Spec => []ConfirmedIsCarriedOut
<1>1. IInv => ConfirmedIsCarriedOut
  <2> SUFFICES ASSUME IInv, node = "END", NEW c \in Cids, decision[c] = "approved"
               PROVE  calls[c] = 1
    BY DEF ConfirmedIsCarriedOut
  <2>1. st.pendingConfirmation = NULL
    BY DEF IInv, PendingIsNext
  <2>2. QED
    BY <2>1 DEF IInv, CallsFollowDecisions, Approved
<1>2. QED
  BY <1>1, Invariant, PTL

\* Every web search is covered by a consent of the user in the same turn.
THEOREM NoSearchWithoutConsent == Spec => []SearchesAgreed
<1>1. IInv => SearchesAgreed
  BY DEF IInv, TypeOK, SearchesCovered, SearchesAgreed
<1>2. QED
  BY <1>1, Invariant, PTL

(***************************************************************************)
(* The outcomes of a turn                                                  *)
(***************************************************************************)

\* States with the same invocations have the same outcomes.
LEMMA OutcomesOfSame ==
  ASSUME NEW s, NEW t, t.invs = s.invs, t.turn = s.turn
  PROVE  /\ TurnInvocations(t) = TurnInvocations(s) /\ ReplyParts(t) = ReplyParts(s)
         /\ HasProgress(t) <=> HasProgress(s)
         /\ Inquiries(t) = Inquiries(s) /\ Completed(t) = Completed(s)
<1>1. TurnInvocations(t) = TurnInvocations(s)
  BY DEF TurnInvocations
<1>2. QED
  BY <1>1 DEF ReplyParts, HasProgress, Inquiries, Completed

\* An invocation appended in this turn is an outcome of it.
LEMMA OutcomesOfAppended ==
  ASSUME NEW s \in AgentState, NEW t, NEW e, t.invs = Append(s.invs, e),
         t.turn = s.turn, e.turn = s.turn
  PROVE  LET n == Len(s.invs) + 1
         IN /\ n \in TurnInvocations(t) /\ Len(t.invs) = n /\ t.invs[n] = e
            /\ TurnInvocations(t) = TurnInvocations(s) \cup {n}
            /\ \A i \in DOMAIN s.invs : i \in DOMAIN t.invs /\ i # n /\ t.invs[i] = s.invs[i]
            /\ \A i \in DOMAIN t.invs : i = n \/ i \in DOMAIN s.invs
<1> DEFINE n == Len(s.invs) + 1
<1>1. s.invs \in Seq(Invocations) /\ Len(s.invs) \in Nat /\ DOMAIN s.invs = 1..Len(s.invs)
  BY DEF AgentState
<1>2. /\ Len(t.invs) = n /\ DOMAIN t.invs = 1..n /\ t.invs[n] = e
      /\ \A i \in 1..Len(s.invs) : t.invs[i] = s.invs[i]
  BY <1>1
<1>3. \A i \in 1..n : i = n \/ i \in 1..Len(s.invs)
  BY <1>1
<1>4. n \in 1..n /\ \A i \in 1..Len(s.invs) : i \in 1..n /\ i # n
  BY <1>1
<1>5. TurnInvocations(t) = TurnInvocations(s) \cup {n}
  BY <1>1, <1>2, <1>3, <1>4 DEF TurnInvocations
<1> HIDE DEF n
<1>6. n \in TurnInvocations(t)
  BY <1>5
<1>7. QED
  BY <1>1, <1>2, <1>3, <1>4, <1>5, <1>6 DEF n

\* Progress, inquiries and completed calls after a call to an agent.
LEMMA OutcomesOfCall ==
  ASSUME NEW s \in AgentState, NEW t, NEW e, t.invs = Append(s.invs, e),
         t.turn = s.turn, e.turn = s.turn
  PROVE  LET n == Len(s.invs) + 1
         IN /\ HasProgress(s) => HasProgress(t)
            /\ e.status \notin {"needs_confirmation", "needs_more_info"} => HasProgress(t)
            /\ e.status = "needs_more_info" => n \in Inquiries(t)
            /\ \A i \in Completed(t) : i \in Completed(s) \/ (i = n /\ e.status = "completed")
            /\ \A i \in Completed(s) : t.invs[i] = s.invs[i]
            /\ t.invs[n] = e
<1> DEFINE n == Len(s.invs) + 1
<1>1. /\ n \in TurnInvocations(t) /\ t.invs[n] = e
      /\ TurnInvocations(t) = TurnInvocations(s) \cup {n}
      /\ \A i \in DOMAIN s.invs : i \in DOMAIN t.invs /\ i # n /\ t.invs[i] = s.invs[i]
  BY OutcomesOfAppended
<1> HIDE DEF n
<1>2. \A i \in TurnInvocations(s) : i \in TurnInvocations(t) /\ t.invs[i] = s.invs[i]
  BY <1>1 DEF TurnInvocations
<1>3. HasProgress(s) => HasProgress(t)
  BY <1>2 DEF HasProgress
<1>4. e.status \notin {"needs_confirmation", "needs_more_info"} => HasProgress(t)
  BY <1>1 DEF HasProgress
<1>5. e.status = "needs_more_info" => n \in Inquiries(t)
  BY <1>1 DEF Inquiries
<1>6. \A i \in Completed(t) : i \in Completed(s) \/ (i = n /\ e.status = "completed")
  BY <1>1, <1>2 DEF Completed
<1>7. \A i \in Completed(s) : t.invs[i] = s.invs[i]
  BY <1>2 DEF Completed
<1>8. QED
  BY <1>1, <1>3, <1>4, <1>5, <1>6, <1>7 DEF n

\* The turn has one outcome more.
Appends(s, t, e) ==
  /\ s \in AgentState /\ t.invs = Append(s.invs, e)
  /\ t.turn = s.turn /\ e.turn = s.turn

\* The call is the only one that may have completed since, and the last entry.
LEMMA CompletedOfCall ==
  ASSUME NEW s, NEW t, NEW e, Appends(s, t, e)
  PROVE  /\ \A i \in Completed(t) :
              i \in Completed(s) \/ (i = Len(s.invs) + 1 /\ e.status = "completed")
         /\ \A i \in Completed(s) : t.invs[i] = s.invs[i]
         /\ t.invs[Len(s.invs) + 1] = e
<1>1. /\ s \in AgentState /\ t.invs = Append(s.invs, e)
      /\ t.turn = s.turn /\ e.turn = s.turn
  BY DEF Appends
<1> DEFINE n == Len(s.invs) + 1
<1>2. /\ t.invs[n] = e
      /\ TurnInvocations(t) = TurnInvocations(s) \cup {n}
      /\ \A i \in DOMAIN s.invs : i \in DOMAIN t.invs /\ i # n /\ t.invs[i] = s.invs[i]
  BY <1>1, OutcomesOfAppended
<1> HIDE DEF n
<1>3. \A i \in TurnInvocations(s) : t.invs[i] = s.invs[i]
  BY <1>2 DEF TurnInvocations
<1>4. \A i \in Completed(t) : i \in Completed(s) \/ (i = n /\ e.status = "completed")
  BY <1>2, <1>3 DEF Completed
<1>5. \A i \in Completed(s) : t.invs[i] = s.invs[i]
  BY <1>3 DEF Completed
<1>6. QED
  BY <1>2, <1>4, <1>5 DEF n

\* The decision of the user rewrites the outcome that asked.
LEMMA OutcomesOfDecision ==
  ASSUME NEW s \in AgentState, NEW t, NEW status \in {"confirmed", "cancelled"},
         s.invs # <<>>, t.invs = RewriteLast(s, status), t.turn = s.turn
  PROVE  /\ TurnInvocations(t) = TurnInvocations(s) /\ DOMAIN t.invs = DOMAIN s.invs
         /\ Len(t.invs) = Len(s.invs)
         /\ \A i \in DOMAIN s.invs : /\ t.invs[i].turn = s.invs[i].turn
                                     /\ t.invs[i].agent = s.invs[i].agent
         /\ s.invs[Len(s.invs)].turn = s.turn => HasProgress(t)
         /\ Completed(t) \subseteq Completed(s)
<1> DEFINE n == Len(s.invs)
<1>1. /\ s.invs \in Seq(Invocations) /\ n \in DOMAIN s.invs
      /\ \A i \in DOMAIN s.invs : s.invs[i] \in Invocations
      /\ DOMAIN s.invs = 1..n
  BY DEF AgentState
<1>2. t.invs = [s.invs EXCEPT ![n] = [@ EXCEPT !.status = status]]
  BY DEF RewriteLast
<1> HIDE DEF n
<1>3. /\ DOMAIN t.invs = DOMAIN s.invs
      /\ t.invs[n] = [s.invs[n] EXCEPT !.status = status]
      /\ \A i \in DOMAIN s.invs : i # n => t.invs[i] = s.invs[i]
  BY <1>1, <1>2
<1>4. /\ t.invs[n].turn = s.invs[n].turn /\ t.invs[n].agent = s.invs[n].agent
      /\ t.invs[n].status = status
  BY <1>1, <1>3 DEF Invocations
<1>5. \A i \in DOMAIN s.invs : /\ t.invs[i].turn = s.invs[i].turn
                               /\ t.invs[i].agent = s.invs[i].agent
  BY <1>3, <1>4
<1>6. TurnInvocations(t) = TurnInvocations(s)
  BY <1>3, <1>5 DEF TurnInvocations
<1>7. s.invs[n].turn = s.turn => HasProgress(t)
  <2> SUFFICES ASSUME s.invs[n].turn = s.turn PROVE HasProgress(t)
    OBVIOUS
  <2>1. n \in TurnInvocations(t)
    BY <1>1, <1>6 DEF TurnInvocations
  <2>2. QED
    BY <1>4, <2>1 DEF HasProgress
<1>8. Completed(t) \subseteq Completed(s)
  BY <1>3, <1>4, <1>6 DEF Completed, TurnInvocations
<1>9. Len(t.invs) = Len(s.invs)
  BY <1>1, <1>2
<1>10. QED
  BY <1>3, <1>5, <1>6, <1>7, <1>8, <1>9 DEF n

(***************************************************************************)
(* The questions of a turn and the reply                                   *)
(***************************************************************************)

\* In the beginning nobody has asked anything.
LEMMA InitOfTurn == Init => TurnInv
<1> SUFFICES ASSUME Init PROVE TurnInv
  OBVIOUS
<1> USE DEF Init
<1>1. /\ st.approval = NULL /\ st.pendingConfirmation = NULL /\ st.pendingInfo = NULL
      /\ st.idx = 0 /\ st.plan = <<>> /\ st.invs = <<>> /\ st.turn = 0
  BY DEF BlankState
<1>2. TurnInvocations(st) = {}
  BY <1>1 DEF TurnInvocations
<1>3. PromptsCounted /\ AttemptsCounted
  BY <1>1 DEF PromptsCounted, AttemptsCounted, AgentAsks, BeforeRoute, MaxAttempts
<1>4. InThisTurn /\ AskerRemembered /\ ReplyIsOfTurn
  BY <1>1, <1>2 DEF InThisTurn, AgentAsks, AskerRemembered, Inquiries, ReplyIsOfTurn
<1>5. QED
  BY <1>3, <1>4 DEF TurnInv

\* What holds of the fields of st in every state the invariant allows.
LEMMA TurnTypes ==
  ASSUME IInv
  PROVE  /\ st \in AgentState /\ st.idx \in Nat /\ Len(st.plan) \in Nat
         /\ st.plan \in Seq(Agents) /\ st.turn \in Nat /\ prompts \in Nat /\ streak \in Nat
         /\ st.invs \in Seq(Invocations) /\ DOMAIN st.invs = 1..Len(st.invs)
         /\ \A i \in DOMAIN st.invs : st.invs[i] \in Invocations /\ st.invs[i].turn \in Nat
         /\ st.pendingInfo # NULL => st.pendingInfo.attempts \in Nat
         /\ node # "human_approval" => st.approval = NULL /\ ~AgentAsks
         /\ BeforeRoute => st.pendingConfirmation = NULL
<1>1. st \in AgentState /\ prompts \in Nat /\ streak \in Nat
  BY DEF IInv, TypeOK
<1>2. /\ st.idx \in Nat /\ st.plan \in Seq(Agents) /\ st.turn \in Nat
      /\ st.invs \in Seq(Invocations)
      /\ st.pendingInfo # NULL => st.pendingInfo.attempts \in Nat
  BY <1>1 DEF AgentState
<1>3. \A i \in DOMAIN st.invs : st.invs[i] \in Invocations /\ st.invs[i].turn \in Nat
  <2>1. \A i \in DOMAIN st.invs : st.invs[i] \in Invocations
    BY <1>2
  <2>2. QED
    BY <2>1 DEF Invocations
<1>4. node # "human_approval" => st.approval = NULL /\ ~AgentAsks
  BY DEF IInv, SuspendedIffAsking, AgentAsks
<1>5. BeforeRoute => st.pendingConfirmation = NULL
  BY DEF IInv, PendingIsNext, BeforeRoute
<1>6. QED
  BY <1>1, <1>2, <1>3, <1>4, <1>5

\* A step that asks nothing, calls nobody and leaves the outcomes alone.
LEMMA QuietKeepsTurn ==
  ASSUME IInv, TurnInv, SameOutcomes(st, st'), st.approval = NULL, st'.approval = NULL,
         prompts' = prompts, streak' = streak,
         node # "agent_invoker" \/ PlanDone(st),
         BeforeRoute' \/ (node' = "utility_tool_executor" /\ st'.pendingUtility = NULL)
           => BeforeRoute,
         node' = "END" => reply' = {} \/ reply' = ReplyParts(st)
  PROVE  TurnInv'
<1>1. /\ TurnInvocations(st') = TurnInvocations(st) /\ ReplyParts(st') = ReplyParts(st)
      /\ HasProgress(st') <=> HasProgress(st)
      /\ Inquiries(st') = Inquiries(st)
  BY OutcomesOfSame DEF SameOutcomes
<1>2. ~AgentAsks /\ ~AgentAsks' /\ PlanDone(st') = PlanDone(st)
  BY DEF AgentAsks, PlanDone, SameOutcomes
<1>3. PromptsCounted'
  BY <1>2 DEF TurnInv, PromptsCounted, SameOutcomes
<1>4. AttemptsCounted'
  BY <1>2 DEF TurnInv, AttemptsCounted, SameOutcomes
<1>5. InThisTurn'
  BY <1>1, <1>2 DEF TurnInv, InThisTurn, SameOutcomes
<1>6. AskerRemembered'
  BY <1>1, <1>2 DEF TurnInv, AskerRemembered, SameOutcomes
<1>7. ReplyIsOfTurn'
  BY <1>1 DEF ReplyIsOfTurn
<1>8. QED
  BY <1>3, <1>4, <1>5, <1>6, <1>7 DEF TurnInv

\* The quiet steps: the guardrails, the tools, the replies, the end of the plan.
LEMMA QuietStepsKeepTurn ==
  ASSUME IInv, TurnInv, IInv',
         \/ \E injected \in BOOLEAN : Guard(injected)
         \/ InvokeNobody
         \/ \E broken \in SUBSET Tools : RunTools(broken)
         \/ Respond \/ OutputGuardrail \/ Aggregate
  PROVE  TurnInv'
<1>1. st \in AgentState /\ SameOutcomes(st, st)
  BY TurnTypes DEF SameOutcomes
<1>2. ASSUME NEW injected \in BOOLEAN, Guard(injected) PROVE TurnInv'
  <2>1. SameOutcomes(st, st') /\ st'.approval = st.approval
    BY <1>1, <1>2, InputGuardrailOutcome DEF Guard
  <2>2. /\ node = "input_guardrail" /\ node' = "intent_router"
        /\ prompts' = prompts /\ streak' = streak
    BY <1>2 DEF Guard, counters
  <2>3. st.approval = NULL
    BY <2>2, TurnTypes
  <2>4. QED
    BY <2>1, <2>2, <2>3, QuietKeepsTurn DEF BeforeRoute
<1>3. CASE InvokeNobody
  <2>1. /\ node = "agent_invoker" /\ PlanDone(st) /\ st' = st
        /\ node' = AfterAgentInvoke(st) /\ prompts' = prompts /\ streak' = streak
    BY <1>3 DEF InvokeNobody, counters
  <2>2. st.approval = NULL
    BY <2>1, TurnTypes
  <2>3. node' \in {"chat_responder", "output_guardrail"}
    BY <2>1, <2>2 DEF AfterAgentInvoke
  <2>4. QED
    BY <1>1, <2>1, <2>2, <2>3, QuietKeepsTurn DEF BeforeRoute
<1>4. ASSUME NEW broken \in SUBSET Tools, RunTools(broken) PROVE TurnInv'
  <2>1. /\ node = "utility_tool_executor" /\ st' = UtilityExecutor(st, broken)
        /\ node' = AfterUtility(st') /\ prompts' = prompts /\ streak' = streak
    BY <1>4 DEF RunTools
  <2>2. SameOutcomes(st, st') /\ st'.approval = st.approval
    BY <1>1, <2>1, UtilityExecutorOutcome, UtilityExecutorFields
  <2>3. st.approval = NULL
    BY <2>1, TurnTypes
  <2>4. node' \in {"chat_responder", "agent_invoker", "output_guardrail"}
    BY <2>1, <2>2, <2>3 DEF AfterUtility
  <2>5. QED
    BY <2>1, <2>2, <2>3, <2>4, QuietKeepsTurn DEF BeforeRoute
<1>5. CASE Respond \/ OutputGuardrail \/ Aggregate
  <2>1. /\ node \in {"chat_responder", "output_guardrail", "response_aggregator"}
        /\ node' \in {"output_guardrail", "response_aggregator", "END"}
        /\ st' = st \/ st' = Replied(st)
        /\ prompts' = prompts /\ streak' = streak
        /\ node' = "END" => reply' = {} \/ reply' = ReplyParts(st)
    BY <1>5 DEF Respond, OutputGuardrail, Aggregate, counters
  <2>2. SameOutcomes(st, st') /\ st'.approval = st.approval
    BY <1>1, <2>1, RepliedOutcome
  <2>3. st.approval = NULL
    BY <2>1, TurnTypes
  <2>4. QED
    BY <2>1, <2>2, <2>3, QuietKeepsTurn DEF BeforeRoute
<1>6. QED
  BY <1>2, <1>3, <1>4, <1>5

\* A new message begins a turn in which nothing has happened.
LEMMA NewMessageKeepsTurn == IInv /\ TurnInv /\ NewMessage => TurnInv'
<1> SUFFICES ASSUME IInv, TurnInv, NewMessage PROVE TurnInv'
  OBVIOUS
<1>1. /\ node = "END" /\ node' = "input_guardrail" /\ prompts' = 0 /\ streak' = streak
      /\ st' = InitialState(st, st.turn + 1)
  BY DEF NewMessage
<1>2. /\ st'.turn = st.turn + 1 /\ st'.invs = st.invs /\ st'.pendingInfo = st.pendingInfo
      /\ st'.idx = 0 /\ st'.plan = <<>> /\ st'.approval = NULL /\ st'.pendingConfirmation = NULL
  BY <1>1 DEF InitialState, BlankState
<1>3. TurnInvocations(st') = {}
  <2>1. \A i \in DOMAIN st.invs : st.invs[i].turn <= st.turn /\ st.invs[i].turn \in Nat
    BY TurnTypes DEF TurnInv, InThisTurn
  <2>2. \A i \in DOMAIN st.invs : st.invs[i].turn # st.turn + 1
    BY <2>1, TurnTypes
  <2>3. QED
    BY <1>2, <2>2 DEF TurnInvocations
<1>4. ~AgentAsks' /\ PlanDone(st')
  BY <1>2 DEF AgentAsks, PlanDone
<1>5. PromptsCounted'
  BY <1>1, <1>2, <1>4 DEF PromptsCounted
<1>6. AttemptsCounted'
  BY <1>1, <1>2, <1>4 DEF TurnInv, AttemptsCounted
<1>7. InThisTurn'
  <2>1. \A i \in DOMAIN st.invs : st.invs[i].turn <= st.turn + 1
    BY TurnTypes DEF TurnInv, InThisTurn
  <2>2. QED
    BY <1>2, <1>3, <1>4, <2>1 DEF InThisTurn
<1>8. AskerRemembered' /\ ReplyIsOfTurn'
  BY <1>1, <1>2, <1>3 DEF AskerRemembered, ReplyIsOfTurn, Inquiries
<1>9. QED
  BY <1>5, <1>6, <1>7, <1>8 DEF TurnInv

\* The router continues a clarification with the one agent that asked, or
\* drops it.
LEMMA RouteKeepsTurn ==
  ASSUME IInv, TurnInv, NEW c \in Classifications, NEW abandon \in BOOLEAN, Route(c, abandon)
  PROVE  TurnInv'
<1> DEFINE continues == ~st.error /\ st.pendingInfo # NULL /\ ~abandon
<1>1. /\ node = "intent_router" /\ BeforeRoute /\ node' = RouteByIntent(st')
      /\ st' = IntentRouter(st, c, abandon) /\ prompts' = prompts
      /\ streak' = IF st.error THEN streak
                   ELSE IF st.pendingInfo # NULL /\ ~abandon THEN streak + 1 ELSE 0
  BY DEF Route, BeforeRoute
<1>2. /\ st \in AgentState /\ st.approval = NULL /\ st.pendingConfirmation = NULL
      /\ TurnInvocations(st) = {} /\ prompts = 0 /\ streak \in Nat
      /\ st.pendingInfo # NULL => st.pendingInfo.attempts \in Nat
  BY <1>1, TurnTypes DEF TurnInv, InThisTurn, PromptsCounted
<1>3. st' \in AgentState /\ Len(st'.plan) \in Nat
  BY <1>1, <1>2, IntentRouterType DEF AgentState
<1>4. /\ st'.turn = st.turn /\ st'.invs = st.invs /\ st'.idx = 0 /\ st'.approval = NULL
      /\ st'.pendingConfirmation = NULL
      /\ continues => /\ st'.plan = <<st.pendingInfo.agent>> /\ st'.tools = {}
                      /\ st'.intent = "domain_agent" /\ st'.pendingInfo = st.pendingInfo
      /\ st.error => st'.pendingInfo = st.pendingInfo /\ st'.plan = <<>>
      /\ ~continues /\ ~st.error => st'.pendingInfo = NULL
  BY <1>1, <1>2, IntentRouterOutcome
<1>5. TurnInvocations(st') = {} /\ ~AgentAsks'
  BY <1>2, <1>4, OutcomesOfSame DEF AgentAsks
<1>6. PromptsCounted'
  BY <1>1, <1>2, <1>3, <1>4 DEF PromptsCounted
<1>7. AttemptsCounted'
  <2>1. /\ streak < MaxAttempts
        /\ st.pendingInfo # NULL => /\ st.pendingInfo.attempts < MaxAttempts
                                    /\ streak < st.pendingInfo.attempts
    BY <1>1 DEF TurnInv, AttemptsCounted
  <2>2. CASE st.error
    <3>1. PlanDone(st') /\ Len(st'.plan) <= 1
      BY <1>4, <2>2 DEF PlanDone
    <3>2. QED
      BY <1>1, <1>4, <2>1, <2>2, <3>1 DEF AttemptsCounted
  <2>3. CASE continues
    <3>1. ~PlanDone(st') /\ Len(st'.plan) <= 1
      <4>1. \E a : st'.plan = <<a>>
        BY <1>4, <2>3
      <4>2. Len(st'.plan) = 1
        BY <4>1
      <4>3. QED
        BY <1>4, <4>2 DEF PlanDone
    <3>2. node' = "agent_invoker"
      BY <1>1, <1>4, <2>3 DEF RouteByIntent
    <3>3. streak' = streak + 1 /\ st'.pendingInfo = st.pendingInfo /\ st.pendingInfo # NULL
      BY <1>1, <1>4, <2>3
    <3>4. QED
      BY <1>2, <2>1, <3>1, <3>2, <3>3 DEF AttemptsCounted, MaxAttempts
  <2>4. CASE ~continues /\ ~st.error
    BY <1>1, <1>4, <2>4 DEF AttemptsCounted, MaxAttempts
  <2>5. QED
    BY <2>2, <2>3, <2>4
<1>8. InThisTurn'
  BY <1>4, <1>5 DEF TurnInv, InThisTurn
<1>9. AskerRemembered' /\ ReplyIsOfTurn'
  <2>1. node' # "END"
    BY <1>1, <1>3 DEF RouteByIntent, AgentState, Intents
  <2>2. QED
    BY <1>4, <1>5, <2>1 DEF AskerRemembered, ReplyIsOfTurn, Inquiries
<1>10. QED
  BY <1>6, <1>7, <1>8, <1>9 DEF TurnInv

\* The answer to an agent's confirmation is progress; the answer to the search
\* changes no count.
LEMMA DecideKeepsTurn ==
  ASSUME IInv, TurnInv, NEW approved \in BOOLEAN, Decide(approved)
  PROVE  TurnInv'
<1>1. /\ node = "human_approval" /\ st.approval # NULL /\ st \in AgentState
      /\ st' = HumanApproval(st, approved) /\ node' = AfterHumanApproval(st')
      /\ prompts' = prompts /\ streak' = streak
      /\ st.pendingConfirmation = NULL
  BY TurnTypes DEF Decide, IInv, SuspendedIffAsking, PendingIsNext
<1>2. /\ st'.turn = st.turn /\ st'.plan = st.plan /\ st'.approval = NULL
      /\ st'.pendingInfo = st.pendingInfo
  BY <1>1, HumanApprovalFields, HumanApprovalOutcome
<1>3. /\ ~AgentAsks' /\ ~BeforeRoute' /\ node' # "END"
      /\ node' = "utility_tool_executor" => st'.pendingUtility # NULL
  BY <1>1, <1>2 DEF AgentAsks, BeforeRoute, AfterHumanApproval
<1>4. ReplyIsOfTurn'
  BY <1>3 DEF ReplyIsOfTurn
<1>5. /\ st.idx \in Nat /\ Len(st.plan) \in Nat /\ prompts \in Nat
      /\ prompts <= st.idx + 1 + IF AgentAsks THEN 1 ELSE 0
      /\ st.idx <= Len(st.plan)
  BY <1>1, TurnTypes DEF TurnInv, PromptsCounted
<1>6. CASE st.approval.who = WebSearch
  <2>1. SameOutcomes(st, st') /\ ~AgentAsks
    BY <1>1, <1>6, HumanApprovalOutcome DEF AgentAsks
  <2>2. /\ TurnInvocations(st') = TurnInvocations(st)
        /\ HasProgress(st') <=> HasProgress(st)
        /\ Inquiries(st') = Inquiries(st)
    BY <2>1, OutcomesOfSame DEF SameOutcomes
  <2>3. PromptsCounted'
    BY <1>1, <1>3, <1>5, <2>1 DEF PromptsCounted, SameOutcomes
  <2>4. AttemptsCounted'
    BY <1>1, <2>1 DEF TurnInv, AttemptsCounted, PlanDone, SameOutcomes
  <2>5. InThisTurn' /\ AskerRemembered'
    BY <1>1, <1>3, <2>1, <2>2 DEF TurnInv, InThisTurn, AskerRemembered, SameOutcomes
  <2>6. QED
    BY <1>4, <2>3, <2>4, <2>5 DEF TurnInv
<1>7. CASE st.approval.who # WebSearch
  <2>1. /\ AgentAsks /\ st.invs # <<>> /\ ~PlanDone(st)
        /\ st.invs[Len(st.invs)].turn = st.turn
    BY <1>1, <1>7 DEF AgentAsks, IInv, AskingIsFresh, TurnInv, InThisTurn
  <2>2. PICK status \in {"confirmed", "cancelled"} : st'.invs = RewriteLast(st, status)
    BY <1>1, <1>7, HumanApprovalOutcome
  <2>3. /\ TurnInvocations(st') = TurnInvocations(st) /\ DOMAIN st'.invs = DOMAIN st.invs
        /\ \A i \in DOMAIN st.invs : st'.invs[i].turn = st.invs[i].turn
        /\ HasProgress(st')
    BY <1>1, <1>2, <2>1, <2>2, OutcomesOfDecision
  <2>4. /\ st'.idx = IF approved THEN st.idx ELSE st.idx + 1
        /\ approved => st'.pendingConfirmation # NULL
    <3>1. approved => st'.pendingConfirmation = [agent |-> st.approval.who,
                                                 cid   |-> st.approval.cid]
      BY <1>1, <1>7, HumanApprovalFields
    <3>2. st.approval.who \in Agents /\ st.approval.cid \in Nat
      BY <1>1, <1>7 DEF AgentState
    <3>3. st'.idx = IF approved THEN st.idx ELSE st.idx + 1
      BY <1>1, <1>7, HumanApprovalOutcome
    <3>4. QED
      BY <3>1, <3>2, <3>3, NullAssumption
  <2>5. st.idx + 1 <= Len(st.plan)
    BY <1>5, <2>1 DEF PlanDone
  <2>6. PromptsCounted'
    BY <1>1, <1>2, <1>3, <1>5, <2>1, <2>4, <2>5 DEF PromptsCounted
  <2>7. AttemptsCounted'
    BY <1>1, <1>2, <1>5, <2>1 DEF TurnInv, AttemptsCounted
  <2>8. InThisTurn'
    BY <1>2, <1>3, <2>3 DEF TurnInv, InThisTurn
  <2>9. AskerRemembered'
    BY <2>3 DEF AskerRemembered
  <2>10. QED
    BY <1>4, <2>6, <2>7, <2>8, <2>9 DEF TurnInv
<1>8. QED
  BY <1>6, <1>7

\* The search is asked for before any agent is called.
LEMMA AskForSearchKeepsTurn == IInv /\ TurnInv /\ AskForSearch => TurnInv'
<1> SUFFICES ASSUME IInv, TurnInv, AskForSearch PROVE TurnInv'
  OBVIOUS
<1>1. /\ node = "utility_tool_executor" /\ st.pendingUtility = NULL /\ st \in AgentState
      /\ st' = AskSearch(st) /\ prompts' = prompts + 1 /\ streak' = streak
      /\ node' = AfterUtility(st')
  BY TurnTypes DEF AskForSearch, SearchGate
<1>2. SameOutcomes(st, st') /\ st'.approval = [who |-> WebSearch, cid |-> 0]
  BY <1>1, AskSearchOutcome DEF AskSearch, AgentState
<1>3. st'.approval # NULL /\ ~AgentAsks' /\ ~AgentAsks
  BY <1>1, <1>2, TurnTypes, NullAssumption DEF AgentAsks
<1>4. node' = "human_approval"
  BY <1>1, <1>3 DEF AfterUtility
<1>5. /\ TurnInvocations(st') = TurnInvocations(st)
      /\ HasProgress(st') <=> HasProgress(st)
      /\ Inquiries(st') = Inquiries(st)
  BY <1>2, OutcomesOfSame DEF SameOutcomes
<1>6. prompts = 0 /\ st.idx \in Nat /\ st.idx <= Len(st.plan)
  BY <1>1, TurnTypes DEF TurnInv, PromptsCounted
<1>7. PromptsCounted'
  BY <1>1, <1>2, <1>3, <1>4, <1>6 DEF PromptsCounted, BeforeRoute, SameOutcomes
<1>8. AttemptsCounted'
  BY <1>1, <1>2 DEF TurnInv, AttemptsCounted, PlanDone, SameOutcomes
<1>9. InThisTurn' /\ AskerRemembered'
  BY <1>2, <1>3, <1>4, <1>5 DEF TurnInv, InThisTurn, AskerRemembered, BeforeRoute, SameOutcomes
<1>10. ReplyIsOfTurn'
  BY <1>4 DEF ReplyIsOfTurn
<1>11. QED
  BY <1>7, <1>8, <1>9, <1>10 DEF TurnInv

\* Doing nothing changes nothing.
LEMMA StutterKeepsTurn == TurnInv /\ UNCHANGED vars => TurnInv'
<1> SUFFICES ASSUME TurnInv, UNCHANGED vars PROVE TurnInv'
  OBVIOUS
<1> USE DEF vars
<1>1. PromptsCounted' /\ AttemptsCounted'
  BY DEF TurnInv, PromptsCounted, AttemptsCounted, AgentAsks, BeforeRoute
<1>2. InThisTurn' /\ AskerRemembered' /\ ReplyIsOfTurn'
  BY DEF TurnInv, InThisTurn, AskerRemembered, ReplyIsOfTurn, AgentAsks, BeforeRoute
<1>3. QED
  BY <1>1, <1>2 DEF TurnInv

\* A call to an agent: the agent at idx asks once for a confirmation or is done;
\* one that only asks for information is remembered until it has asked too often.
LEMMA InvokeKeepsTurn ==
  ASSUME IInv, TurnInv, NEW status \in AgentStatus, Invoke(status)
  PROVE  TurnInv'
<1> DEFINE asks     == status = "needs_confirmation" /\ ~IsConfirmationCall(st)
           attempts == 1 + IF st.pendingInfo = NULL THEN 0 ELSE st.pendingInfo.attempts
           gaveUp   == status = "needs_more_info" /\ attempts >= MaxAttempts
           e        == [turn |-> st.turn, agent |-> CurrentAgent(st),
                        status |-> IF gaveUp THEN "failed" ELSE status]
           n        == Len(st.invs) + 1
<1>1. /\ node = "agent_invoker" /\ ~PlanDone(st) /\ st \in AgentState
      /\ st.approval = NULL /\ ~AgentAsks
      /\ node' = AfterAgentInvoke(st')
      /\ st' = AgentInvoker(st, status, issued + 1) /\ issued + 1 \in Nat
      /\ prompts' = prompts + IF st'.approval # NULL THEN 1 ELSE 0
      /\ streak' = IF status = "needs_more_info" THEN streak ELSE 0
  BY TurnTypes, BoundsAssumption, ConfirmationsAssumption DEF Invoke, IInv, TypeOK
<1>2. /\ st'.plan = st.plan /\ st'.pendingConfirmation = NULL
      /\ asks => st'.approval = [who |-> CurrentAgent(st), cid |-> issued + 1]
      /\ ~asks => st'.approval = NULL
  BY <1>1, AgentInvokerFields
<1>3. /\ st'.turn = st.turn
      /\ st'.idx = IF asks THEN st.idx ELSE st.idx + 1
      /\ st'.invs = Append(st.invs, e)
      /\ st'.pendingInfo = IF status = "needs_more_info" /\ ~gaveUp
                           THEN [agent |-> CurrentAgent(st), attempts |-> attempts] ELSE NULL
  BY <1>1, AgentInvokerOutcome
<1>4. CurrentAgent(st) \in Agents
  BY <1>1, CurrentAgentType
<1>5. asks => /\ st'.approval # NULL /\ AgentAsks'
  <2>1. asks => /\ st'.approval # NULL /\ st'.approval.who # WebSearch
    BY <1>1, <1>2, <1>4, NullAssumption, ToolsAssumption
  <2>2. QED
    BY <2>1 DEF AgentAsks
<1>6. ~asks => ~AgentAsks'
  BY <1>2 DEF AgentAsks
<1>7. /\ node' \notin {"input_guardrail", "intent_router", "utility_tool_executor", "END"}
      /\ ~BeforeRoute'
      /\ node' = "human_approval" => asks
      /\ ~asks /\ ~PlanDone(st') => node' = "agent_invoker"
  BY <1>1, <1>2 DEF AfterAgentInvoke, BeforeRoute
<1>8. /\ st.idx \in Nat /\ Len(st.plan) \in Nat /\ st.idx + 1 <= Len(st.plan)
      /\ prompts \in Nat /\ streak \in Nat
      /\ st.pendingInfo # NULL => st.pendingInfo.attempts \in Nat
      /\ prompts <= st.idx + 1 + IF st.pendingConfirmation # NULL THEN 1 ELSE 0
  BY <1>1, TurnTypes DEF PlanDone, TurnInv, PromptsCounted
<1>9. asks => st.pendingConfirmation = NULL
  BY <1>1 DEF IInv, PendingIsNext, IsConfirmationCall
<1>10. e.turn = st.turn /\ e.agent = CurrentAgent(st)
       /\ e.status = IF gaveUp THEN "failed" ELSE status
  OBVIOUS
<1> HIDE DEF e
<1>11. /\ HasProgress(st) => HasProgress(st')
       /\ e.status \notin {"needs_confirmation", "needs_more_info"} => HasProgress(st')
       /\ e.status = "needs_more_info" => n \in Inquiries(st')
       /\ st'.invs[n] = e
  BY <1>1, <1>3, <1>10, OutcomesOfCall
<1>12. /\ Len(st'.invs) = n
       /\ \A i \in DOMAIN st.invs : st'.invs[i] = st.invs[i]
       /\ \A i \in DOMAIN st'.invs : i = n \/ i \in DOMAIN st.invs
  BY <1>1, <1>3, <1>10, OutcomesOfAppended
<1> HIDE DEF n
<1>13. PromptsCounted'
  <2>1. CASE asks
    <3>1. /\ st'.idx = st.idx /\ prompts' = prompts + 1 /\ AgentAsks'
          /\ prompts <= st.idx + 1
      BY <1>1, <1>3, <1>5, <1>8, <1>9, <2>1
    <3>2. QED
      BY <1>2, <1>7, <1>8, <3>1 DEF PromptsCounted
  <2>2. CASE ~asks
    <3>1. /\ st'.idx = st.idx + 1 /\ prompts' = prompts /\ ~AgentAsks'
      BY <1>1, <1>2, <1>3, <1>6, <1>8, <2>2
    <3>2. QED
      BY <1>2, <1>7, <1>8, <3>1 DEF PromptsCounted
  <2>3. QED
    BY <2>1, <2>2
<1>14. AttemptsCounted'
  <2>1. /\ streak < MaxAttempts
        /\ st.pendingInfo # NULL => /\ st.pendingInfo.attempts < MaxAttempts
                                    /\ streak <= st.pendingInfo.attempts
        /\ streak > 0 => Len(st.plan) <= 1 /\ st.pendingInfo # NULL
    BY <1>1, <1>8 DEF TurnInv, AttemptsCounted
  <2>2. streak' <= streak /\ streak' \in Nat
    BY <1>1, <1>8
  <2>3. st'.pendingInfo # NULL => /\ st'.pendingInfo.attempts < MaxAttempts
                                 /\ streak' < st'.pendingInfo.attempts
    <3>1. SUFFICES ASSUME st'.pendingInfo # NULL
                   PROVE  /\ st'.pendingInfo.attempts < MaxAttempts
                          /\ streak' < st'.pendingInfo.attempts
      OBVIOUS
    <3>2. st'.pendingInfo.attempts = attempts /\ ~(attempts >= MaxAttempts)
      BY <1>3, <3>1
    <3>3. attempts \in Nat /\ streak < attempts
      BY <1>8, <2>1
    <3>4. QED
      BY <1>8, <2>2, <3>2, <3>3 DEF MaxAttempts
  <2>4. streak' > 0 => Len(st'.plan) <= 1 /\ PlanDone(st')
    <3>1. SUFFICES ASSUME streak' > 0 PROVE Len(st.plan) <= 1 /\ st'.idx = st.idx + 1
      BY <1>2, <1>8 DEF PlanDone
    <3>2. status = "needs_more_info" /\ streak > 0
      BY <1>1, <1>8, <3>1
    <3>3. QED
      BY <1>3, <2>1, <3>2
  <2>5. QED
    BY <1>8, <2>1, <2>2, <2>3, <2>4 DEF AttemptsCounted, MaxAttempts
<1>15. InThisTurn'
  <2>1. \A i \in DOMAIN st'.invs : st'.invs[i].turn <= st'.turn
    <3>1. \A i \in DOMAIN st.invs : st.invs[i].turn <= st.turn
      BY DEF TurnInv, InThisTurn
    <3>2. st.turn <= st.turn
      BY TurnTypes
    <3>3. QED
      BY <1>3, <1>10, <1>11, <1>12, <3>1, <3>2
  <2>2. st'.invs[Len(st'.invs)].turn = st'.turn
    BY <1>3, <1>10, <1>11, <1>12
  <2>3. QED
    BY <1>7, <2>1, <2>2 DEF InThisTurn
<1>16. AskerRemembered'
  <2>1. SUFFICES ASSUME ~AgentAsks', ~HasProgress(st')
                 PROVE  /\ st'.pendingInfo # NULL
                        /\ \E j \in Inquiries(st') : st'.invs[j].agent = st'.pendingInfo.agent
    BY <1>2 DEF AskerRemembered
  <2>2. ~HasProgress(st) /\ e.status \in {"needs_confirmation", "needs_more_info"}
    BY <1>11, <2>1
  <2>3. st.pendingConfirmation = NULL
    BY <2>2 DEF TurnInv, AskerRemembered
  <2>4. ~asks /\ ~IsConfirmationCall(st)
    BY <1>5, <2>1, <2>3 DEF IsConfirmationCall
  <2>5. e.status = "needs_more_info" /\ status = "needs_more_info" /\ ~gaveUp
    BY <1>10, <2>2, <2>4
  <2>6. /\ st'.pendingInfo = [agent |-> CurrentAgent(st), attempts |-> attempts]
        /\ attempts \in Nat
    BY <1>3, <1>8, <2>5
  <2> HIDE DEF attempts
  <2>7. st'.pendingInfo # NULL /\ st'.pendingInfo.agent = CurrentAgent(st)
    BY <1>4, <2>6, NullAssumption
  <2>8. QED
    BY <1>10, <1>11, <2>5, <2>7
<1>17. ReplyIsOfTurn'
  BY <1>7 DEF ReplyIsOfTurn
<1>18. QED
  BY <1>13, <1>14, <1>15, <1>16, <1>17 DEF TurnInv

\* In every reachable state the questions asked are bounded by the plan and the
\* attempts counted, and an agent that asked is remembered as long as the turn
\* has only asked.
THEOREM TurnInvariant == Spec => []TurnInv
<1>1. Init => TurnInv
  BY InitOfTurn
<1>2. IInv /\ IInv' /\ TurnInv /\ [Next]_vars => TurnInv'
  <2> SUFFICES ASSUME IInv, IInv', TurnInv, [Next]_vars PROVE TurnInv'
    OBVIOUS
  <2>1. CASE NewMessage
    BY <2>1, NewMessageKeepsTurn
  <2>2. ASSUME NEW approved \in BOOLEAN, Decide(approved) PROVE TurnInv'
    BY <2>2, DecideKeepsTurn
  <2>3. ASSUME NEW c \in Classifications, NEW abandon \in BOOLEAN, Route(c, abandon)
        PROVE  TurnInv'
    BY <2>3, RouteKeepsTurn
  <2>4. ASSUME NEW status \in AgentStatus, Invoke(status) PROVE TurnInv'
    BY <2>4, InvokeKeepsTurn
  <2>5. CASE AskForSearch
    BY <2>5, AskForSearchKeepsTurn
  <2>6. CASE \/ \E injected \in BOOLEAN : Guard(injected)
             \/ InvokeNobody
             \/ \E broken \in SUBSET Tools : RunTools(broken)
             \/ Respond \/ OutputGuardrail \/ Aggregate
    BY <2>6, QuietStepsKeepTurn
  <2>7. CASE UNCHANGED vars
    BY <2>7, StutterKeepsTurn
  <2>8. QED
    BY <2>1, <2>2, <2>3, <2>4, <2>5, <2>6, <2>7 DEF Next, GraphStep
<1>3. QED
  BY <1>1, <1>2, Invariant, PTL DEF Spec

\* The user is asked for at most one confirmation per planned agent and one for
\* the search in a turn, and taken back to an agent that only asks at most twice
\* before a message is classified again.
THEOREM QuestionsAreBounded == Spec => []QuestionsEnd
<1>1. IInv /\ TurnInv => QuestionsEnd
  <2> SUFFICES ASSUME IInv, TurnInv PROVE QuestionsEnd
    OBVIOUS
  <2>1. /\ st.idx \in Nat /\ Len(st.plan) \in Nat /\ prompts \in Nat
        /\ st.idx <= Len(st.plan)
        /\ prompts <= st.idx + 1 + IF AgentAsks \/ st.pendingConfirmation # NULL THEN 1 ELSE 0
    BY TurnTypes DEF TurnInv, PromptsCounted
  <2>2. AgentAsks \/ st.pendingConfirmation # NULL => ~PlanDone(st)
    BY DEF AgentAsks, IInv, AskingIsFresh, PendingIsNext
  <2>3. AgentAsks \/ st.pendingConfirmation # NULL => st.idx + 1 <= Len(st.plan)
    BY <2>1, <2>2 DEF PlanDone
  <2>4. prompts <= Len(st.plan) + 1
    BY <2>1, <2>3
  <2>5. QED
    BY <2>4 DEF QuestionsEnd, TurnInv, AttemptsCounted
<1>2. QED
  BY <1>1, Invariant, TurnInvariant, PTL

\* A reply that asks for missing information is answered to an agent that asked.
THEOREM AnswerGoesToAnAsker == Spec => []SomeAskerRemembered
<1>1. IInv /\ TurnInv => SomeAskerRemembered
  <2> SUFFICES ASSUME IInv, TurnInv, NEW i \in reply, node = "END",
                      st.invs[i].status = "needs_more_info"
               PROVE  /\ st.pendingInfo # NULL
                      /\ \E j \in reply : st.invs[j] = [turn |-> st.turn,
                                                       status |-> "needs_more_info",
                                                       agent |-> st.pendingInfo.agent]
    BY DEF SomeAskerRemembered
  <2>1. reply = ReplyParts(st) /\ ~AgentAsks
    BY TurnTypes DEF TurnInv, ReplyIsOfTurn
  <2>2. ~HasProgress(st) /\ i \in Inquiries(st)
    BY <2>1 DEF ReplyParts, HasProgress, Inquiries
  <2>3. /\ st.pendingInfo # NULL
        /\ \E j \in Inquiries(st) : st.invs[j].agent = st.pendingInfo.agent
    BY <2>1, <2>2 DEF TurnInv, AskerRemembered
  <2>4. PICK j \in Inquiries(st) : st.invs[j].agent = st.pendingInfo.agent
    BY <2>3
  <2>5. /\ j \in DOMAIN st.invs /\ st.invs[j].turn = st.turn
        /\ st.invs[j].status = "needs_more_info"
    BY DEF Inquiries, TurnInvocations
  <2>6. st.invs[j] \in Invocations
    BY <2>5, TurnTypes
  <2>7. st.invs[j] = [turn |-> st.turn, status |-> "needs_more_info",
                      agent |-> st.pendingInfo.agent]
    BY <2>4, <2>5, <2>6 DEF Invocations
  <2>8. j \in reply
    BY <2>1, <2>2, <2>5 DEF ReplyParts, HasProgress, Inquiries
  <2>9. QED
    BY <2>3, <2>7, <2>8
<1>2. QED
  BY <1>1, Invariant, TurnInvariant, PTL

(***************************************************************************)
(* The outcomes in the reply                                               *)
(***************************************************************************)

\* No plan of the classifier names an agent twice.
DistinctPlans == \A p \in Plans : Distinct(p)

\* Nothing has been called in the beginning.
LEMMA InitOfOutcomes == Init => OutcomesInv
<1> SUFFICES ASSUME Init PROVE OutcomesInv
  OBVIOUS
<1>1. /\ st.plan = <<>> /\ st.invs = <<>> /\ st.failed = {} /\ node = "END"
  BY DEF Init, BlankState
<1>2. TurnInvocations(st) = {} /\ Completed(st) = {}
  BY <1>1 DEF TurnInvocations, Completed
<1>3. CompletedStand /\ AnsweredInstead
  BY <1>1, <1>2 DEF CompletedStand, AnsweredInstead, Distinct
<1>4. QED
  BY <1>2, <1>3 DEF OutcomesInv

\* If every agent of the plan has failed and the plan is done, nothing has been
\* completed.
LEMMA NothingCompletedIfAllFailed ==
  ASSUME NEW s \in AgentState, PlanDone(s), s.idx <= Len(s.plan), AllAgentsFailed(s),
         \A i \in Completed(s) : s.invs[i].agent \in Done(s) \ s.failed
  PROVE  Completed(s) = {}
<1>1. s.idx = Len(s.plan) /\ DOMAIN s.plan = 1..s.idx
  BY DEF PlanDone, AgentState
<1>2. Done(s) \subseteq s.failed
  BY <1>1 DEF AllAgentsFailed, Done
<1>3. QED
  BY <1>2

\* A step that leaves the outcomes, the plan and the failures alone.
LEMMA QuietKeepsStanding ==
  ASSUME CompletedStand, SameOutcomes(st, st'), BeforeRoute' => BeforeRoute
  PROVE  CompletedStand'
<1>1. Completed(st') = Completed(st) /\ Done(st') = Done(st)
  BY OutcomesOfSame DEF SameOutcomes, Done
<1>2. QED
  BY <1>1 DEF CompletedStand, SameOutcomes

\* A new message or a new plan starts before any call of the turn.
LEMMA BeginningsKeepOutcomes ==
  ASSUME DistinctPlans, IInv, TurnInv, TurnInv', OutcomesInv,
         \/ NewMessage
         \/ \E injected \in BOOLEAN : Guard(injected)
         \/ \E c \in Classifications, abandon \in BOOLEAN : Route(c, abandon)
  PROVE  OutcomesInv'
<1>1. st \in AgentState
  BY TurnTypes
<1>2. CASE NewMessage
  <2>1. st' = InitialState(st, st.turn + 1) /\ node' = "input_guardrail"
    BY <1>2 DEF NewMessage
  <2>2. /\ st'.plan = <<>> /\ st'.failed = {} /\ st'.last = "human"
    BY <2>1 DEF InitialState, BlankState
  <2>3. TurnInvocations(st') = {} /\ Completed(st') = {}
    BY <2>1 DEF TurnInv, InThisTurn, BeforeRoute, Completed
  <2>4. CompletedStand' /\ AnsweredInstead'
    BY <2>1, <2>2, <2>3 DEF CompletedStand, AnsweredInstead, Distinct
  <2>5. QED
    BY <2>3, <2>4 DEF OutcomesInv
<1>3. ASSUME NEW injected \in BOOLEAN, Guard(injected) PROVE OutcomesInv'
  <2>1. /\ node = "input_guardrail" /\ node' = "intent_router"
        /\ st' = InputGuardrail(st, injected)
    BY <1>3 DEF Guard
  <2>2. SameOutcomes(st, st') /\ st'.last = st.last
    BY <1>1, <2>1, InputGuardrailOutcome
  <2>3. TurnInvocations(st') = {} /\ Completed(st') = {}
    BY <2>1 DEF TurnInv, InThisTurn, BeforeRoute, Completed
  <2>4. CompletedStand'
    BY <2>1, <2>2, QuietKeepsStanding DEF OutcomesInv, BeforeRoute
  <2>5. AnsweredInstead'
    BY <2>1, <2>2, <2>3 DEF OutcomesInv, AnsweredInstead
  <2>6. QED
    BY <2>3, <2>4, <2>5 DEF OutcomesInv
<1>4. ASSUME NEW c \in Classifications, NEW abandon \in BOOLEAN, Route(c, abandon)
      PROVE  OutcomesInv'
  <2>1. /\ node = "intent_router" /\ BeforeRoute /\ st' = IntentRouter(st, c, abandon)
        /\ node' = RouteByIntent(st')
    BY <1>4 DEF Route, BeforeRoute
  <2>2. /\ st'.turn = st.turn /\ st'.last = st.last /\ st'.invs = st.invs
        /\ st'.failed = st.failed
        /\ (\E a : st'.plan = <<a>>) \/ st'.plan = <<>> \/ st'.plan \in Plans
    BY <1>1, <2>1, IntentRouterOutcome
  <2>3. Distinct(st'.plan)
    <3>1. CASE \E a : st'.plan = <<a>>
      BY <3>1 DEF Distinct
    <3>2. CASE st'.plan = <<>> \/ st'.plan \in Plans
      BY <3>2 DEF Distinct, DistinctPlans
    <3>3. QED
      BY <2>2, <3>1, <3>2
  <2>4. st.failed = {} /\ st.last # "ai" /\ TurnInvocations(st) = {}
    BY <2>1 DEF OutcomesInv, CompletedStand, AnsweredInstead, TurnInv, InThisTurn
  <2>5. TurnInvocations(st') = {} /\ Completed(st') = {}
    BY <2>2, <2>4, OutcomesOfSame DEF Completed
  <2>6. node' # "END"
    <3>1. st' \in AgentState
      BY <1>1, <2>1, IntentRouterType
    <3>2. QED
      BY <2>1, <3>1 DEF RouteByIntent, AgentState, Intents
  <2>7. CompletedStand' /\ AnsweredInstead'
    BY <2>2, <2>3, <2>4, <2>5, <2>6 DEF CompletedStand, AnsweredInstead
  <2>8. QED
    BY <2>5, <2>7 DEF OutcomesInv
<1>5. QED
  BY <1>2, <1>3, <1>4

\* The tools have their pass before any agent is called, so that the chat model
\* speaks for failed tools only.
LEMMA ToolsKeepOutcomes ==
  ASSUME IInv, TurnInv, OutcomesInv,
         AskForSearch \/ \E broken \in SUBSET Tools : RunTools(broken)
  PROVE  OutcomesInv'
<1>1. /\ st \in AgentState /\ node = "utility_tool_executor" /\ st.approval = NULL
      /\ st.ran = {} /\ st.last # "ai"
      /\ ToolsToRun(st) # {} => TurnInvocations(st) = {}
  BY TurnTypes DEF AskForSearch, RunTools, IInv, NotRunYet, ToolsToCome, OutcomesInv,
                   AgentsToCome, AnsweredInstead
<1>2. CASE AskForSearch
  <2>1. /\ st' = AskSearch(st) /\ node' = AfterUtility(st') /\ SearchGate(st)
    BY <1>2 DEF AskForSearch
  <2>2. /\ SameOutcomes(st, st') /\ st'.last = st.last
        /\ st'.approval = [who |-> WebSearch, cid |-> 0]
    BY <1>1, <2>1, AskSearchOutcome DEF AskSearch, AgentState
  <2>3. node' = "human_approval"
    BY <2>1, <2>2, NullAssumption DEF AfterUtility
  <2>4. WebSearch \in ToolsToRun(st)
    BY <2>1, NullAssumption DEF SearchGate, ToolsToRun
  <2>5. TurnInvocations(st') = {} /\ Completed(st') = {}
    BY <1>1, <2>2, <2>4, OutcomesOfSame DEF SameOutcomes, Completed
  <2>6. CompletedStand'
    BY <2>2, <2>3, QuietKeepsStanding DEF OutcomesInv, BeforeRoute
  <2>7. AnsweredInstead'
    BY <1>1, <2>2, <2>3, <2>5 DEF AnsweredInstead
  <2>8. QED
    BY <2>5, <2>6, <2>7 DEF OutcomesInv
<1>3. ASSUME NEW broken \in SUBSET Tools, RunTools(broken) PROVE OutcomesInv'
  <2>1. /\ st' = UtilityExecutor(st, broken) /\ node' = AfterUtility(st')
    BY <1>3 DEF RunTools
  <2>2. /\ SameOutcomes(st, st') /\ st'.last = st.last /\ st'.approval = NULL
        /\ ToolsToRun(st) = {} => st' = st
        /\ ToolsToRun(st) # {} => st'.pendingUtility = NULL
    BY <1>1, <2>1, UtilityExecutorOutcome, UtilityExecutorFields
  <2>3. /\ TurnInvocations(st') = TurnInvocations(st) /\ Completed(st') = Completed(st)
    BY <2>2, OutcomesOfSame DEF SameOutcomes
  <2>4. node' \in {"chat_responder", "agent_invoker", "output_guardrail"}
    BY <2>1, <2>2 DEF AfterUtility
  <2>5. node' = "chat_responder" => Completed(st) = {}
    <3>1. SUFFICES ASSUME node' = "chat_responder" PROVE TurnInvocations(st) = {}
      BY DEF Completed
    <3>2. st'.ran # {}
      BY <2>1, <2>2, <3>1 DEF AfterUtility, AllToolsFailed
    <3>3. QED
      BY <1>1, <2>2, <3>2
  <2>6. CompletedStand'
    BY <2>2, <2>4, QuietKeepsStanding DEF OutcomesInv, BeforeRoute
  <2>7. AnsweredInstead'
    BY <1>1, <2>2, <2>3, <2>4, <2>5 DEF AnsweredInstead
  <2>8. ~AgentsToCome'
    BY <2>2, <2>4 DEF AgentsToCome, BeforeRoute
  <2>9. QED
    BY <2>6, <2>7, <2>8 DEF OutcomesInv
<1>4. QED
  BY <1>2, <1>3

\* A decision turns no outcome into a completed call.
LEMMA DecideKeepsOutcomes ==
  ASSUME IInv, TurnInv, OutcomesInv, NEW approved \in BOOLEAN, Decide(approved)
  PROVE  OutcomesInv'
<1>1. /\ node = "human_approval" /\ st.approval # NULL /\ st \in AgentState
      /\ st' = HumanApproval(st, approved) /\ node' = AfterHumanApproval(st')
      /\ st.last # "ai"
  BY TurnTypes DEF Decide, IInv, SuspendedIffAsking, OutcomesInv, AnsweredInstead
<1>2. /\ st'.turn = st.turn /\ st'.plan = st.plan /\ st'.approval = NULL
      /\ st'.tools = st.tools /\ st'.last = st.last /\ st'.failed = st.failed
  BY <1>1, HumanApprovalFields, HumanApprovalOutcome
<1>3. node' \in {"utility_tool_executor", "agent_invoker"} /\ ~BeforeRoute'
  BY <1>1 DEF AfterHumanApproval, BeforeRoute
<1>4. AnsweredInstead'
  BY <1>1, <1>2, <1>3 DEF AnsweredInstead
<1>5. CASE st.approval.who = WebSearch
  <2>1. SameOutcomes(st, st')
    BY <1>1, <1>5, HumanApprovalOutcome
  <2>2. TurnInvocations(st) = {}
    BY <1>1, <1>5 DEF OutcomesInv, AgentsToCome
  <2>3. TurnInvocations(st') = {}
    BY <2>1, <2>2, OutcomesOfSame DEF SameOutcomes
  <2>4. CompletedStand'
    BY <1>3, <2>1, QuietKeepsStanding DEF OutcomesInv
  <2>5. QED
    BY <1>4, <2>3, <2>4 DEF OutcomesInv
<1>6. CASE st.approval.who # WebSearch
  <2>1. st.invs # <<>>
    BY <1>1, <1>6 DEF IInv, AskingIsFresh
  <2>2. PICK status \in {"confirmed", "cancelled"} : st'.invs = RewriteLast(st, status)
    BY <1>1, <1>6, HumanApprovalOutcome
  <2>3. /\ Completed(st') \subseteq Completed(st)
        /\ \A i \in DOMAIN st.invs : st'.invs[i].agent = st.invs[i].agent
    BY <1>1, <1>2, <2>1, <2>2, OutcomesOfDecision
  <2>4. Done(st) \subseteq Done(st')
    <3>1. st.idx \in Nat /\ st'.idx \in {st.idx, st.idx + 1}
      BY <1>1, <1>6, TurnTypes, HumanApprovalOutcome
    <3>2. 1..st.idx \subseteq 1..st'.idx
      BY <3>1
    <3>3. QED
      BY <1>2, <3>2 DEF Done
  <2>5. CompletedStand'
    <3>1. \A i \in Completed(st') : st'.invs[i].agent \in Done(st') \ st'.failed
      <4>1. \A i \in Completed(st') : i \in Completed(st) /\ i \in DOMAIN st.invs
        BY <2>3 DEF Completed, TurnInvocations
      <4>2. QED
        BY <1>2, <2>3, <2>4, <4>1 DEF OutcomesInv, CompletedStand
    <3>2. QED
      BY <1>2, <1>3, <2>4, <3>1 DEF OutcomesInv, CompletedStand
  <2>6. AgentsToCome' => FALSE
    <3>1. SUFFICES ASSUME AgentsToCome' PROVE FALSE
      OBVIOUS
    <3>2. st'.pendingUtility # NULL /\ ToolsToRun(st') # {}
      BY <1>1, <1>2, <1>3, <3>1 DEF AgentsToCome, AfterHumanApproval
    <3>3. st'.pendingUtility = st.pendingUtility
      BY <1>1, <1>6, HumanApprovalFields
    <3>4. ToolsToRun(st) # {} /\ st.pendingUtility # NULL
      BY <1>2, <3>2, <3>3 DEF ToolsToRun
    <3>5. QED
      BY <1>1, <3>4 DEF IInv, SearchAnswerIsUsed
  <2>7. QED
    BY <1>4, <2>5, <2>6 DEF OutcomesInv
<1>7. QED
  BY <1>5, <1>6

\* The replies report what was completed.
LEMMA RepliesKeepOutcomes ==
  ASSUME IInv, TurnInv, OutcomesInv, Respond \/ OutputGuardrail \/ Aggregate
  PROVE  OutcomesInv'
<1>1. /\ st \in AgentState /\ (st' = st \/ st' = Replied(st))
      /\ node \in {"chat_responder", "output_guardrail", "response_aggregator"}
      /\ node' \in {"output_guardrail", "response_aggregator", "END"}
  BY TurnTypes DEF Respond, OutputGuardrail, Aggregate
<1>2. SameOutcomes(st, st') /\ st'.tools = st.tools
      /\ st'.pendingUtility = st.pendingUtility /\ st'.approval = NULL
  BY <1>1, TurnTypes, RepliedOutcome DEF SameOutcomes
<1>3. /\ TurnInvocations(st') = TurnInvocations(st) /\ Completed(st') = Completed(st)
      /\ ReplyParts(st') = ReplyParts(st)
  BY <1>2, OutcomesOfSame DEF SameOutcomes
<1>4. CompletedStand'
  BY <1>1, <1>2, QuietKeepsStanding DEF OutcomesInv, BeforeRoute
<1>5. AgentsToCome' => AgentsToCome
  BY <1>1, <1>2 DEF AgentsToCome, BeforeRoute, ToolsToRun
<1>6. AnsweredInstead'
  <2>1. CASE Respond
    BY <1>3, <2>1 DEF Respond, OutcomesInv, AnsweredInstead
  <2>2. CASE OutputGuardrail
    BY <2>2 DEF OutputGuardrail, OutcomesInv, AnsweredInstead
  <2>3. CASE Aggregate
    <3>1. node' = "END" /\ reply' = IF st.last = "ai" THEN {} ELSE ReplyParts(st)
      BY <2>3 DEF Aggregate
    <3>2. st.last = "ai" => Completed(st) = {}
      BY <2>3 DEF Aggregate, OutcomesInv, AnsweredInstead
    <3>3. QED
      BY <1>3, <3>1, <3>2 DEF AnsweredInstead
  <2>4. QED
    BY <2>1, <2>2, <2>3
<1>7. QED
  BY <1>3, <1>4, <1>5, <1>6 DEF OutcomesInv

\* Nothing changes if nothing happens.
LEMMA StutterKeepsOutcomes == OutcomesInv /\ UNCHANGED vars => OutcomesInv'
<1> SUFFICES ASSUME OutcomesInv, UNCHANGED vars PROVE OutcomesInv'
  OBVIOUS
<1> USE DEF vars
<1>1. CompletedStand' /\ AnsweredInstead'
  BY DEF OutcomesInv, CompletedStand, AnsweredInstead, BeforeRoute
<1>2. QED
  BY <1>1 DEF OutcomesInv, AgentsToCome, BeforeRoute

\* A call that completes is the only one to its agent in the plan.
LEMMA InvokeKeepsOutcomes ==
  ASSUME IInv, TurnInv, OutcomesInv, NEW status \in AgentStatus, Invoke(status)
  PROVE  OutcomesInv'
<1> DEFINE asks   == status = "needs_confirmation" /\ ~IsConfirmationCall(st)
           agent  == CurrentAgent(st)
           attempts == 1 + IF st.pendingInfo = NULL THEN 0 ELSE st.pendingInfo.attempts
           gaveUp == status = "needs_more_info" /\ attempts >= MaxAttempts
           e      == [turn |-> st.turn, agent |-> CurrentAgent(st),
                      status |-> IF gaveUp THEN "failed" ELSE status]
           n      == Len(st.invs) + 1
<1>1. /\ node = "agent_invoker" /\ ~PlanDone(st) /\ st \in AgentState /\ st.approval = NULL
      /\ node' = AfterAgentInvoke(st') /\ st.last # "ai"
      /\ st' = AgentInvoker(st, status, issued + 1) /\ issued + 1 \in Nat
  BY TurnTypes, BoundsAssumption, ConfirmationsAssumption DEF Invoke, IInv, TypeOK, OutcomesInv, AnsweredInstead
<1>2. /\ st'.plan = st.plan /\ st'.tools = st.tools
      /\ st'.pendingUtility = st.pendingUtility
      /\ asks => st'.approval = [who |-> CurrentAgent(st), cid |-> issued + 1]
      /\ ~asks => st'.approval = NULL
  BY <1>1, AgentInvokerFields
<1>3. /\ st'.turn = st.turn /\ st'.last = st.last
      /\ st'.idx = IF asks THEN st.idx ELSE st.idx + 1
      /\ st'.failed = st.failed \/ (~asks /\ status # "completed"
                                    /\ st'.failed = st.failed \cup {agent})
  <2>1. /\ st'.turn = st.turn /\ st'.last = st.last
        /\ st'.idx = IF asks THEN st.idx ELSE st.idx + 1
    BY <1>1, AgentInvokerOutcome
  <2>2. st'.failed = st.failed \/ (~asks /\ status # "completed"
                                  /\ st'.failed = st.failed \cup {agent})
    BY <1>1, AgentInvokerOutcome
  <2>3. QED
    BY <2>1, <2>2
<1>4. st'.invs = Append(st.invs, e)
  BY <1>1, AgentInvokerOutcome
<1>5. e.turn = st.turn /\ e.agent = agent /\ (e.status = "completed" => status = "completed")
  OBVIOUS
<1> HIDE DEF e
<1>6. agent \in Agents /\ agent = st.plan[st.idx + 1]
  BY <1>1, CurrentAgentType DEF CurrentAgent
<1>7. /\ \A i \in Completed(st') : i \in Completed(st) \/ (i = n /\ status = "completed")
      /\ \A i \in Completed(st) : st'.invs[i] = st.invs[i]
      /\ st'.invs[n].agent = agent
  <2>1. Appends(st, st', e)
    BY <1>1, <1>3, <1>4, <1>5 DEF Appends
  <2>2. /\ \A i \in Completed(st') : i \in Completed(st) \/ (i = n /\ e.status = "completed")
        /\ \A i \in Completed(st) : st'.invs[i] = st.invs[i]
        /\ st'.invs[n] = e
    BY <2>1, CompletedOfCall
  <2>3. QED
    BY <1>5, <2>2
<1> HIDE DEF agent, n
<1>8. /\ st.idx \in Nat /\ Len(st.plan) \in Nat /\ st.idx + 1 <= Len(st.plan)
      /\ DOMAIN st.plan = 1..Len(st.plan)
  BY <1>1, TurnTypes DEF PlanDone
<1>9. agent \notin Done(st)
  <2>1. st.idx + 1 \in DOMAIN st.plan
        /\ \A k \in 1..st.idx : k \in DOMAIN st.plan /\ k # st.idx + 1
    BY <1>8
  <2>2. QED
    BY <1>6, <2>1 DEF OutcomesInv, CompletedStand, Distinct, Done
<1>10. Done(st) \subseteq Done(st') /\ (~asks => agent \in Done(st'))
  <2>1. 1..st.idx \subseteq 1..st'.idx /\ (~asks => st.idx + 1 \in 1..st'.idx)
    BY <1>3, <1>8
  <2>2. QED
    BY <1>2, <1>6, <2>1 DEF Done
<1>11. \A i \in Completed(st') : st'.invs[i].agent \in Done(st') \ st'.failed
  <2>1. \A i \in Completed(st) : st'.invs[i].agent \in Done(st) \ st.failed
    BY <1>7 DEF OutcomesInv, CompletedStand
  <2>2. \A i \in Completed(st) : st'.invs[i].agent \in Done(st') \ st'.failed
    BY <1>3, <1>9, <1>10, <2>1
  <2>3. ASSUME status = "completed" PROVE agent \in Done(st') \ st'.failed
    <3>1. st'.failed = st.failed /\ ~asks
      BY <1>3, <2>3
    <3>2. st.failed \subseteq Done(st)
      BY DEF OutcomesInv, CompletedStand
    <3>3. QED
      BY <1>9, <1>10, <3>1, <3>2
  <2>4. QED
    BY <1>7, <2>2, <2>3
<1>12. /\ node' \notin {"input_guardrail", "intent_router", "utility_tool_executor", "END"}
       /\ ~BeforeRoute'
       /\ node' = "chat_responder" => AllAgentsFailed(st') /\ PlanDone(st')
  BY <1>1 DEF AfterAgentInvoke, BeforeRoute
<1>13. CompletedStand'
  <2>1. st'.failed \subseteq Done(st')
    BY <1>3, <1>10 DEF OutcomesInv, CompletedStand
  <2>2. QED
    BY <1>2, <1>11, <1>12, <2>1 DEF OutcomesInv, CompletedStand
<1>14. AnsweredInstead'
  <2>1. st' \in AgentState
    BY <1>1, AgentInvokerType
  <2>2. st'.idx <= Len(st'.plan)
    BY <1>2, <1>3, <1>8
  <2>3. node' = "chat_responder" => Completed(st') = {}
    BY <1>11, <1>12, <2>1, <2>2, NothingCompletedIfAllFailed
  <2>4. QED
    BY <1>1, <1>3, <1>12, <2>3 DEF AnsweredInstead
<1>15. ~AgentsToCome'
  <2>1. st'.approval # NULL => st'.approval.who # WebSearch
    BY <1>1, <1>2, <1>6, ToolsAssumption DEF agent
  <2>2. st.pendingUtility # NULL => ToolsToRun(st) = {}
    BY <1>1 DEF IInv, SearchAnswerIsUsed
  <2>3. QED
    BY <1>2, <1>12, <2>1, <2>2 DEF AgentsToCome, ToolsToRun
<1>16. QED
  BY <1>13, <1>14, <1>15 DEF OutcomesInv

\* At the end of the plan the chat model answers only if everybody failed.
LEMMA InvokeNobodyKeepsOutcomes == IInv /\ TurnInv /\ OutcomesInv /\ InvokeNobody => OutcomesInv'
<1> SUFFICES ASSUME IInv, TurnInv, OutcomesInv, InvokeNobody PROVE OutcomesInv'
  OBVIOUS
<1>1. /\ st \in AgentState /\ node = "agent_invoker" /\ PlanDone(st) /\ st' = st
      /\ st.approval = NULL /\ node' = AfterAgentInvoke(st)
  BY TurnTypes DEF InvokeNobody
<1>2. /\ node' \in {"chat_responder", "output_guardrail"}
      /\ node' = "chat_responder" => AllAgentsFailed(st)
  BY <1>1 DEF AfterAgentInvoke
<1>3. node' = "chat_responder" => Completed(st) = {}
  <2>1. st.idx <= Len(st.plan)
    BY DEF TurnInv, PromptsCounted
  <2>2. QED
    BY <1>1, <1>2, <2>1, NothingCompletedIfAllFailed DEF OutcomesInv, CompletedStand
<1>4. CompletedStand'
  BY <1>1, <1>2 DEF OutcomesInv, CompletedStand, BeforeRoute
<1>5. AnsweredInstead'
  BY <1>1, <1>2, <1>3 DEF OutcomesInv, AnsweredInstead
<1>6. AgentsToCome' => AgentsToCome
  BY <1>1, <1>2 DEF AgentsToCome, BeforeRoute
<1>7. QED
  BY <1>1, <1>4, <1>5, <1>6 DEF OutcomesInv

\* As long as no plan names an agent twice, the outcome of every call that
\* completed in the turn is in the reply.  Without the premise it is not: when one
\* of two calls to an agent fails, after_agent_invoke takes the plan for lost and
\* the chat model answers.
THEOREM CompletedAreReported ==
  ASSUME DistinctPlans
  PROVE  Spec => []OutcomesReported
<1>1. Init => OutcomesInv
  BY InitOfOutcomes
<1>2. IInv /\ TurnInv /\ TurnInv' /\ OutcomesInv /\ [Next]_vars => OutcomesInv'
  <2> SUFFICES ASSUME IInv, TurnInv, TurnInv', OutcomesInv, [Next]_vars PROVE OutcomesInv'
    OBVIOUS
  <2>1. CASE \/ NewMessage
             \/ \E injected \in BOOLEAN : Guard(injected)
             \/ \E c \in Classifications, abandon \in BOOLEAN : Route(c, abandon)
    BY <2>1, BeginningsKeepOutcomes
  <2>2. CASE AskForSearch \/ \E broken \in SUBSET Tools : RunTools(broken)
    BY <2>2, ToolsKeepOutcomes
  <2>3. ASSUME NEW approved \in BOOLEAN, Decide(approved) PROVE OutcomesInv'
    BY <2>3, DecideKeepsOutcomes
  <2>4. ASSUME NEW status \in AgentStatus, Invoke(status) PROVE OutcomesInv'
    BY <2>4, InvokeKeepsOutcomes
  <2>5. CASE InvokeNobody
    BY <2>5, InvokeNobodyKeepsOutcomes
  <2>6. CASE Respond \/ OutputGuardrail \/ Aggregate
    BY <2>6, RepliesKeepOutcomes
  <2>7. CASE UNCHANGED vars
    BY <2>7, StutterKeepsOutcomes
  <2>8. QED
    BY <2>1, <2>2, <2>3, <2>4, <2>5, <2>6, <2>7 DEF Next, GraphStep
<1>3. IInv /\ OutcomesInv => OutcomesReported
  <2> SUFFICES ASSUME IInv, OutcomesInv, NEW i \in DOMAIN st.invs, node = "END",
                      st.invs[i].turn = st.turn, st.invs[i].status = "completed"
               PROVE  i \in reply
    BY DEF OutcomesReported
  <2>1. i \in Completed(st) /\ i \in ReplyParts(st)
    BY DEF Completed, TurnInvocations, ReplyParts
  <2>2. QED
    BY <2>1 DEF OutcomesInv, AnsweredInstead
<1>4. QED
  BY <1>1, <1>2, <1>3, Invariant, TurnInvariant, PTL DEF Spec
=============================================================================
