------------------------- MODULE ChatSessionProofs -------------------------
(***************************************************************************)
(* Safety of ChatSession for every set of agents, tools, plans, threads    *)
(* and requests and any bounds: whatever is cancelled, repeated, restarted *)
(* or forgotten, a confirmation is carried out at most once and only when  *)
(* it was approved; and while requests do not overlap, no confirmation is  *)
(* presented twice and a suspended thread stays as it is.  ChatTurnProofs  *)
(* is extended for its lemmas about the nodes of the graph.                *)
(***************************************************************************)
EXTENDS ChatSession, ChatTurnProofs

(***************************************************************************)
(* What a step of the graph makes of the state                             *)
(***************************************************************************)

\* The edges lead to nodes, and to human_approval exactly with a question.
LEMMA AfterAgentInvokeType ==
  ASSUME NEW s \in AgentState
  PROVE  /\ AfterAgentInvoke(s) \in Nodes
         /\ AfterAgentInvoke(s) = "human_approval" <=> s.approval # NULL
  BY DEF AfterAgentInvoke, Nodes

LEMMA AfterUtilityType ==
  ASSUME NEW s \in AgentState
  PROVE  /\ AfterUtility(s) \in Nodes
         /\ AfterUtility(s) = "human_approval" <=> s.approval # NULL
  BY DEF AfterUtility, Nodes

LEMMA RouteByIntentType ==
  ASSUME NEW s \in AgentState
  PROVE  RouteByIntent(s) \in Nodes \ {"human_approval"}
<1>1. s.intent \in Intents
  BY DEF AgentState
<1>2. CASE s.tools # {} \/ s.intent = "utility"
  BY <1>2 DEF RouteByIntent, Nodes
<1>3. CASE s.tools = {} /\ s.intent # "utility"
  BY <1>1, <1>3 DEF RouteByIntent, Nodes, Intents
<1>4. QED
  BY <1>2, <1>3

\* The router leaves the invocations, the question and the confirmed call alone.
LEMMA IntentRouterFields ==
  ASSUME NEW s \in AgentState, NEW c, NEW x
  PROVE  LET t == IntentRouter(s, c, x)
         IN /\ t.invs = s.invs /\ t.approval = s.approval
            /\ t.pendingConfirmation = s.pendingConfirmation
<1>1. \A d : /\ RouteTo(s, d).invs = s.invs /\ RouteTo(s, d).approval = s.approval
             /\ RouteTo(s, d).pendingConfirmation = s.pendingConfirmation
  BY DEF RouteTo, AgentState
<1>2. LET t == [RouteTo(s, JustChat) EXCEPT !.pendingInfo = NULL]
      IN /\ t.invs = s.invs /\ t.approval = s.approval
         /\ t.pendingConfirmation = s.pendingConfirmation
  BY <1>1 DEF RouteTo, AgentState
<1>3. QED
  BY <1>1, <1>2 DEF IntentRouter

\* A node that calls no agent leaves the confirmed call alone and asks only for
\* the web search.
LEMMA OutcomesType ==
  ASSUME NEW n \in Nodes, NEW s \in AgentState, s.approval = NULL, NEW o \in Outcomes(n, s)
  PROVE  /\ o[1] \in AgentState /\ o[2] \in Nodes
         /\ o[2] = "human_approval" <=> o[1].approval # NULL
         /\ o[1].approval # NULL => o[1].approval.who = WebSearch
         /\ o[1].pendingConfirmation = s.pendingConfirmation
<1> DEFINE Good(p) == /\ p[1] \in AgentState /\ p[2] \in Nodes
                      /\ p[2] = "human_approval" <=> p[1].approval # NULL
                      /\ p[1].approval # NULL => p[1].approval.who = WebSearch
                      /\ p[1].pendingConfirmation = s.pendingConfirmation
<1>1. CASE n = "input_guardrail"
  <2>1. PICK i \in BOOLEAN : o = <<InputGuardrail(s, i), "intent_router">>
    BY <1>1 DEF Outcomes
  <2>2. InputGuardrail(s, i) \in AgentState
    BY InputGuardrailType
  <2>3. /\ InputGuardrail(s, i).approval = NULL
        /\ InputGuardrail(s, i).pendingConfirmation = s.pendingConfirmation
    BY DEF InputGuardrail, AgentState
  <2>4. QED
    BY <2>1, <2>2, <2>3 DEF Nodes
<1>2. CASE n = "intent_router"
  <2>1. PICK c \in Classifications, x \in BOOLEAN :
          o = <<IntentRouter(s, c, x), RouteByIntent(IntentRouter(s, c, x))>>
    BY <1>2 DEF Outcomes
  <2> DEFINE t == IntentRouter(s, c, x)
  <2>2. t \in AgentState /\ t.approval = NULL /\ t.pendingConfirmation = s.pendingConfirmation
    BY IntentRouterType, IntentRouterFields
  <2> HIDE DEF t
  <2>3. RouteByIntent(t) \in Nodes /\ RouteByIntent(t) # "human_approval"
    BY <2>2, RouteByIntentType
  <2>4. o = <<t, RouteByIntent(t)>>
    BY <2>1 DEF t
  <2>5. QED
    BY <2>2, <2>3, <2>4
<1>3. CASE n = "agent_invoker"
  <2>1. o = <<s, AfterAgentInvoke(s)>>
    BY <1>3 DEF Outcomes
  <2>2. QED
    BY <2>1, AfterAgentInvokeType
<1>4. CASE n = "utility_tool_executor"
  <2>1. \/ o = <<AskSearch(s), AfterUtility(AskSearch(s))>>
        \/ \E b : o = <<UtilityExecutor(s, b), AfterUtility(UtilityExecutor(s, b))>>
    BY <1>4 DEF Outcomes
  <2>2. CASE o = <<AskSearch(s), AfterUtility(AskSearch(s))>>
    <3>1. AskSearch(s) \in AgentState
      BY AskSearchType
    <3>2. /\ AskSearch(s).approval = [who |-> WebSearch, cid |-> 0]
          /\ AskSearch(s).pendingConfirmation = s.pendingConfirmation
      BY DEF AskSearch, AgentState
    <3>3. QED
      BY <2>2, <3>1, <3>2, AfterUtilityType
  <2>3. ASSUME NEW b, o = <<UtilityExecutor(s, b), AfterUtility(UtilityExecutor(s, b))>>
        PROVE  Good(o)
    <3>1. /\ UtilityExecutor(s, b) \in AgentState
          /\ UtilityExecutor(s, b).approval = NULL
          /\ UtilityExecutor(s, b).pendingConfirmation = s.pendingConfirmation
      BY UtilityExecutorType, UtilityExecutorFields
    <3>2. QED
      BY <2>3, <3>1, AfterUtilityType
  <2>4. QED
    BY <2>1, <2>2, <2>3
<1>5. CASE n \in {"chat_responder", "response_aggregator"}
  <2>1. o[1] = Replied(s) /\ o[2] \in {"output_guardrail", "END"}
    BY <1>5 DEF Outcomes
  <2>2. Replied(s) \in AgentState
    BY RepliedType
  <2>3. Replied(s).approval = NULL /\ Replied(s).pendingConfirmation = s.pendingConfirmation
    BY DEF Replied, AgentState
  <2>4. QED
    BY <2>1, <2>2, <2>3 DEF Nodes
<1>6. CASE n = "output_guardrail"
  BY <1>6 DEF Outcomes, Nodes
<1>7. CASE n \in {"human_approval", "END"}
  BY <1>7 DEF Outcomes
<1>8. QED
  BY <1>1, <1>2, <1>3, <1>4, <1>5, <1>6, <1>7 DEF Nodes

\* human_approval takes the question away; a confirmation that was approved is
\* the call to come, another stays as it was.
LEMMA DecisionType ==
  ASSUME NEW s \in AgentState, NEW x \in BOOLEAN, s.approval # NULL,
         s.approval.who # WebSearch => s.invs # <<>>
  PROVE  LET t == HumanApproval(s, x)
         IN /\ t \in AgentState /\ t.approval = NULL
            /\ t.pendingConfirmation \in {s.pendingConfirmation,
                 IF x /\ s.approval.who # WebSearch
                 THEN [agent |-> s.approval.who, cid |-> s.approval.cid]
                 ELSE s.pendingConfirmation}
            /\ AfterHumanApproval(t) \in Nodes \ {"human_approval"}
<1> DEFINE t == HumanApproval(s, x)
<1>1. t \in AgentState
  BY HumanApprovalType
<1>2. AfterHumanApproval(t) \in Nodes \ {"human_approval"}
  BY DEF AfterHumanApproval, Nodes
<1>3. /\ t.approval = NULL
      /\ t.pendingConfirmation \in {s.pendingConfirmation,
           IF x /\ s.approval.who # WebSearch
           THEN [agent |-> s.approval.who, cid |-> s.approval.cid]
           ELSE s.pendingConfirmation}
  BY HumanApprovalFields
<1>4. QED
  BY <1>1, <1>2, <1>3

(***************************************************************************)
(* The invariant is inductive                                              *)
(***************************************************************************)

\* A request slot that is free.
LEMMA IdleType ==
  /\ Idle.pc = "idle" /\ Idle.st = BlankState /\ BlankState.pendingConfirmation = NULL
  /\ Idle \in RequestRecords
<1>1. BlankState.pendingConfirmation = NULL
  BY DEF BlankState
<1>2. QED
  BY <1>1, BlankStateType, ThreadsAssumption DEF Idle, RequestRecords, Pcs, Nodes

\* It holds initially.
LEMMA SessionInitEstablishes == SessionInit => SessionInv
<1> SUFFICES ASSUME SessionInit PROVE SessionInv
  OBVIOUS
<1>1. BlankState \in AgentState /\ BlankState.approval = NULL
      /\ BlankState.pendingConfirmation = NULL
  BY BlankStateType DEF BlankState
<1>2. setup.confirmations \in 0..MaxConfirmations
  BY SetupsAssumption DEF SessionInit
<1> HIDE DEF BlankState
<1>3. Types
  BY <1>1, <1>2, ThreadsAssumption DEF SessionInit, Types, RequestRecords, Idle, Nodes, Pcs
<1>4. Positions
  BY <1>1 DEF SessionInit, Positions, Placed, AtWork, Idle
<1>5. Ledger
  BY <1>1, <1>2, ConfirmationsAssumption DEF SessionInit, Ledger, Backed, Idle, Cids
<1>6. InTurn
  BY ThreadsAssumption DEF SessionInit, InTurn, AtWork, Idle
<1>7. QED
  BY <1>3, <1>4, <1>5, <1>6 DEF SessionInv

\* What every step may use about a request that is at work.
LEMMA WorkTypes ==
  ASSUME SessionInv, NEW r \in Requests
  PROVE  /\ req[r].st \in AgentState /\ req[r].thread \in Threads /\ req[r].node \in Nodes
         /\ req[r].pc \in Pcs
  BY DEF SessionInv, Types, RequestRecords

\* A step of the graph preserves the invariant if its new state is well placed,
\* approved, and, with requests in turn, unused.
LEMMA AdvancePreserves ==
  ASSUME SessionInv, NEW r \in Requests, AtWork(r), NEW s \in AgentState, NEW n \in Nodes,
         Advance(r, s, n), Placed(req[r].thread, n, s),
         decided \subseteq decided', Backed(s, decided'),
         ~setup.overlap => Unused(s),
         UNCHANGED <<setup, agents, messages>>
  PROVE  SessionInv'
<1> DEFINE t == req[r].thread
           ends == n \in {"END", "human_approval"}
           q1 == [req[r] EXCEPT !.st = s, !.node = n, !.pc = "running",
                                !.decision = NULL, !.answer = NULL]
<1>1. /\ t \in Threads /\ req[r].pc # "idle"
      /\ setup \in Setups /\ next \in [Threads -> Nodes \cup {"none"}]
      /\ saved \in [Threads -> AgentState]
  BY DEF SessionInv, Types, RequestRecords, AtWork
<1>2. /\ saved' = [saved EXCEPT ![t] = s] /\ next' = [next EXCEPT ![t] = n]
      /\ ends => req' = [req EXCEPT ![r] = Idle]
      /\ ~ends => req' = [req EXCEPT ![r] = q1]
  BY DEF Advance
<1>3. /\ q1.pc = "running" /\ q1.thread = t /\ q1.node = n /\ q1.st = s
      /\ q1.decision = NULL /\ q1.answer = NULL
      /\ q1 \in RequestRecords
  <2>1. req[r] \in RequestRecords
    BY DEF SessionInv, Types
  <2>2. QED
    BY <2>1 DEF RequestRecords, Pcs
<1>4. /\ Idle.pc = "idle" /\ Idle.st = BlankState /\ BlankState.pendingConfirmation = NULL
      /\ Idle \in RequestRecords
  BY IdleType
<1> HIDE DEF q1, t
<1> DEFINE v == IF ends THEN Idle ELSE q1
<1>5. /\ req' \in [Requests -> RequestRecords]
      /\ \A q \in Requests : req'[q] = IF q = r THEN v ELSE req[q]
  BY <1>2, <1>3, <1>4 DEF SessionInv, Types
<1>6. /\ \A u \in Threads : /\ next'[u] = IF u = t THEN n ELSE next[u]
                            /\ saved'[u] = IF u = t THEN s ELSE saved[u]
      /\ next' \in [Threads -> Nodes \cup {"none"}] /\ saved' \in [Threads -> AgentState]
  BY <1>1, <1>2
<1>7. /\ v.pc \in {"idle", "running"}
      /\ v.pc = "running" => ~ends /\ v.thread = t /\ v.node = n /\ v.st = s
      /\ v.st = s \/ v.st.pendingConfirmation = NULL
  BY <1>3, <1>4
<1> HIDE DEF v, ends
<1>8. Types'
  BY <1>5, <1>6 DEF SessionInv, Types, agents
<1>9. Placed(t, n, s)
  BY DEF t
<1>10. Positions'
  <2>1. \A u \in Threads : Placed(u, next'[u], saved'[u])
    BY <1>6, <1>9 DEF SessionInv, Positions
  <2>2. ASSUME NEW q \in Requests
        PROVE  /\ req'[q].pc \in {"sent", "accepted"} => req'[q].decision \in BOOLEAN
               /\ req'[q].pc \in {"running", "calling"} =>
                    /\ Placed(req'[q].thread, req'[q].node, req'[q].st)
                    /\ req'[q].node = "human_approval"
                         => req'[q].decision \in BOOLEAN /\ req'[q].thread = Base
               /\ req'[q].pc = "calling" =>
                    req'[q].node = "agent_invoker" /\ ~PlanDone(req'[q].st) /\ req'[q].answer # NULL
    <3>1. CASE q = r
      BY <3>1, <1>5, <1>7, <1>9 DEF ends
    <3>2. CASE q # r
      BY <3>2, <1>5 DEF SessionInv, Positions, AtWork
    <3>3. QED
      BY <3>1, <3>2
  <2>3. QED
    BY <2>1, <2>2 DEF Positions, Placed, AtWork
<1>11. Ledger'
  <2>1. \A u \in Threads : Backed(saved'[u], decided')
    BY <1>6 DEF SessionInv, Ledger, Backed
  <2>2. \A q \in Requests : Backed(req'[q].st, decided')
    BY <1>5, <1>7 DEF SessionInv, Ledger, Backed
  <2>3. QED
    BY <2>1, <2>2 DEF SessionInv, Ledger, agents, Backed
<1>12. InTurn'
  <2> SUFFICES ASSUME ~setup.overlap
               PROVE  InTurn'
    BY DEF InTurn
  <2>1. \A q \in Requests : q # r => req'[q] = req[q] /\ req[q].pc = "idle"
    BY <1>1, <1>5 DEF SessionInv, InTurn
  <2>2. \A p, q \in Requests : req'[p].pc # "idle" /\ req'[q].pc # "idle" => p = q
    BY <2>1
  <2>3. next'[Base] = "human_approval" => Unused(saved'[Base])
    BY <1>6, ThreadsAssumption DEF SessionInv, InTurn
  <2>4. ASSUME NEW q \in Requests
        PROVE  /\ req'[q].pc # "accepted" /\ req'[q].pc # "calling"
               /\ req'[q].pc = "running" =>
                    /\ next'[req'[q].thread] = req'[q].node
                    /\ saved'[req'[q].thread] = req'[q].st
                    /\ Unused(req'[q].st)
    <3>1. CASE q = r
      BY <3>1, <1>1, <1>5, <1>6, <1>7
    <3>2. CASE q # r
      BY <3>2, <2>1
    <3>3. QED
      BY <3>1, <3>2
  <2>5. UNCHANGED store
    BY DEF agents
  <2>6. QED
    BY <2>2, <2>3, <2>4, <2>5 DEF InTurn, Unused, Usable, AtWork
<1>13. QED
  BY <1>8, <1>10, <1>11, <1>12 DEF SessionInv

\* A step that only moves request r to v, between the check of a resume and the
\* graph, preserves the invariant.
LEMMA RequestPreserves ==
  ASSUME SessionInv, NEW r \in Requests, NEW v \in RequestRecords,
         req' = [req EXCEPT ![r] = v],
         v.pc # "calling", v.pc \in {"sent", "accepted"} => v.decision \in BOOLEAN,
         v.pc = "running" => /\ Placed(v.thread, v.node, v.st)
                             /\ v.node = "human_approval"
                                  => v.decision \in BOOLEAN /\ v.thread = Base,
         Backed(v.st, decided),
         ~setup.overlap =>
           /\ v.pc # "idle" => \A q \in Requests \ {r} : req[q].pc = "idle"
           /\ v.pc = "accepted" => next[Base] = "human_approval"
           /\ v.pc = "running" => /\ next[v.thread] = v.node /\ saved[v.thread] = v.st
                                  /\ Unused(v.st),
         UNCHANGED <<setup, next, saved, decided, agents>>, messages' \in Nat
  PROVE  SessionInv'
<1>1. /\ req' \in [Requests -> RequestRecords]
      /\ \A q \in Requests : req'[q] = IF q = r THEN v ELSE req[q]
  BY DEF SessionInv, Types
<1>2. UNCHANGED <<store, writes, handedOut>>
  BY DEF agents
<1>3. Types'
  BY <1>1, <1>2 DEF SessionInv, Types
<1>4. Positions'
  BY <1>1 DEF SessionInv, Positions, Placed, AtWork
<1>5. Ledger'
  BY <1>1, <1>2 DEF SessionInv, Ledger, Backed
<1>6. InTurn'
  BY <1>1, <1>2 DEF SessionInv, InTurn, AtWork, Unused, Usable
<1>7. QED
  BY <1>3, <1>4, <1>5, <1>6 DEF SessionInv

\* A request that ends, refused, cancelled or with nothing to resume.
LEMMA EndPreserves ==
  ASSUME SessionInv, NEW r \in Requests, req' = [req EXCEPT ![r] = Idle],
         UNCHANGED <<setup, next, saved, decided, agents, messages>>
  PROVE  SessionInv'
<1>1. Backed(Idle.st, decided)
  BY IdleType DEF Backed
<1>2. messages' \in Nat
  BY DEF SessionInv, Types
<1>3. QED
  BY <1>1, <1>2, IdleType, RequestPreserves

\* A click sends a decision.
LEMMA ClickPreserves ==
  ASSUME SessionInv, NEW r \in Requests, NEW x \in BOOLEAN, Click(r, x), UNCHANGED setup
  PROVE  SessionInv'
<1> DEFINE v == [Idle EXCEPT !.pc = "sent", !.decision = x]
<1>1. /\ v \in RequestRecords /\ v.pc = "sent" /\ v.decision = x /\ v.st = BlankState
  BY IdleType DEF RequestRecords, Pcs
<1>2. ~setup.overlap => \A q \in Requests : req[q].pc = "idle"
  BY IdleType DEF Click, CanStart
<1>3. /\ req' = [req EXCEPT ![r] = v] /\ messages' \in Nat
      /\ UNCHANGED <<setup, next, saved, decided, agents>>
  BY DEF Click, SessionInv, Types
<1> HIDE DEF v
<1>4. Backed(v.st, decided)
  BY <1>1, IdleType DEF Backed
<1>5. QED
  BY <1>1, <1>2, <1>3, <1>4, RequestPreserves

\* The check of chat_resume.
LEMMA AcceptPreserves ==
  ASSUME SessionInv, NEW r \in Requests, AcceptResume(r), UNCHANGED setup
  PROVE  SessionInv'
<1> DEFINE v == [req[r] EXCEPT !.pc = "accepted"]
<1>1. v \in RequestRecords /\ v.pc = "accepted" /\ v.decision = req[r].decision /\ v.st = req[r].st
  BY DEF SessionInv, Types, RequestRecords, Pcs
<1>2. /\ req' = [req EXCEPT ![r] = v] /\ messages' \in Nat
      /\ UNCHANGED <<setup, next, saved, decided, agents>>
  BY DEF AcceptResume, SessionInv, Types
<1>3. req[r].pc = "sent" /\ next[Base] = "human_approval"
  BY DEF AcceptResume
<1> HIDE DEF v
<1>4. v.decision \in BOOLEAN /\ Backed(v.st, decided)
  BY <1>1, <1>3 DEF SessionInv, Positions, Ledger
<1>5. ~setup.overlap => \A q \in Requests \ {r} : req[q].pc = "idle"
  BY <1>3 DEF SessionInv, InTurn
<1>6. QED
  BY <1>1, <1>2, <1>3, <1>4, <1>5, RequestPreserves

\* The body of the response loads the checkpoint as it is by then.
LEMMA StartPreserves ==
  ASSUME SessionInv, NEW r \in Requests, StartResume(r), UNCHANGED setup
  PROVE  SessionInv'
<1> DEFINE v == [req[r] EXCEPT !.pc = "running", !.thread = Base,
                               !.node = next[Base], !.st = saved[Base]]
<1>1. CASE Finished(Base)
  BY <1>1, EndPreserves DEF StartResume
<1>2. CASE ~Finished(Base)
  <2>1. /\ next[Base] \in Nodes /\ saved[Base] \in AgentState /\ Base \in Threads
    BY <1>2, ThreadsAssumption DEF Finished, SessionInv, Types
  <2>2. /\ v \in RequestRecords /\ v.pc = "running" /\ v.thread = Base /\ v.node = next[Base]
        /\ v.st = saved[Base] /\ v.decision = req[r].decision
    <3>1. req[r] \in RequestRecords
      BY DEF SessionInv, Types
    <3>2. QED
      BY <2>1, <3>1 DEF RequestRecords, Pcs
  <2>3. /\ req' = [req EXCEPT ![r] = v] /\ messages' \in Nat
        /\ UNCHANGED <<setup, next, saved, decided, agents>>
    BY <1>2 DEF StartResume, SessionInv, Types
  <2>4. req[r].pc = "accepted"
    BY DEF StartResume
  <2> HIDE DEF v
  <2>5. /\ v.decision \in BOOLEAN /\ Placed(v.thread, v.node, v.st) /\ Backed(v.st, decided)
    BY <2>1, <2>2, <2>4 DEF SessionInv, Positions, Ledger
  <2>6. ~setup.overlap => /\ \A q \in Requests \ {r} : req[q].pc = "idle"
                          /\ Unused(v.st)
    BY <2>2, <2>4 DEF SessionInv, InTurn
  <2>7. QED
    BY <2>2, <2>3, <2>5, <2>6, RequestPreserves
<1>3. QED
  BY <1>1, <1>2

\* A node that calls no agent.
LEMMA RunNodePreserves ==
  ASSUME SessionInv, NEW r \in Requests, RunNode(r), UNCHANGED setup
  PROVE  SessionInv'
<1> DEFINE s == req[r].st
           n == req[r].node
<1>1. PICK o \in Outcomes(n, s) : Advance(r, o[1], o[2])
  BY DEF RunNode
<1>2. req[r].pc = "running" /\ UNCHANGED <<setup, decided, agents, messages>>
  BY DEF RunNode
<1>3. s \in AgentState /\ n \in Nodes /\ Placed(req[r].thread, n, s) /\ Backed(s, decided)
      /\ AtWork(r)
  BY <1>2, WorkTypes DEF SessionInv, Positions, Ledger, AtWork
<1>4. ~setup.overlap => Unused(s)
  BY <1>2 DEF SessionInv, InTurn
<1> HIDE DEF s, n
<1>5. s.approval = NULL
  <2>1. n # "human_approval"
    BY <1>1 DEF Outcomes
  <2>2. QED
    BY <2>1, <1>3 DEF Placed
<1>6. /\ o[1] \in AgentState /\ o[2] \in Nodes
      /\ o[2] = "human_approval" <=> o[1].approval # NULL
      /\ o[1].approval # NULL => o[1].approval.who = WebSearch
      /\ o[1].pendingConfirmation = s.pendingConfirmation
  BY <1>3, <1>5, OutcomesType
<1>7. Placed(req[r].thread, o[2], o[1]) /\ Backed(o[1], decided)
  BY <1>3, <1>6 DEF Placed, Backed
<1>8. ~setup.overlap => Unused(o[1])
  BY <1>4, <1>6 DEF Unused
<1>9. QED
  BY <1>1, <1>2, <1>3, <1>6, <1>7, <1>8, AdvancePreserves

\* The decision of a resume.
LEMMA TakeDecisionPreserves ==
  ASSUME SessionInv, NEW r \in Requests, TakeDecision(r), UNCHANGED setup
  PROVE  SessionInv'
<1> DEFINE s == req[r].st
           x == req[r].decision
           t == HumanApproval(s, x)
           n == AfterHumanApproval(t)
<1>1. /\ req[r].pc = "running" /\ req[r].node = "human_approval" /\ Advance(r, t, n)
      /\ decided' = decided \cup {[prompt |-> s.approval, approved |-> x]}
      /\ UNCHANGED <<setup, agents, messages>>
  BY DEF TakeDecision
<1>2. s \in AgentState /\ Placed(req[r].thread, "human_approval", s) /\ x \in BOOLEAN
      /\ Backed(s, decided) /\ AtWork(r)
  BY <1>1, WorkTypes DEF SessionInv, Positions, Ledger, AtWork
<1>3. req[r].thread = Base
  BY <1>1 DEF SessionInv, Positions, AtWork
<1>4. ~setup.overlap => Unused(s)
  BY <1>1 DEF SessionInv, InTurn
<1> HIDE DEF s, x
<1>5. s.approval # NULL /\ (s.approval.who # WebSearch => s.invs # <<>>)
  BY <1>2 DEF Placed
<1>6. /\ t \in AgentState /\ t.approval = NULL
      /\ t.pendingConfirmation \in {s.pendingConfirmation,
           IF x /\ s.approval.who # WebSearch
           THEN [agent |-> s.approval.who, cid |-> s.approval.cid]
           ELSE s.pendingConfirmation}
      /\ n \in Nodes \ {"human_approval"}
  BY <1>2, <1>5, DecisionType
<1> HIDE DEF t, n
<1>7. Placed(req[r].thread, n, t)
  BY <1>3, <1>6 DEF Placed
<1>8. Backed(t, decided')
  <2>1. CASE t.pendingConfirmation = s.pendingConfirmation
    BY <2>1, <1>1, <1>2 DEF Backed
  <2>2. CASE t.pendingConfirmation # s.pendingConfirmation
    <3> DEFINE d == [prompt |-> s.approval, approved |-> x]
    <3>1. x /\ t.pendingConfirmation.cid = s.approval.cid
      BY <2>2, <1>6
    <3>2. d \in decided' /\ d.approved = x /\ d.prompt = s.approval
      BY <1>1
    <3> HIDE DEF d
    <3>3. QED
      BY <3>1, <3>2 DEF Backed
  <2>3. QED
    BY <2>1, <2>2
<1>9. ~setup.overlap => Unused(t)
  BY <1>4, <1>5, <1>6 DEF Unused
<1>10. QED
  BY <1>1, <1>2, <1>6, <1>7, <1>8, <1>9, AdvancePreserves

\* What agent_invoker makes of the answer: it carries no confirmed call any
\* longer, and it asks with the confirmation of the answer or not at all.
LEMMA AnswerType ==
  ASSUME NEW s \in AgentState, ~PlanDone(s), s.approval = NULL,
         NEW status \in AgentStatus, NEW cid \in Nat
  PROVE  LET t == AgentInvoker(s, status, cid)
         IN /\ t \in AgentState /\ t.pendingConfirmation = NULL
            /\ t.approval # NULL =>
                 status = "needs_confirmation" /\ t.approval.cid = cid /\ t.invs # <<>>
<1> DEFINE t == AgentInvoker(s, status, cid)
<1>1. t \in AgentState
  BY AgentInvokerType
<1> DEFINE asks == status = "needs_confirmation" /\ ~IsConfirmationCall(s)
<1>2. /\ t.pendingConfirmation = NULL
      /\ asks => /\ t.approval = [who |-> CurrentAgent(s), cid |-> cid]
                 /\ t.invs # <<>>
      /\ ~asks => t.approval = s.approval
  BY AgentInvokerFields
<1>3. asks => status = "needs_confirmation"
  OBVIOUS
<1> HIDE DEF t, asks
<1>4. t.approval # NULL =>
        status = "needs_confirmation" /\ t.approval.cid = cid /\ t.invs # <<>>
  BY <1>2, <1>3
<1>5. QED
  BY <1>1, <1>2, <1>4 DEF t

\* The answer of an agent arrives.
LEMMA AgentAnswersPreserves ==
  ASSUME SessionInv, NEW r \in Requests, AgentAnswers(r), UNCHANGED setup
  PROVE  SessionInv'
<1> DEFINE s == req[r].st
           a == req[r].answer
           t == AgentInvoker(s, a.status, a.cid)
           n == AfterAgentInvoke(t)
<1>1. /\ req[r].pc = "calling" /\ Advance(r, t, n)
      /\ UNCHANGED <<setup, decided, agents, messages>>
  BY DEF AgentAnswers
<1>2. /\ s \in AgentState /\ ~PlanDone(s) /\ AtWork(r)
      /\ Placed(req[r].thread, "agent_invoker", s)
  BY <1>1, WorkTypes DEF SessionInv, Positions, AtWork
<1>3. a.status \in AgentStatus /\ a.cid \in Nat
  BY <1>1 DEF SessionInv, Types, RequestRecords, Positions
<1>4. ~setup.overlap => (a.status = "needs_confirmation" => Usable(a.cid))
  BY <1>1 DEF SessionInv, InTurn
<1> HIDE DEF s, a
<1>5. s.approval = NULL
  BY <1>2 DEF Placed
<1>6. /\ t \in AgentState /\ t.pendingConfirmation = NULL
      /\ t.approval # NULL =>
           a.status = "needs_confirmation" /\ t.approval.cid = a.cid /\ t.invs # <<>>
  BY <1>2, <1>3, <1>5, AnswerType
<1> HIDE DEF t
<1>7. n \in Nodes /\ (n = "human_approval" <=> t.approval # NULL)
  BY <1>6, AfterAgentInvokeType
<1> HIDE DEF n
<1>8. Placed(req[r].thread, n, t) /\ Backed(t, decided')
  BY <1>6, <1>7 DEF Placed, Backed
<1>9. ~setup.overlap => Unused(t)
  BY <1>4, <1>6 DEF Unused
<1>10. QED
  BY <1>1, <1>2, <1>6, <1>7, <1>8, <1>9, AdvancePreserves

\* A call that an agent has carried out but not yet answered: the stores have
\* changed, the request waits.  The caller says what the stores still satisfy.
LEMMA CallPreserves ==
  ASSUME SessionInv, NEW r \in Requests, AtAgent(r),
         NEW status \in AgentStatus, NEW cid \in Nat,
         req' = [req EXCEPT ![r].pc = "calling",
                            ![r].answer = [status |-> status, cid |-> cid]],
         UNCHANGED <<setup, next, saved, decided, messages>>,
         store' \in [Cids -> {"none", "pending", "consumed"}],
         writes' \in [Cids -> Nat], handedOut' \in 0..setup.confirmations,
         \A c \in Cids :
           /\ writes'[c] = IF store'[c] = "consumed" THEN 1 ELSE 0
           /\ c > handedOut' => store'[c] = "none"
           /\ writes'[c] > 0 => \E d \in decided : d.approved /\ d.prompt.cid = c,
         ~setup.overlap => /\ next[Base] = "human_approval" => Unused(saved[Base])'
                           /\ status = "needs_confirmation"
                                => cid \in Cids /\ store'[cid] # "consumed"
  PROVE  SessionInv'
<1> DEFINE a == [status |-> status, cid |-> cid]
           v == [req[r] EXCEPT !.pc = "calling", !.answer = a]
<1>1. /\ req[r].pc = "running" /\ req[r].node = "agent_invoker" /\ ~PlanDone(req[r].st)
      /\ AtWork(r)
  BY DEF AtAgent, AtWork
<1>2. a \in [status: AgentStatus, cid: Nat] /\ a.status = status /\ a.cid = cid
  OBVIOUS
<1>3. a # NULL
  BY <1>2, RequestsAssumption
<1> HIDE DEF a
<1>4. /\ v \in RequestRecords /\ v.pc = "calling" /\ v.node = "agent_invoker"
      /\ v.thread = req[r].thread /\ v.st = req[r].st /\ v.answer = a
  <2>1. req[r] \in RequestRecords
    BY DEF SessionInv, Types
  <2>2. QED
    BY ONLY <2>1, <1>1, <1>2 DEF RequestRecords, Pcs
<1>5. req' = [req EXCEPT ![r] = v]
  BY <1>2 DEF a, SessionInv, Types
<1> HIDE DEF v
<1>6. /\ req' \in [Requests -> RequestRecords]
      /\ \A q \in Requests : req'[q] = IF q = r THEN v ELSE req[q]
  <2>1. req \in [Requests -> RequestRecords]
    BY DEF SessionInv, Types
  <2>2. QED
    BY ONLY <2>1, <1>4, <1>5, r \in Requests
<1>7. Types'
  BY <1>6 DEF SessionInv, Types
<1>8. Positions'
  <2>1. \A u \in Threads : Placed(u, next'[u], saved'[u])
    BY DEF SessionInv, Positions
  <2>2. Placed(req[r].thread, "agent_invoker", req[r].st)
    BY <1>1 DEF SessionInv, Positions
  <2>3. ASSUME NEW q \in Requests
        PROVE  /\ req'[q].pc \in {"sent", "accepted"} => req'[q].decision \in BOOLEAN
               /\ req'[q].pc \in {"running", "calling"} =>
                    /\ Placed(req'[q].thread, req'[q].node, req'[q].st)
                    /\ req'[q].node = "human_approval"
                         => req'[q].decision \in BOOLEAN /\ req'[q].thread = Base
               /\ req'[q].pc = "calling" =>
                    req'[q].node = "agent_invoker" /\ ~PlanDone(req'[q].st) /\ req'[q].answer # NULL
    <3>1. CASE q = r
      <4>1. req'[q] = v
        BY <3>1, <1>6
      <4>2. Placed(v.thread, v.node, v.st) /\ ~PlanDone(v.st) /\ v.answer # NULL
        BY <2>2, <1>1, <1>3, <1>4
      <4>3. v.pc = "calling" /\ v.node = "agent_invoker"
        BY <1>4
      <4>4. QED
        BY ONLY <4>1, <4>2, <4>3
    <3>2. CASE q # r
      BY <3>2, <1>6 DEF SessionInv, Positions, AtWork
    <3>3. QED
      BY <3>1, <3>2
  <2>4. QED
    BY <2>1, <2>3 DEF Positions, Placed, AtWork
<1>9. Ledger'
  BY <1>4, <1>6 DEF SessionInv, Ledger, Backed
<1>10. InTurn'
  <2> SUFFICES ASSUME ~setup.overlap
               PROVE  InTurn'
    BY DEF InTurn
  <2>1. /\ next[req[r].thread] = req[r].node /\ saved[req[r].thread] = req[r].st
        /\ \A q \in Requests : q # r => req[q].pc = "idle"
    BY <1>1 DEF SessionInv, InTurn
  <2>2. \A p, q \in Requests : req'[p].pc # "idle" /\ req'[q].pc # "idle" => p = q
    BY <2>1, <1>6
  <2>3. next'[Base] = "human_approval" => Unused(saved[Base])'
    OBVIOUS
  <2>4. ASSUME NEW q \in Requests
        PROVE  /\ req'[q].pc # "accepted" /\ req'[q].pc # "running"
               /\ AtWork(q)' => /\ next'[req'[q].thread] = req'[q].node
                                /\ saved'[req'[q].thread] = req'[q].st
               /\ req'[q].pc = "calling" /\ req'[q].answer.status = "needs_confirmation"
                    => Usable(req[q].answer.cid)'
    <3>1. CASE q = r
      BY <3>1, <2>1, <1>2, <1>4, <1>6 DEF Usable
    <3>2. CASE q # r
      BY <3>2, <2>1, <1>6 DEF AtWork
    <3>3. QED
      BY <3>1, <3>2
  <2>5. QED
    BY <2>2, <2>3, <2>4 DEF InTurn
<1>11. QED
  BY <1>7, <1>8, <1>9, <1>10 DEF SessionInv

\* A first call: a confirmation that was never used.
LEMMA FirstCallPreserves ==
  ASSUME SessionInv, NEW r \in Requests, NEW status \in AgentStatus, FirstCall(r, status),
         UNCHANGED setup
  PROVE  SessionInv'
<1> DEFINE asks == status = "needs_confirmation"
<1>1. /\ AtAgent(r) /\ UNCHANGED <<setup, next, saved, decided, writes, messages>>
      /\ asks => handedOut < setup.confirmations /\ handedOut' = handedOut + 1
                 /\ store' = [store EXCEPT ![handedOut + 1] = "pending"]
      /\ ~asks => UNCHANGED <<handedOut, store>>
      /\ req' = [req EXCEPT ![r].pc = "calling",
                            ![r].answer = [status |-> status, cid |-> handedOut + 1]]
  BY DEF FirstCall
<1>2. /\ setup.confirmations \in 0..MaxConfirmations /\ handedOut \in 0..setup.confirmations
      /\ store \in [Cids -> {"none", "pending", "consumed"}] /\ writes \in [Cids -> Nat]
  BY SetupsAssumption DEF SessionInv, Types
<1>3. asks => handedOut + 1 \in Cids
  BY <1>1, <1>2, ConfirmationsAssumption DEF Cids
<1>4. /\ store' \in [Cids -> {"none", "pending", "consumed"}] /\ writes' \in [Cids -> Nat]
      /\ handedOut' \in 0..setup.confirmations /\ handedOut + 1 \in Nat
      /\ \A c \in Cids : store'[c] = IF asks /\ c = handedOut + 1 THEN "pending" ELSE store[c]
  BY <1>1, <1>2, <1>3, ConfirmationsAssumption
<1> HIDE DEF asks
<1>5. \A c \in Cids :
        /\ writes'[c] = IF store'[c] = "consumed" THEN 1 ELSE 0
        /\ c > handedOut' => store'[c] = "none"
        /\ writes'[c] > 0 => \E d \in decided : d.approved /\ d.prompt.cid = c
  <2> SUFFICES ASSUME NEW c \in Cids
               PROVE  /\ writes[c] = IF store'[c] = "consumed" THEN 1 ELSE 0
                      /\ c > handedOut' => store'[c] = "none"
                      /\ writes[c] > 0 => \E d \in decided : d.approved /\ d.prompt.cid = c
    BY <1>1
  <2>1. /\ writes[c] = IF store[c] = "consumed" THEN 1 ELSE 0
        /\ c > handedOut => store[c] = "none"
        /\ writes[c] > 0 => \E d \in decided : d.approved /\ d.prompt.cid = c
    BY DEF SessionInv, Ledger
  <2>2. CASE asks /\ c = handedOut + 1
    BY <2>1, <2>2, <1>1, <1>2, <1>4, ConfirmationsAssumption DEF Cids
  <2>3. CASE ~(asks /\ c = handedOut + 1)
    BY <2>1, <2>3, <1>1, <1>2, <1>4, ConfirmationsAssumption DEF Cids
  <2>4. QED
    BY <2>2, <2>3
<1>6. \A c : Usable(c) => Usable(c)'
  BY <1>4 DEF Usable
<1>7. ~setup.overlap => /\ next[Base] = "human_approval" => Unused(saved[Base])'
                        /\ asks => handedOut + 1 \in Cids /\ store'[handedOut + 1] # "consumed"
  BY <1>1, <1>3, <1>4, <1>6 DEF SessionInv, InTurn, Unused, Usable
<1>8. QED
  BY <1>1, <1>4, <1>5, <1>7, CallPreserves DEF asks

\* A confirmed call: consumed and written in one step, and approved before.
LEMMA ConfirmedCallPreserves ==
  ASSUME SessionInv, NEW r \in Requests, NEW status \in AgentStatus, ConfirmedCall(r, status),
         UNCHANGED setup
  PROVE  SessionInv'
<1> DEFINE k == req[r].st.pendingConfirmation.cid
           due == store[k] = "pending"
<1>1. /\ AtAgent(r) /\ UNCHANGED <<setup, next, saved, decided, handedOut, messages>>
      /\ status # "needs_confirmation"
      /\ req[r].st.pendingConfirmation # NULL
      /\ due => /\ store' = [store EXCEPT ![k] = "consumed"]
                /\ writes' = [writes EXCEPT ![k] = @ + 1]
      /\ ~due => UNCHANGED <<store, writes>>
      /\ req' = [req EXCEPT ![r].pc = "calling",
                            ![r].answer = [status |-> status, cid |-> 0]]
  BY DEF ConfirmedCall, IsConfirmationCall
<1>2. AtWork(r) /\ req[r].node = "agent_invoker" /\ req[r].pc = "running"
  BY <1>1 DEF AtAgent, AtWork
<1>3. \E d \in decided : d.approved /\ d.prompt.cid = k
  BY <1>1 DEF SessionInv, Ledger, Backed
<1>4. req[r].thread = Base
  BY <1>1, <1>2 DEF SessionInv, Positions, Placed
<1> HIDE DEF k
<1>5. /\ store \in [Cids -> {"none", "pending", "consumed"}] /\ writes \in [Cids -> Nat]
      /\ handedOut \in 0..setup.confirmations
  BY DEF SessionInv, Types
<1>6. /\ store' \in [Cids -> {"none", "pending", "consumed"}] /\ writes' \in [Cids -> Nat]
      /\ \A c \in Cids : /\ store'[c] = IF due /\ c = k THEN "consumed" ELSE store[c]
                         /\ writes'[c] = IF due /\ c = k THEN writes[c] + 1 ELSE writes[c]
  BY <1>1, <1>5
<1> HIDE DEF due
<1>7. \A c \in Cids :
        /\ writes'[c] = IF store'[c] = "consumed" THEN 1 ELSE 0
        /\ c > handedOut' => store'[c] = "none"
        /\ writes'[c] > 0 => \E d \in decided : d.approved /\ d.prompt.cid = c
  <2> SUFFICES ASSUME NEW c \in Cids
               PROVE  /\ writes'[c] = IF store'[c] = "consumed" THEN 1 ELSE 0
                      /\ c > handedOut => store'[c] = "none"
                      /\ writes'[c] > 0 => \E d \in decided : d.approved /\ d.prompt.cid = c
    BY <1>1
  <2>1. /\ writes[c] = IF store[c] = "consumed" THEN 1 ELSE 0
        /\ c > handedOut => store[c] = "none"
        /\ writes[c] > 0 => \E d \in decided : d.approved /\ d.prompt.cid = c
    BY DEF SessionInv, Ledger
  <2>2. CASE due /\ c = k
    BY <2>1, <2>2, <1>3, <1>6 DEF due
  <2>3. CASE ~(due /\ c = k)
    BY <2>1, <2>3, <1>6
  <2>4. QED
    BY <2>2, <2>3
<1>8. ~setup.overlap => next[Base] # "human_approval"
  BY <1>2, <1>4 DEF SessionInv, InTurn
<1>9. ~setup.overlap => /\ next[Base] = "human_approval" => Unused(saved[Base])'
                        /\ status = "needs_confirmation" => 0 \in Cids /\ store'[0] # "consumed"
  BY <1>1, <1>8
<1>10. /\ handedOut' \in 0..setup.confirmations
       /\ UNCHANGED <<setup, next, saved, decided, messages>>
       /\ AtAgent(r)
       /\ req' = [req EXCEPT ![r].pc = "calling",
                             ![r].answer = [status |-> status, cid |-> 0]]
  BY <1>1, <1>5
<1>11. 0 \in Nat
  OBVIOUS
<1>12. QED
  BY <1>6, <1>7, <1>9, <1>10, <1>11, CallPreserves

\* A message starts a run on a thread with no question and no confirmed call.
LEMMA SendPreserves ==
  ASSUME SessionInv, NEW r \in Requests, NEW t \in Threads, SendMessage(r, t), UNCHANGED setup
  PROVE  SessionInv'
<1> DEFINE s == InitialState(saved[t], messages + 1)
           v == [Idle EXCEPT !.pc = "running", !.thread = t, !.node = "input_guardrail",
                             !.st = s]
<1>1. /\ CanStart(r) /\ messages' = messages + 1
      /\ saved' = [saved EXCEPT ![t] = s] /\ next' = [next EXCEPT ![t] = "input_guardrail"]
      /\ req' = [req EXCEPT ![r] = v]
      /\ UNCHANGED <<setup, decided, agents>>
  BY DEF SendMessage
<1>2. /\ messages \in Nat /\ saved \in [Threads -> AgentState]
      /\ next \in [Threads -> Nodes \cup {"none"}] /\ req \in [Requests -> RequestRecords]
  BY DEF SessionInv, Types
<1>3. s \in AgentState
  BY <1>2, InitialStateType
<1>4. s.approval = NULL /\ s.pendingConfirmation = NULL
  BY DEF InitialState, BlankState
<1> HIDE DEF s
<1>5. /\ v \in RequestRecords /\ v.pc = "running" /\ v.thread = t
      /\ v.node = "input_guardrail" /\ v.st = s
  BY <1>3, IdleType DEF RequestRecords, Pcs, Nodes
<1> HIDE DEF v
<1>6. /\ req' \in [Requests -> RequestRecords]
      /\ \A q \in Requests : req'[q] = IF q = r THEN v ELSE req[q]
  BY <1>1, <1>2, <1>5
<1>7. /\ \A u \in Threads : /\ next'[u] = IF u = t THEN "input_guardrail" ELSE next[u]
                            /\ saved'[u] = IF u = t THEN s ELSE saved[u]
      /\ next' \in [Threads -> Nodes \cup {"none"}] /\ saved' \in [Threads -> AgentState]
  BY <1>1, <1>2, <1>3 DEF Nodes
<1>8. Types'
  BY <1>1, <1>2, <1>6, <1>7 DEF SessionInv, Types, agents
<1>9. Positions'
  <2>1. \A u \in Threads : Placed(u, next'[u], saved'[u])
    BY <1>4, <1>7 DEF SessionInv, Positions, Placed
  <2>2. ASSUME NEW q \in Requests
        PROVE  /\ req'[q].pc \in {"sent", "accepted"} => req'[q].decision \in BOOLEAN
               /\ req'[q].pc \in {"running", "calling"} =>
                    /\ Placed(req'[q].thread, req'[q].node, req'[q].st)
                    /\ req'[q].node = "human_approval"
                         => req'[q].decision \in BOOLEAN /\ req'[q].thread = Base
               /\ req'[q].pc = "calling" =>
                    req'[q].node = "agent_invoker" /\ ~PlanDone(req'[q].st) /\ req'[q].answer # NULL
    <3>1. CASE q = r
      BY <3>1, <1>4, <1>5, <1>6 DEF Placed
    <3>2. CASE q # r
      BY <3>2, <1>6 DEF SessionInv, Positions, AtWork
    <3>3. QED
      BY <3>1, <3>2
  <2>3. QED
    BY <2>1, <2>2 DEF Positions, Placed, AtWork
<1>10. Ledger'
  <2>1. \A u \in Threads : Backed(saved'[u], decided)
    BY <1>4, <1>7 DEF SessionInv, Ledger, Backed
  <2>2. \A q \in Requests : Backed(req'[q].st, decided)
    BY <1>4, <1>5, <1>6 DEF SessionInv, Ledger, Backed
  <2>3. QED
    BY <2>1, <2>2, <1>1 DEF SessionInv, Ledger, agents, Backed
<1>11. InTurn'
  <2> SUFFICES ASSUME ~setup.overlap
               PROVE  InTurn'
    BY <1>1 DEF InTurn
  <2>1. \A q \in Requests : q # r => req'[q].pc = "idle"
    BY <1>1, <1>6, IdleType DEF CanStart
  <2>2. next'[Base] = "human_approval" => Unused(saved'[Base])
    BY <1>7, ThreadsAssumption DEF SessionInv, InTurn
  <2>3. /\ next'[req'[r].thread] = req'[r].node /\ saved'[req'[r].thread] = req'[r].st
        /\ req'[r].pc = "running" /\ Unused(req'[r].st)
    BY <1>4, <1>5, <1>6, <1>7 DEF Unused
  <2>4. UNCHANGED store
    BY <1>1 DEF agents
  <2>5. QED
    BY <2>1, <2>2, <2>3, <2>4 DEF InTurn, Unused, Usable, AtWork
<1>12. QED
  BY <1>8, <1>9, <1>10, <1>11 DEF SessionInv

\* A confirmation is forgotten.
LEMMA ExpirePreserves ==
  ASSUME SessionInv, NEW k \in Cids, Expire(k), UNCHANGED setup
  PROVE  SessionInv'
<1>1. /\ UNCHANGED <<setup, next, saved, req, decided, writes, handedOut, messages>>
      /\ store[k] = "pending" /\ store' = [store EXCEPT ![k] = "none"]
  BY DEF Expire
<1>2. store \in [Cids -> {"none", "pending", "consumed"}]
  BY DEF SessionInv, Types
<1>3. /\ store' \in [Cids -> {"none", "pending", "consumed"}]
      /\ \A c \in Cids : store'[c] = IF c = k THEN "none" ELSE store[c]
  BY <1>1, <1>2
<1>4. Types'
  BY <1>1, <1>3 DEF SessionInv, Types
<1>5. Positions'
  BY <1>1 DEF SessionInv, Positions, AtWork
<1>6. Ledger'
  BY <1>1, <1>3 DEF SessionInv, Ledger
<1>7. \A c : Usable(c) => Usable(c)'
  BY <1>1, <1>3 DEF Usable
<1>8. InTurn'
  BY <1>1, <1>7 DEF SessionInv, InTurn, Unused, AtWork
<1>9. QED
  BY <1>4, <1>5, <1>6, <1>8 DEF SessionInv

\* The service restarts: nothing is left to carry out.
LEMMA RestartPreserves ==
  ASSUME SessionInv, Restart, UNCHANGED setup
  PROVE  SessionInv'
<1>1. BlankState \in AgentState /\ BlankState.approval = NULL
      /\ BlankState.pendingConfirmation = NULL
  BY BlankStateType DEF BlankState
<1> HIDE DEF BlankState
<1>2. /\ next' = [t \in Threads |-> "none"] /\ saved' = [t \in Threads |-> BlankState]
      /\ req' = [r \in Requests |-> Idle]
      /\ UNCHANGED <<setup, decided, store, writes, handedOut, messages>>
  BY DEF Restart, agents
<1>3. Types'
  BY <1>1, <1>2, IdleType DEF SessionInv, Types
<1>4. Positions'
  BY <1>1, <1>2, IdleType DEF Positions, Placed, AtWork
<1>5. Ledger'
  BY <1>1, <1>2, IdleType DEF SessionInv, Ledger, Backed
<1>6. InTurn'
  BY <1>2, IdleType, ThreadsAssumption DEF InTurn, AtWork
<1>7. QED
  BY <1>3, <1>4, <1>5, <1>6 DEF SessionInv

\* A step that leaves everything the invariant is about as it is.
LEMMA SessionStutterPreserves ==
  ASSUME SessionInv, UNCHANGED <<setup, next, saved, req, decided, agents, messages>>
  PROVE  SessionInv'
<1>1. UNCHANGED <<store, writes, handedOut>>
  BY DEF agents
<1>2. Types' /\ Positions'
  BY <1>1 DEF SessionInv, Types, Positions, Placed, AtWork
<1>3. Ledger'
  BY <1>1 DEF SessionInv, Ledger, Backed
<1>4. InTurn'
  BY <1>1 DEF SessionInv, InTurn, Unused, Usable, AtWork
<1>5. QED
  BY <1>2, <1>3, <1>4 DEF SessionInv

\* Every step preserves it.
LEMMA NextPreserves == SessionInv /\ [SessionNext]_sessionVars => SessionInv'
<1> SUFFICES ASSUME SessionInv, [SessionNext]_sessionVars
             PROVE  SessionInv'
  OBVIOUS
<1>1. CASE UNCHANGED sessionVars
  BY <1>1, SessionStutterPreserves DEF sessionVars
<1>2. ASSUME SessionNext
      PROVE  SessionInv'
  <2> USE <1>2
  <2>1. UNCHANGED setup
    BY DEF SessionNext
  <2>2. ASSUME NEW r \in Requests, NEW t \in Threads, SendMessage(r, t)
        PROVE  SessionInv'
    BY <2>1, <2>2, SendPreserves
  <2>3. ASSUME NEW r \in Requests, NEW x \in BOOLEAN, Click(r, x)
        PROVE  SessionInv'
    BY <2>1, <2>3, ClickPreserves
  <2>4. CASE CloseStream \/ Reload
    BY <2>1, <2>4, SessionStutterPreserves DEF CloseStream, Reload
  <2>5. ASSUME NEW r \in Requests, ServiceStep(r)
        PROVE  SessionInv'
    <3>1. CASE AcceptResume(r)
      BY <3>1, <2>1, AcceptPreserves
    <3>2. CASE RefuseResume(r)
      BY <3>2, <2>1, EndPreserves DEF RefuseResume
    <3>3. CASE StartResume(r)
      BY <3>3, <2>1, StartPreserves
    <3>4. CASE TakeDecision(r)
      BY <3>4, <2>1, TakeDecisionPreserves
    <3>5. CASE RunNode(r)
      BY <3>5, <2>1, RunNodePreserves
    <3>6. CASE AgentAnswers(r)
      BY <3>6, <2>1, AgentAnswersPreserves
    <3>7. ASSUME NEW status \in AgentStatus, FirstCall(r, status) \/ ConfirmedCall(r, status)
          PROVE  SessionInv'
      BY <3>7, <2>1, FirstCallPreserves, ConfirmedCallPreserves
    <3>8. QED
      BY <2>5, <3>1, <3>2, <3>3, <3>4, <3>5, <3>6, <3>7 DEF ServiceStep
  <2>6. ASSUME NEW r \in Requests, Cancel(r)
        PROVE  SessionInv'
    BY <2>1, <2>6, EndPreserves DEF Cancel
  <2>7. ASSUME NEW c \in Cids, Expire(c)
        PROVE  SessionInv'
    BY <2>1, <2>7, ExpirePreserves
  <2>8. CASE Restart
    BY <2>1, <2>8, RestartPreserves
  <2>9. QED
    BY <2>2, <2>3, <2>4, <2>5, <2>6, <2>7, <2>8 DEF SessionNext
<1>3. QED
  BY <1>1, <1>2

\* So it always holds.
THEOREM SessionInvariant == SessionSpec => []SessionInv
<1>1. QED
  BY SessionInitEstablishes, NextPreserves, PTL DEF SessionSpec

(***************************************************************************)
(* What it implies                                                         *)
(***************************************************************************)

\* The write of a confirmation is made at most once, and only after a resume
\* approved that confirmation: the agents consume it before they write.
THEOREM WrittenAtMostOnce == SessionSpec => []WrittenOnce
<1>1. SessionInv => WrittenOnce
  BY DEF SessionInv, Ledger, WrittenOnce
<1>2. QED
  BY <1>1, SessionInvariant, PTL

\* While requests do not overlap, a confirmed call never presents a
\* confirmation the agent has consumed: the checkpoint a resume starts from is
\* the one the last request left, and what that has to carry out is unused.
THEOREM NothingReplayed == SessionSpec => []NeverReplayed
<1>1. SessionInv => NeverReplayed
  <2> SUFFICES ASSUME SessionInv, ~setup.overlap, NEW r \in Requests,
                      AtAgent(r), IsConfirmationCall(req[r].st)
               PROVE  store[req[r].st.pendingConfirmation.cid] # "consumed"
    BY DEF NeverReplayed
  <2>1. req[r].pc = "running" /\ req[r].st.pendingConfirmation # NULL
    BY DEF AtAgent, IsConfirmationCall
  <2>2. Unused(req[r].st)
    BY <2>1 DEF SessionInv, InTurn
  <2>3. QED
    BY <2>1, <2>2 DEF Unused, Usable
<1>2. QED
  BY <1>1, SessionInvariant, PTL

\* A step of a request at work leaves a suspended thread alone, unless the
\* request brings a decision to it.
LEMMA AtWorkElsewhere ==
  ASSUME SessionInv, ~setup.overlap, NEW r \in Requests, AtWork(r), NEW t \in Threads,
         next[t] = "human_approval", req[r].thread = t
  PROVE  req[r].pc = "running" /\ req[r].decision # NULL
<1>1. req[r].node = "human_approval"
  BY DEF SessionInv, InTurn
<1>2. req[r].decision \in BOOLEAN /\ req[r].pc # "calling"
  BY <1>1 DEF SessionInv, Positions
<1>3. QED
  BY <1>2, RequestsAssumption DEF AtWork

\* A suspended thread stays as it is until a decision reaches it or the service
\* restarts, while requests do not overlap.
THEOREM SuspendedUntouched == SessionSpec => SuspendedStaysPut
<1> DEFINE Stays(t) ==
      ~setup.overlap /\ next[t] = "human_approval" /\ (next'[t] # next[t] \/ saved'[t] # saved[t])
        => \/ next'[t] = "none"
           \/ \E r \in Requests : req[r].pc = "running" /\ req[r].decision # NULL
                                   /\ req[r].thread = t
<1>1. SessionInv /\ [SessionNext]_sessionVars => [\A t \in Threads : Stays(t)]_sessionVars
  <2> SUFFICES ASSUME SessionInv, SessionNext, NEW t \in Threads, ~setup.overlap,
                      next[t] = "human_approval", next'[t] # next[t] \/ saved'[t] # saved[t]
               PROVE  \/ next'[t] = "none"
                      \/ \E r \in Requests : req[r].pc = "running" /\ req[r].decision # NULL
                                              /\ req[r].thread = t
    OBVIOUS
  <2>1. /\ next \in [Threads -> Nodes \cup {"none"}] /\ saved \in [Threads -> AgentState]
    BY DEF SessionInv, Types
  <2>2. CASE Restart
    BY <2>2 DEF Restart
  <2>3. ASSUME NEW r \in Requests, NEW u \in Threads, SendMessage(r, u)
        PROVE  FALSE
    <3>1. next[u] # "human_approval"
      BY <2>3 DEF SendMessage, ThreadFor, Finished
    <3>2. t # u
      BY <3>1
    <3>3. QED
      BY <3>2, <2>1, <2>3 DEF SendMessage
  <2>4. ASSUME NEW r \in Requests, AtWork(r), NEW s, NEW n, Advance(r, s, n)
        PROVE  \E q \in Requests : req[q].pc = "running" /\ req[q].decision # NULL
                                   /\ req[q].thread = t
    <3>1. req[r].thread = t
      BY <2>1, <2>4 DEF Advance
    <3>2. QED
      BY <3>1, <2>4, AtWorkElsewhere
  <2>5. ASSUME NEW r \in Requests, ServiceStep(r)
        PROVE  \E q \in Requests : req[q].pc = "running" /\ req[q].decision # NULL
                                   /\ req[q].thread = t
    <3>1. CASE TakeDecision(r)
      BY <3>1, <2>4 DEF TakeDecision, AtWork
    <3>2. CASE RunNode(r)
      BY <3>2, <2>4 DEF RunNode, AtWork
    <3>3. CASE AgentAnswers(r)
      BY <3>3, <2>4 DEF AgentAnswers, AtWork
    <3>4. ~(AcceptResume(r) \/ RefuseResume(r) \/ StartResume(r)
            \/ \E status \in AgentStatus : FirstCall(r, status) \/ ConfirmedCall(r, status))
      BY DEF AcceptResume, RefuseResume, StartResume, FirstCall, ConfirmedCall
    <3>5. QED
      BY <2>5, <3>1, <3>2, <3>3, <3>4 DEF ServiceStep
  <2>6. ~(\/ \E r \in Requests, x \in BOOLEAN : Click(r, x)
          \/ CloseStream \/ Reload
          \/ \E r \in Requests : Cancel(r)
          \/ \E c \in Cids : Expire(c))
    BY DEF Click, CloseStream, Reload, Cancel, Expire
  <2>7. QED
    BY <2>2, <2>3, <2>5, <2>6 DEF SessionNext
<1>2. QED
  BY <1>1, SessionInvariant, PTL DEF SessionSpec, SuspendedStaysPut
=============================================================================
