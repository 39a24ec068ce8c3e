---------------------------- MODULE ChatSession ----------------------------
(***************************************************************************)
(* One chat session across the client, the orchestration service and the   *)
(* domain agents: messages (/chat/stream) and confirmations (/chat/resume) *)
(* are requests that run concurrently, each executes the graph on its own  *)
(* copy of the state and saves a checkpoint after every node, a request    *)
(* may be closed half-way, the service may restart and lose its            *)
(* checkpoints, and the agents keep one-shot confirmations of their own.   *)
(*                                                                         *)
(* A message runs on the thread named by the session unless a run is       *)
(* unfinished there; a confirmation always resumes that thread.            *)
(***************************************************************************)
EXTENDS TurnGraph

CONSTANTS
  Threads,          \* checkpoint keys: the session's own and the fresh ones
  Base,             \* the thread the session id names
  Requests,         \* slots for requests in progress
  Setups            \* the client and the bounds of a session, see SetupsAssumption

ASSUME ThreadsAssumption == Base \in Threads

\* keepsPrompt: the mobile client, else the web client; overlap: requests may
\* overlap; messages and confirmations: bounds on how many there are.
ASSUME SetupsAssumption ==
  Setups \subseteq [keepsPrompt: BOOLEAN, overlap: BOOLEAN,
                    messages: Nat, confirmations: 0..MaxConfirmations]
ASSUME RequestsAssumption ==
  /\ NULL \notin Requests \cup BOOLEAN
  /\ NULL \notin [status: AgentStatus, cid: Nat]

Approvals == [who: Agents \cup {WebSearch}, cid: Nat]

VARIABLES
  setup,    \* the client and the bounds of this session
  next,     \* per thread, snapshot.next of its checkpoint, "none" without one
  saved,    \* per thread, the state of its checkpoint
  req,      \* the requests in progress
  stream,   \* the request whose stream the client reads
  shown,    \* the confirmation on the user's screen
  agreed,   \* confirmations the user confirmed while they were on the screen
  decided,  \* the decisions human_approval has taken, with their confirmations
  store,    \* the agents' confirmation stores
  writes,   \* per confirmation, how often the agent carried out its write
  handedOut, \* confirmation ids handed out
  messages  \* messages sent

client == <<stream, shown, agreed>>
agents == <<store, writes, handedOut>>
sessionVars == <<setup, next, saved, req, client, decided, agents, messages>>

\* pc: "sent" a resume under way, "accepted" past the check of chat_resume,
\* "running" at a node, "calling" an agent that has acted and not answered.
Idle == [pc |-> "idle", thread |-> Base, node |-> "END", st |-> BlankState,
         decision |-> NULL, answer |-> NULL]

SessionInit ==
  /\ setup \in Setups
  /\ next = [t \in Threads |-> "none"]
  /\ saved = [t \in Threads |-> BlankState]
  /\ req = [r \in Requests |-> Idle]
  /\ stream = NULL /\ shown = NULL /\ agreed = {} /\ decided = {}
  /\ store = [c \in Cids |-> "none"]
  /\ writes = [c \in Cids |-> 0]
  /\ handedOut = 0 /\ messages = 0

(***************************************************************************)
(* The client                                                              *)
(***************************************************************************)
Finished(t) == next[t] \in {"none", "END"}

\* Mutant: every message runs on the session's thread.
AlwaysBase(t) == t = Base

\* _thread_config: the session's thread if its last run has ended, else a
\* thread nobody has used.
ThreadFor(t) == IF Finished(Base) THEN t = Base ELSE t # Base /\ next[t] = "none"

CanStart(r) == req[r] = Idle /\ (setup.overlap \/ \A q \in Requests : req[q] = Idle)

\* Neither client sends while it reads a stream or shows a confirmation.
\* The message starts its run at once.
SendMessage(r, t) ==
  /\ stream = NULL /\ shown = NULL /\ messages < setup.messages
  /\ CanStart(r) /\ ThreadFor(t)
  /\ messages' = messages + 1
  /\ stream' = r
  /\ LET s == InitialState(saved[t], messages + 1)
     IN /\ saved' = [saved EXCEPT ![t] = s]
        /\ next' = [next EXCEPT ![t] = "input_guardrail"]
        /\ req' = [req EXCEPT ![r] = [Idle EXCEPT !.pc = "running", !.thread = t,
                                        !.node = "input_guardrail", !.st = s]]
  /\ UNCHANGED <<shown, agreed, decided, agents>>

\* The user confirms or cancels what the screen shows.  The web client drops
\* the prompt at once, the mobile client when the resumed stream completes.
Click(r, approved) ==
  /\ shown # NULL /\ stream = NULL /\ CanStart(r)
  /\ stream' = r
  /\ shown' = IF setup.keepsPrompt THEN shown ELSE NULL
  /\ agreed' = IF approved THEN agreed \cup {shown} ELSE agreed
  /\ req' = [req EXCEPT ![r] = [Idle EXCEPT !.pc = "sent", !.decision = approved]]
  /\ UNCHANGED <<next, saved, decided, agents, messages>>

\* The user stops the answer, or the connection breaks: the client no longer
\* reads the stream, the service may not know it yet.
CloseStream ==
  /\ stream # NULL
  /\ stream' = NULL
  /\ UNCHANGED <<next, saved, req, shown, agreed, decided, agents, messages>>

\* The web page is loaded again: the session id is in localStorage, the
\* confirmation on the screen was not.
Reload ==
  /\ ~setup.keepsPrompt /\ shown # NULL
  /\ shown' = NULL /\ stream' = NULL
  /\ UNCHANGED <<next, saved, req, agreed, decided, agents, messages>>

(***************************************************************************)
(* The orchestration service                                               *)
(***************************************************************************)
\* Request r has ended; if the client still reads its stream, the screen
\* shows prompt from now on: the confirmation the graph stopped at, NULL at
\* its end, and what it showed before if all it heard was an error.
Deliver(r, prompt) ==
  IF stream # r THEN UNCHANGED <<stream, shown>>
  ELSE stream' = NULL /\ shown' = prompt

\* Mutant: any unfinished run may be resumed.
AcceptResumeUnfinished(r) ==
  /\ req[r].pc = "sent" /\ ~Finished(Base)
  /\ req' = [req EXCEPT ![r].pc = "accepted"]
  /\ UNCHANGED <<next, saved, client, decided, agents, messages>>

\* chat_resume up to its response: the thread must wait for an approval.
AcceptResume(r) ==
  /\ req[r].pc = "sent" /\ next[Base] = "human_approval"
  /\ req' = [req EXCEPT ![r].pc = "accepted"]
  /\ UNCHANGED <<next, saved, client, decided, agents, messages>>

\* 409: the session is not awaiting approval.
RefuseResume(r) ==
  /\ req[r].pc = "sent" /\ next[Base] # "human_approval"
  /\ req' = [req EXCEPT ![r] = Idle]
  /\ Deliver(r, shown)
  /\ UNCHANGED <<next, saved, agreed, decided, agents, messages>>

\* The body of the response starts only now and loads the checkpoint as it
\* is by now; on a finished thread it has nothing to run.
StartResume(r) ==
  /\ req[r].pc = "accepted"
  /\ IF Finished(Base)
     THEN /\ req' = [req EXCEPT ![r] = Idle]
          /\ Deliver(r, shown)
     ELSE /\ req' = [req EXCEPT ![r].pc = "running", ![r].thread = Base,
                                ![r].node = next[Base], ![r].st = saved[Base]]
          /\ UNCHANGED <<stream, shown>>
  /\ UNCHANGED <<next, saved, agreed, decided, agents, messages>>

\* Request r has executed a node: state s, next node n.  The checkpoint is
\* saved; the run ends at END and is suspended at human_approval.
Advance(r, s, n) ==
  /\ saved' = [saved EXCEPT ![req[r].thread] = s]
  /\ next' = [next EXCEPT ![req[r].thread] = n]
  /\ IF n \in {"END", "human_approval"}
     THEN /\ req' = [req EXCEPT ![r] = Idle]
          /\ Deliver(r, IF n = "END" THEN NULL ELSE s.approval)
     ELSE /\ req' = [req EXCEPT ![r].st = s, ![r].node = n, ![r].pc = "running",
                                ![r].decision = NULL, ![r].answer = NULL]
          /\ UNCHANGED <<stream, shown>>

\* human_approval with the decision of this request.
TakeDecision(r) ==
  LET q == req[r]
      s == HumanApproval(q.st, q.decision)
  IN /\ q.pc = "running" /\ q.node = "human_approval"
     /\ Advance(r, s, AfterHumanApproval(s))
     /\ decided' = decided \cup {[prompt |-> q.st.approval, approved |-> q.decision]}
     /\ UNCHANGED <<agreed, agents, messages>>

\* What the nodes that call no agent make of state s.
Outcomes(n, s) ==
  CASE n = "input_guardrail" ->
         {<<InputGuardrail(s, i), "intent_router">> : i \in BOOLEAN}
    [] n = "intent_router" ->
         LET routed == {IntentRouter(s, c, x) : c \in Classifications, x \in BOOLEAN}
         IN {<<q, RouteByIntent(q)>> : q \in routed}
    [] n = "agent_invoker" /\ PlanDone(s) -> {<<s, AfterAgentInvoke(s)>>}
    [] n = "utility_tool_executor" /\ SearchGate(s) ->
         {<<AskSearch(s), AfterUtility(AskSearch(s))>>}
    [] n = "utility_tool_executor" /\ ~SearchGate(s) ->
         {<<q, AfterUtility(q)>> : q \in {UtilityExecutor(s, b) : b \in SUBSET Tools}}
    [] n = "chat_responder" -> {<<Replied(s), "output_guardrail">>}
    [] n = "output_guardrail" -> {<<s, "response_aggregator">>}
    [] n = "response_aggregator" -> {<<Replied(s), "END">>}
    [] OTHER -> {}

RunNode(r) ==
  /\ req[r].pc = "running"
  /\ \E o \in Outcomes(req[r].node, req[r].st) : Advance(r, o[1], o[2])
  /\ UNCHANGED <<agreed, decided, agents, messages>>

(***************************************************************************)
(* The domain agents                                                       *)
(***************************************************************************)
AtAgent(r) ==
  /\ req[r].pc = "running" /\ req[r].node = "agent_invoker" /\ ~PlanDone(req[r].st)

\* A first call: the agent answers, and keeps a one-shot confirmation for
\* a write it wants confirmed.
FirstCall(r, status) ==
  /\ AtAgent(r) /\ ~IsConfirmationCall(req[r].st)
  /\ status = "needs_confirmation" => handedOut < setup.confirmations
  /\ IF status = "needs_confirmation"
     THEN /\ handedOut' = handedOut + 1
          /\ store' = [store EXCEPT ![handedOut + 1] = "pending"]
     ELSE UNCHANGED <<handedOut, store>>
  /\ req' = [req EXCEPT ![r].pc = "calling",
                        ![r].answer = [status |-> status, cid |-> handedOut + 1]]
  /\ UNCHANGED <<next, saved, client, decided, writes, messages>>

\* Mutant: the agent looks the confirmation up without consuming it.
ConfirmedCallReusable(r, status) ==
  LET c == req[r].st.pendingConfirmation.cid
  IN /\ AtAgent(r) /\ IsConfirmationCall(req[r].st)
     /\ IF store[c] = "pending"
        THEN /\ status \in {"completed", "failed"}
             /\ writes' = [writes EXCEPT ![c] = @ + 1]
        ELSE /\ status \in {"needs_more_info", "failed"}
             /\ UNCHANGED writes
     /\ req' = [req EXCEPT ![r].pc = "calling",
                           ![r].answer = [status |-> status, cid |-> 0]]
     /\ UNCHANGED <<next, saved, client, decided, store, handedOut, messages>>

\* A confirmed call: the agent consumes the confirmation and only then makes
\* the write.  A confirmation that is gone is refused.
ConfirmedCall(r, status) ==
  LET c == req[r].st.pendingConfirmation.cid
  IN /\ AtAgent(r) /\ IsConfirmationCall(req[r].st)
     /\ IF store[c] = "pending"
        THEN /\ status \in {"completed", "failed"}
             /\ store' = [store EXCEPT ![c] = "consumed"]
             /\ writes' = [writes EXCEPT ![c] = @ + 1]
        ELSE /\ status \in {"needs_more_info", "failed"}
             /\ UNCHANGED <<store, writes>>
     /\ req' = [req EXCEPT ![r].pc = "calling",
                           ![r].answer = [status |-> status, cid |-> 0]]
     /\ UNCHANGED <<next, saved, client, decided, handedOut, messages>>

\* The answer arrives and agent_invoker finishes.
AgentAnswers(r) ==
  LET q == req[r]
      s == AgentInvoker(q.st, q.answer.status, q.answer.cid)
  IN /\ q.pc = "calling"
     /\ Advance(r, s, AfterAgentInvoke(s))
     /\ UNCHANGED <<agreed, decided, agents, messages>>

\* A confirmation outlives its ten minutes, or its agent restarts.
Expire(c) ==
  /\ store[c] = "pending"
  /\ store' = [store EXCEPT ![c] = "none"]
  /\ UNCHANGED <<next, saved, req, client, decided, writes, handedOut, messages>>

(***************************************************************************)
(* Failures                                                                *)
(***************************************************************************)
\* The service notices that the client has gone and cancels the request
\* where it is: the checkpoint stays where the last node left it.
Cancel(r) ==
  /\ req[r].pc # "idle" /\ stream # r
  /\ req' = [req EXCEPT ![r] = Idle]
  /\ UNCHANGED <<next, saved, client, decided, agents, messages>>

\* The orchestration service restarts: MemorySaver is in memory.
Restart ==
  /\ \E t \in Threads : next[t] # "none"
  /\ next' = [t \in Threads |-> "none"]
  /\ saved' = [t \in Threads |-> BlankState]
  /\ req' = [r \in Requests |-> Idle]
  /\ stream' = NULL
  /\ UNCHANGED <<shown, agreed, decided, agents, messages>>

ServiceStep(r) ==
  \/ AcceptResume(r) \/ RefuseResume(r) \/ StartResume(r)
  \/ TakeDecision(r) \/ RunNode(r) \/ AgentAnswers(r)
  \/ \E status \in AgentStatus : FirstCall(r, status) \/ ConfirmedCall(r, status)

SessionNext ==
  /\ UNCHANGED setup
  /\ \/ \E r \in Requests, t \in Threads : SendMessage(r, t)
     \/ \E r \in Requests, approved \in BOOLEAN : Click(r, approved)
     \/ CloseStream \/ Reload
     \/ \E r \in Requests : ServiceStep(r) \/ Cancel(r)
     \/ \E c \in Cids : Expire(c)
     \/ Restart

SessionSpec == SessionInit /\ [][SessionNext]_sessionVars

(***************************************************************************)
(* Properties                                                              *)
(***************************************************************************)
\* However often a confirmation is submitted, and wherever a request is cut
\* off, its write is made at most once, as the agents consume a confirmation
\* before they write, and only if some resume approved that very confirmation.
WrittenOnce ==
  \A c \in Cids :
    /\ writes[c] <= 1
    /\ writes[c] > 0 => \E d \in decided : d.approved /\ d.prompt.cid = c

\* README on agent write operations: explicit user confirmation before the
\* suspended graph resumes.  What is written is what the user was shown.
WritesAgreed == \A c \in Cids : writes[c] > 0 => \E g \in agreed : g.cid = c

\* A confirmed call never presents a confirmation the agent has already
\* consumed: a run that was cut off after the write is not taken up again.  When
\* resumes overlap, the second of them may be refused by the agent.
NeverReplayed ==
  ~setup.overlap => \A r \in Requests :
    AtAgent(r) /\ IsConfirmationCall(req[r].st)
      => store[req[r].st.pendingConfirmation.cid] # "consumed"

\* A suspended thread stays as it is until a request carries a decision to
\* it or the service restarts: later messages do not touch it.  (A resume that
\* overlaps another may write over what the other has saved.)
SuspendedStaysPut ==
  [][\A t \in Threads :
       ~setup.overlap /\ next[t] = "human_approval" /\ (next'[t] # next[t] \/ saved'[t] # saved[t])
         => \/ next'[t] = "none"
            \/ \E r \in Requests : req[r].pc = "running" /\ req[r].decision # NULL
                                    /\ req[r].thread = t]_sessionVars

(***************************************************************************)
(* The inductive invariant (ChatSessionProofs)                             *)
(***************************************************************************)
Pcs == {"idle", "sent", "accepted", "running", "calling"}
AtWork(r) == req[r].pc \in {"running", "calling"}

RequestRecords ==
  [pc: Pcs, thread: Threads, node: Nodes, st: AgentState,
   decision: BOOLEAN \cup {NULL}, answer: {NULL} \cup [status: AgentStatus, cid: Nat]]

Types ==
  /\ setup \in Setups
  /\ next \in [Threads -> Nodes \cup {"none"}]
  /\ saved \in [Threads -> AgentState]
  /\ req \in [Requests -> RequestRecords]
  /\ store \in [Cids -> {"none", "pending", "consumed"}]
  /\ writes \in [Cids -> Nat]
  /\ handedOut \in 0..setup.confirmations
  /\ messages \in Nat

\* A state before node n of thread t: it asks exactly before human_approval, an
\* agent that asked has left an invocation, and only the session's thread has a
\* confirmation to carry out.
Placed(t, n, s) ==
  /\ n = "human_approval" <=> s.approval # NULL
  /\ s.approval # NULL /\ s.approval.who # WebSearch => s.invs # <<>>
  /\ s.pendingConfirmation # NULL => t = Base

\* Only a resume comes before human_approval, with a decision.
Positions ==
  /\ \A t \in Threads : Placed(t, next[t], saved[t])
  /\ \A r \in Requests :
       /\ req[r].pc \in {"sent", "accepted"} => req[r].decision \in BOOLEAN
       /\ AtWork(r) =>
            /\ Placed(req[r].thread, req[r].node, req[r].st)
            /\ req[r].node = "human_approval"
                 => req[r].decision \in BOOLEAN /\ req[r].thread = Base
       /\ req[r].pc = "calling" =>
            req[r].node = "agent_invoker" /\ ~PlanDone(req[r].st) /\ req[r].answer # NULL

\* A confirmation to carry out was approved by one of the decisions in D.
Backed(s, D) ==
  s.pendingConfirmation # NULL =>
    \E d \in D : d.approved /\ d.prompt.cid = s.pendingConfirmation.cid

\* So it is wherever a state is kept; and a write was made exactly by consuming.
Ledger ==
  /\ \A t \in Threads : Backed(saved[t], decided)
  /\ \A r \in Requests : Backed(req[r].st, decided)
  /\ \A c \in Cids :
       /\ writes[c] = IF store[c] = "consumed" THEN 1 ELSE 0
       /\ c > handedOut => store[c] = "none"
       /\ writes[c] > 0 => \E d \in decided : d.approved /\ d.prompt.cid = c

Usable(c) == c \in Cids /\ store[c] # "consumed"
Unused(s) ==
  /\ s.pendingConfirmation # NULL => Usable(s.pendingConfirmation.cid)
  /\ s.approval # NULL /\ s.approval.who # WebSearch => Usable(s.approval.cid)

\* While requests do not overlap, the one in progress stands where its thread's
\* checkpoint is, and what it or the suspended session has to carry out is unused.
InTurn ==
  ~setup.overlap =>
    /\ \A r, q \in Requests : req[r].pc # "idle" /\ req[q].pc # "idle" => r = q
    /\ next[Base] = "human_approval" => Unused(saved[Base])
    /\ \A r \in Requests :
         /\ req[r].pc = "accepted" => next[Base] = "human_approval"
         /\ AtWork(r) => next[req[r].thread] = req[r].node /\ saved[req[r].thread] = req[r].st
         /\ req[r].pc = "running" => Unused(req[r].st)
         /\ req[r].pc = "calling" /\ req[r].answer.status = "needs_confirmation"
              => Usable(req[r].answer.cid)

SessionInv == Types /\ Positions /\ Ledger /\ InTurn
=============================================================================
