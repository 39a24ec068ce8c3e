# A verification of CampusLink

CampusLink is a campus assistant. A chat service plans each message with a
language model and calls domain agents (lost and found, facilities, mail) and
utilities; the agents work through a Java backend that keeps bookings,
maintenance tickets and lost-and-found reports. Two clients, a web page and an
Android app, talk to the chat service through the backend.

This directory holds TLA+ modules translated from that code, the TLC runs that
check them on small instances, and theorems TLAPS proves about them for every
value of the constants. Paths below are relative to `src/`; `orchestration`
stands for `agent/chat_core/orchestration` and `campusagent` for
`backend/src/main/java/com/app/campusagent`. `PROJECT.json` lists, for every
definition, the lines it models.

## 1. Inventory

### The parts and what each must get right

| Part | State | Operations | What makes it correct |
| --- | --- | --- | --- |
| Orchestration graph (`orchestration/graph`) | `AgentState` of a turn: plans, index, invocations, approval, the three `pending_*` marks | nodes `input_guardrail`, `intent_router`, `agent_invoker`, `utility_tool_executor`, `human_approval`, `chat_responder`, `output_guardrail`, `response_aggregator` and the conditional edges | a write or a search happens only after its own consent and is not forgotten; every turn ends; what was done is reported; a clarification returns to the agent that asked and ends |
| Orchestration service (`orchestration/main.py`) | checkpoints per thread (in memory), requests in progress | `chat_stream`, `chat_resume`, `_thread_config`, `_sse_stream` | a confirmation is acted on once, and it is the one the user saw; a run that was cut off is not replayed |
| Clients (`frontend_web/src/pages/ChatPage.tsx`, `frontend_mobile/.../ui/ViewModels.kt`) | the stream being read, the confirmation on the screen | send, confirm, cancel, stop, reload | no conversation is blocked by a confirmation that is gone |
| Confirmation stores of the agents (`agent/facilities_agent/confirmation.py`, `agent/lost_found_agent/lost_found_agent/confirmation.py`) | pending actions with an expiry | create, consume, expire | a confirmed write is made at most once |
| Facility bookings (`campusagent/facilities`) | bookings, the row lock of a space | `createBooking`, `cancelBooking` | no double booking; each request takes effect at one moment; nobody waits for a row for ever |
| Maintenance tickets (same) | the status of each ticket | submit, update | the status follows the table of transitions |
| Lost-and-found images (`campusagent/lostfound`) | report and image rows, staged-image rows, objects in MinIO | upload to staging, create, create from staged, edit, delete, expiry job | an object belongs to one report; a report finds its images; abandoned objects go |
| Lost-and-found claims (same) | status of reports, status of claims, notifications | claim, approve, reject, edit, close, hide, restore, delete | one approved claim per report and the report says so; decisions are final; the claimant is told the truth |
| Facilities agent (`agent/facilities_agent`) | the shared context of a conversation (results, selected space, booking draft, lists, ticket parts), pending confirmations | one message: planner, rules, `create_booking`, `cancel_booking`, searches, tickets; a confirmed action | what the user is asked to confirm was taken for this one request, and the space on his word |
| Lost-and-found agent (`agent/lost_found_agent`) | the context of a conversation, confirmations, request counters | one message: limits, rules, interpretation, report, claim, search with ranking; a confirmation | one write per confirmation, with fields no older than what was last told well; the best matches are shown; the limit holds |
| Mail agent (`agent/mail_agent`, `agent/mcp_servers/mail_server.py`) | OAuth bindings, copies of messages, page tokens, the calendar, proposals, recently deleted ids, pending confirmations | connect, list, read, patch, delete, send, extract and import schedules; a chat request by the model's tools or by rules | no copy outlives a change; lists hold what was asked, once; the calendar has no duplicates; a chat request writes once |
| Request gates (`orchestration/security`, `agent/shared/security.py`, `agent/lost_found_agent/.../security.py`) | nonces with the time they were stored | verify a signed request | let in once, and not refused without a reason |
| MCP calls (`orchestration/mcp/client.py`, `agent/mcp_servers/security.py`) | cached public keys, the attempts of a call | call, verify, retry | a write is not repeated; a good token is accepted |
| Reply stream (`orchestration/main.py`, `orchestration/streaming`) | what was streamed, buffered and is pending | merge tokens and updates, fall back, end | one reply, whole and once |
| Embeddings and backfill, chat relay, authentication, statistics, the rest of the clients | see section 6 | | not modelled |

### How they interact

A client's request goes through the backend to `chat_stream` or `chat_resume`.
These run the graph on a LangGraph thread and save a checkpoint after every
node. `agent_invoker` calls one agent per pass over HTTP. An agent that wants
to write answers `needs_confirmation` and stores a pending action; the graph
stops at `human_approval`, the client shows the question, and the decision
comes back as a new request that resumes the thread from its checkpoint. The
confirmed call then names the stored action, the agent consumes it and calls
the backend, whose services are Spring transactions over MySQL. Images go to
MinIO, outside any transaction; a scheduled job removes the staged ones that
expire.

### What is hard

- A question and its answer are two requests, with a checkpoint, a client that
  may reload and a service that may restart between them.
- `chat_resume` checks the checkpoint when it answers, and runs the graph when
  the body of the answer is streamed.
- The marks in `AgentState` are consumed in a later pass of the graph than the
  one that sets them, in plans that mix agents and tools.
- The backend reads a row, checks it, perhaps waits for the embedding service,
  and writes the whole row back. Only the booking of a space takes a lock, and
  no entity has a version.
- Rows and objects are changed by no common transaction, and compensations run
  only if the process survives.
- The domain agents keep nothing between messages but confirmations: the context
  of a conversation travels with every call, is kept only if the call came back, and is
  merged key by key with what earlier calls returned.
- Gmail changes beneath the copies, refuses calls, and carries writes out whose
  answers are lost; the adapter in front of the mail agent gives up on an agent
  that works on.
- Nonces, keys and page tokens are remembered for a time, by processes that restart
  and clocks that differ.
- Tokens and updates of one run are two streams whose order nobody promises.

`PROJECT.json` lists these hazards at the lines where they bite, each with the
properties that would notice.

## 2. The modules

| Module | Models | Composed of |
| --- | --- | --- |
| `TurnGraph` | the nodes and edges of the graph, as functions of `AgentState`; no variables | |
| `ChatTurn` | the turns of a conversation on one thread | `TurnGraph` |
| `ChatSession` | a session: clients, concurrent requests, checkpoints, agents' confirmation stores, failures | `TurnGraph` |
| `SpaceCalendar` | abstract: taking and giving up a space, each in one step | |
| `FacilityBooking` | booking and cancelling as transactions | implements `SpaceCalendar` |
| `MaintenanceWorkflow` | maintenance tickets and concurrent updates | |
| `ReportImages` | rows, objects, staging, the expiry job | |
| `LostFoundClaims` | reports, claims, decisions and notifications | |
| `FacilitiesAgent` | a conversation with the facilities agent, and the backend it calls | `MaintenanceWorkflow` |
| `LostFoundAgent` | a conversation with the lost-and-found agent, while others claim and moderate | `LostFoundClaims` |
| `GmailService` | OAuth bindings, copies, lists and page tokens | |
| `MailCalendar` | events, proposals and imports | |
| `MailAgent` | the mail agent's adapter, tools, rules and confirmations over both | `GmailService`, `MailCalendar` |
| `RequestGate` | three gates for signed requests; calls over MCP with their tokens | |
| `ReplyStream` | the events of one run of the graph | |
| `ChatGateway` | the way in, out and on of a chat request | `RequestGate`, `ReplyStream` |
| `ChatTurnProofs`, `ChatSessionProofs`, `FacilityBookingProofs`, `ReportImagesProofs` | the theorems | the modules they are named for |
| `FacilitiesAgentProofs` | the theorems about a conversation and about tickets | `FacilitiesAgent` over `MaintenanceWorkflow` |
| `LostFoundProofs` | the theorems about a conversation and about claims | `LostFoundAgent` over `LostFoundClaims` |
| `MailAgentProofs` | the theorems about copies, chat requests and the calendar | `MailAgent` over `GmailService` and `MailCalendar` |
| `ChatGatewayProofs` | the theorems about gates, calls and streams | `ChatGateway` over `RequestGate` and `ReplyStream` |
| `MC...` | constants, starting points and symmetry sets for TLC | |

Definitions that begin with "Mutant:" in their comment are used by no action.
Each is a plausible mistake in the definition below it; `PROJECT.json` pairs it
with the property that detects it.

### TurnGraph and ChatTurn

A node of the code takes the state and returns an update; here it is an operator
that takes the state and what it hears from outside and returns the new state,
and an edge is an operator from the state to the next node. `ChatTurn` keeps the
node to execute (`node`), the state (`st`) and history variables that count
confirmations, confirmed calls, searches and questions. Its actions are the nodes,
plus the user's `NewMessage` (`InitialState`, the input of `chat_stream` merged
over the checkpoint: everything is reset except `agent_invocations` and
`pending_info`) and `Decide` (the interrupt of `human_approval` returns).

Abstractions. The answer of the classifier after the whitelist is any member of
`Classifications`, which includes the keyword fallback. An agent's answer is its
status; a call that fails in the client is `failed`. `requires_approval`,
`approval_agent` and `approval_context` are always written together and are the
one field `approval`. Messages are reduced to who wrote the last one, which is
what `response_aggregator` looks at. `fallback_handler` is left out: no edge
leads to it, because `error` is set only by the guardrail, and then the router
goes to the chat model.

One detail is kept on purpose: with nothing left to run, `utility_tool_executor`
returns `{}`, so the mark of a declined search is not consumed and every later
confirmation passes by the tools again (`UtilityExecutor`, `AfterHumanApproval`).

### ChatSession

The same nodes run under checkpoints. `next` and `saved` are the checkpoint of
each thread, `req` the requests in progress, each on its own copy of the state;
`stream` and `shown` are what the client reads and shows; `store` is the agents'
pending actions. `AcceptResume` and `StartResume` are two steps, because the graph
is resumed only when the response's generator runs. A confirmed call has two
steps too: the agent consumes the confirmation and writes (`ConfirmedCall`), and
`agent_invoker` hears of it (`AgentAnswers`), so a request can be cancelled
between them. Failures are `CloseStream` (the client stops reading), `Cancel` (the
service notices), `Restart` (`MemorySaver` is in memory), `Expire` (the ten
minutes of a confirmation, or a restart of its agent) and `Reload` of the web page.
A setup says which client it is and how much it does: the web page drops the
confirmation when it is answered, the app when the resumed stream completes
(`keepsPrompt`), and requests may overlap or not (`overlap`, `CanStart`).

A write is counted even when the agent then answers `failed`: the backend may have
committed before the error. The checks of user, session and tool in the
confirmation stores are left out; there is one user.

### FacilityBooking and SpaceCalendar

A request is a transaction: `CreateBooking` (validation of the input),
`LockSpace` (`findByIdForUpdate`), `CheckSpace` (`availabilityReason`, with
`existsConflict`), `CommitBooking`. MySQL reads a REPEATABLE READ snapshot, which
is taken at the first consistent read; `findByIdForUpdate` is a locking read, so
the snapshot is taken by the conflict query, after the lock. `CheckSpace` therefore
sees what is committed at that moment. A cancellation takes no lock. `RollBack` may
happen at any point, and stands for a lock wait that times out, a lost connection
or a crash. Time is cut into days of `DayLength` units with opening hours. A
refusal before the transaction has done anything is not a step.

`SpaceCalendar` says what is promised: the reservations in force never clash, one
is taken or given up per step, and a number is given once. `RefinesCalendar` maps
the committed bookings with status CONFIRMED to its reservations.

### MaintenanceWorkflow

`CheckUpdate` reads a ticket and checks `MAINTENANCE_TRANSITIONS`; `CommitUpdate`
writes the row, whatever it is by then. A repeated status is answered without a
write and a forbidden one is refused; neither is a step.

### ReportImages

Objects and rows change in different steps, in the order of the code: `replaceImages`
removes the old objects before the commit, `deleteReportAndCleanup` flushes the
deletion and removes the objects before the commit, the compensation of
`registerRollbackCleanup` runs when the transaction ends without one, staged rows
are consumed after it. The unique key on `object_key` is checked at `CommitStaged`
and waits for a deletion that was flushed (`Deleting`). Hibernate's row counts make a
commit fail when a row it deletes is gone. Bean Validation, image formats and
thumbnails are left out, and a key is drawn once (they contain a UUID).
`setup.faults` is what may go wrong in a behaviour, chosen at its start, so that a
property can say under which failures it holds: `rollback`, `crash` (nothing runs after it, not
even a compensation), `storage` (a removal fails and is ignored), `late` (a
creation lasts beyond an expiry), `reuse` (a staged key is submitted twice) and `bare` (a
report is created without images, which is legal, but see what overlapping edits do to it).
The staged rows are consumed after the commit, in the transaction that is over by then
(`afterCommit` opens no new one): whether the change is ever flushed is left open
(`Consume`). The unique key keeps an image that was not consumed from a second report, and
the job asks for references before it removes anything. Where `reuse` is off, a staged key is given
neither while another request has it nor after a report has it.

### LostFoundClaims

Every operation is two steps: the reads and checks, and the commit that writes the
rows it computed. `late` and `raced` are history: an operation is late when another on its
report was committed after it had checked, and a report is raced once a late operation
was committed there. Hibernate updates all columns of a changed entity, so the whole
row of the report is written back (`WithRow`). Decision and notifications commit in
one transaction. `findByReportIdAndStatus` gives `approveClaim` the other pending
claims, as of its snapshot. Foreign keys keep a report from being deleted while a
claim that was not read refers to it. LOST reports take no claims and are left out.

### FacilitiesAgent

One action is one call of `FacilitiesAgentService.invoke` up to the next call of the
backend; time passes between them. The planner may return any intent and name any
space and any time, as a language model may: a text, which holds a date, a range, both or
neither, or a period with a start and an end (`PlannerRefs`, `PlannerTimes`). Its space
counts only if the message refers to one (`PlannedRef`); its time is merged into the draft
as it is (`MergeTime`), as `service.py:150-151` and `705-741` do. Only a message that
continues a draft is read without the planner, and then the text is the message (`TimeOf`).
A message is what the rules find in it: a reference (a rank, "that room", an id, a name), a
date, a range of times, an abandonment.
`ctx` is `FacilitiesSharedContext` with the turn in which each part was taken. It is one key
of the conversation's shared context, and is kept as returned unless the call failed, which is what `agent_invoker` does. Whether
a space is free is the backend's answer at that moment. Tickets go to
`MaintenanceWorkflow`, where administrators work on them at the same time.

### LostFoundAgent

`Say` begins with the limits (`LetThrough`) and `Handle` goes on: rules, interpretation by the
language model (which may add any part), the merge into the context and the answer:
a question, a confirmation, or a search, whose matches are scored as `matching.py`
does, with weights in percent (`Score`) and embeddings as any numbers. The context of a report or a claim is spread over keys of the shared context,
and `_build_conversation_context` lays what a call returned over what earlier calls did:
a part the agent has dropped, a date in the future, comes back as it was before (`Kept`).
The fields of a report that was confirmed stay in the context for the same reason. A
confirmation and its retry are two calls that may overlap. Claims are made in `LostFoundClaims`,
where others claim, decide, edit and delete. The conversation is one user's, so the
check of a confirmation's owner is not exercised.

### GmailService, MailCalendar and MailAgent

Every operation on Gmail runs under its user's lock (`_serialized`) and is one step
with an outcome: done, done but the read after it fails (`unseen`), done but the
answer lost (`lost`), refused. `copies` is the cache of messages, `cursors` that of
page tokens with the eviction of the oldest list; lists are made in the four ways of
`list_messages` (Gmail's pages, by received date, by date of the header with a
prefilter, fuzzy search), of as many candidates as the code looks at (`MaxCandidates`, and
`MinCandidates` for the scan of the calendar). Days are told apart by receipt (`DayOf`) and
by the header (`SentDayOf`), which is what Gmail's own search goes by. A bulk deletion calls
Gmail in batches (`BatchSize`): a batch that raises ends it: those before it were
answered, those after it are left, and of its own items any may be done (`TrashMessages`). The calendar
takes no lock: an update checks what it read
before it writes (`BeginUpdate`, `EndUpdate`), and an import reads the calendar before
it inserts (`BeginImport`, `EndImport`). In `MailAgent` a request goes through the
agent with its tools first, a confirmed one too, and the model may use any of them whatever
was asked; when the agent's service answers with an error, the rules of the adapter
(`mail_server.py`) take over, which do not know what it did before (`RunChat`, `HandleSend`);
the agent may work on after the adapter has given up (`HandleAgentTimeout`). A behaviour is
about one topic, from a start of its own (`Case`), which says who asks what, at what time,
and which tools the run looks at: sending, filing and deleting are looked at apart, the
model deleting beside a confirmation in the topic "confirmed".

### RequestGate, ReplyStream and ChatGateway

A gate is the code that verifies a signed request. Two of the three read the clock in
whole seconds and store the nonce before they look at the signature
(`VerifyStoringFirst`), one stores the exact time and consumes the nonce last
(`VerifyStoringLast`). A copy of a request may arrive at any time, sound or damaged,
and the clocks of the sender and of whoever signs its token may be off by `MaxSkew` against the
gate's. For the lost-and-found gate they are one clock, the sender's
(`LostFoundAgentGateway`); the tokens for the other agents are the token service's. A token from a
clock that is ahead is refused for its `iat` until the gate's clock gets there (`Early`). A call of an agent is verified twice, by
the middleware of its server and by the tool, each with its own cached key
(`VerifyToken`); a connection that breaks leaves the attempt working and may start
another (`LoseConnection`). The header with the time of an MCP request is left out: it
is set when or after the token is made, and neither lives longer than the other.

`ReplyStream` has the graph as the nodes that follow each other (`Successors`), the
tokens of the model on their way (`chunks`), with the whole reply once more at their
end as LangGraph sends it, and the finished reply in an update of its own. They arrive
in any order. `JoinSurrogate` is on sequences of characters and halves of characters.
`GraphFails`, `Cancel` and a model that fails come anywhere; `mute` remembers that the model
asked in the graph's stead said nothing. Events that only report
progress are left out.

## 3. The runs

Every property has a mutant in `PROJECT.json`: a mistake in the code it is about
that TLC finds as a violation of it under the same configuration.

### Runs that pass

| Run | Instance | Properties | Shows |
| --- | --- | --- | --- |
| `chat_turn` | 2 turns and 2 more in a clarification, plans of 0 to 2 agents, search and another tool, 3 confirmations | `TypeOK`, `ConfirmedOnce`, `ConfirmedIsCarriedOut`, `SearchesAgreed`, `QuestionsEnd`, `SomeAskerRemembered`, `OutcomesReported`, `TurnEnds` | consent covers exactly what is carried out, across turns and in plans that mix agents and tools; the reply reports it; questions and turns end |
| `chat_session` | the web client with 2 messages and 1 request at a time; the app with 2 requests at a time; 2 threads, 2 confirmations | `NeverReplayed`, `WrittenOnce`, `SuspendedStaysPut` | a run cut off after its write is never taken up again; however often a confirmation is submitted, the write is made at most once; a suspended thread is touched by decisions only |
| `facility_booking` | 2 requests, 2 spaces of which one is out of service, times 0 to 5 with opening hours 1 to 4, 2 bookings | `NoDoubleBooking`, `RefinesCalendar`, `RequestEnds` | no double booking; transactions implement the calendar; refusals, failures and commits all give the row back |
| `report_images` | 2 requests, 2 reports; once without faults, with two images drawn directly, and once with all | `TypeOK`, `LinkedOnce`, `CompleteAtRest`, `StagedOrphansGo` | an object never belongs to two reports; a staged image nobody refers to is removed in the end; without faults overlapping requests and the job leave no report without its images |
| `facilities_desk` | 4 messages, 2 spaces, 2 times on each of 2 days, a planner that names 2 spaces and 4 times, 1 ticket and 2 administrators | `DeskTypeOK`, `ResolvedWasInProgress`, `PartsOfOneRequest`, `ReferencesAreCurrent`, `TicketOfOneProblem` | the parts of a booking were taken within one request, its space in a turn that refers to one and no time before its date, "the second one" is of the last list, a ticket describes one problem; nothing is resolved that was never in progress |
| `lost_found_desk` | 3 messages about a report, a claim or a search; or moderation with 3 users and 2 claims: two requests at once on one report, or one at a time on two | `DeskTypeOK`, `SentOnceAsShown`, `RateIsBounded`, `BestAreShown`, `FieldsAreLatest`, `WriteIsWanted`, `ClaimedUnlessOvertaken`, `OneActiveClaim`, `LastWordIsTrue`, `DecisionFinal` | one write per confirmation, with the fields shown, which are no older than what was last told well, and of the intent last expressed; no better match is kept back; the rules of claims are broken only where an operation was committed after another had overtaken it |
| `mail` | eleven topics; 2 users, 2 accounts, 5 messages, 2 imports or updates at once, 3 chat requests | `CopiesAgree`, `ListedAsAsked`, `CalendarKept`, `ChatWritesOnce` | a copy served is true or younger than its time to live; lists hold what was asked, each message once, and a scan of the calendar the newest of its days but what was dated long before; no import makes a duplicate it could see, no event ends before it starts unless two updates crossed or the rules read it so out of a line of mail; a chat request writes once, unless Gmail's answer was lost or the agent's service failed after it had sent |
| `gateway` | 2 requests at one of 3 gates, the clocks of senders and signers off by 1, one restart; or one call with 2 attempts and 3 keys; or one stream of ten replies | `ServedOnce`, `OneReply`, `WholeReply` | what was sent once has its effect once; the user reads one reply, from one source and with one end, and reads all of it |

### Runs that find a disagreement

| Run | Property | What happens |
| --- | --- | --- |
| `chat_session_reload` | `WritesAgreed` | after a reload the user confirms a question of a fresh thread, and the resume carries out the forgotten one of the session's thread |
| `report_images_expiry` | `CreatedWithImages` | the job removes an image that a creation has read and not yet committed |
| `lost_found_edited` | `ApprovedIsClaimed` | an edit that overlaps an approval opens the report again |
| `mail_before` | `BeforeIsExclusive` | a list, and a bulk deletion, of the mail before a day takes the mail of that day too |

`PROJECT.json` quotes, for each, the line of the repository that says otherwise.

### Seen while modelling

These behaviours follow from the code as modelled. No run is kept for them: no line of
the repository we could quote contradicts them as clearly, or they were met on the way.

Chat and backend.

- With two agents in a plan the question of the first is shown and then forgotten;
  `SomeAskerRemembered` is what does hold.
- `after_agent_invoke` compares the set of failed agents with the plan
  (`edges.py:50-52`), and the router keeps an agent the classifier names twice. When one
  of its two calls fails and the other completed, the plan counts as lost: the chat model
  answers and the completed outcome is not in the reply. `OutcomesReported` is checked
  and proved for plans without repetitions.
- Two resumes may both pass the check of `chat_resume` before either consumes the
  interrupt. It is the one-shot confirmations that keep the write from being made twice.
- The app keeps a confirmation the service refuses with 409, and its user cannot send
  before cancelling it.
- Two overlapping updates move a cancelled ticket on: `updateMaintenanceStatus`
  (`FacilitiesService.java:284`) reads without a lock. The theorem `FinalIsLostToOverlap`
  says that only an update that had read the ticket before it was final can do so.
- `consumeStagedImagesAfterCommit` changes the staged rows after the commit, in no
  transaction of its own (`LostFoundReportService.java:673-684`,
  `LostFoundImageStagingService.java:237-241`): the change may never reach the database.
  Nothing worse follows than a row that stays until the job removes it.
- An object outside staging whose removal failed once is never removed.
- Two overlapping edits of a report without images both give it theirs, because neither
  has old ones to replace. If two more edits then overlap, one finds part of its old
  images gone and fails, after it has removed the objects of all of them. A rollback
  after the removal does the same to any report. `CompleteAtRest` leaves both out.
- A claim submitted twice at once is made twice, and two decisions on one claim at once
  both take effect. The properties excuse the report from the commit of the one that was
  overtaken (`raced`), and nothing before; `LastWordIsTrue` holds all the same.

Facilities agent.

- The planner's date and time go into a booking unchecked (`service.py:150-151`, `705-741`).
  A comment there (line 732) says that a bare booking request must never inherit stale time
  arguments from an earlier turn. It speaks of the window of a search, and the code keeps that
  out; but the planner is given the pending draft and the recent messages
  (`deepseek_planner.py:178-186`, `229-234`) and told to combine them (`103-107`), so that it may
  repeat an old time itself. Only its space is held against the message (`183-192`).
- An abandonment told to another agent is not heard, so the draft comes back two turns
  later; so does one that was cleared in a call that then failed.
- A date and a time that cannot be used, told together with a space, complete a draft
  with its old time.
- "That room" with a single result ignores that the search has expired.
- Parts of a ticket have no lifetime and are merged into a later one.

Lost-and-found agent.

- A date in the future is dropped and asked for again (`rules.py:938-957`). If one had been
  told before, the orchestration brings it back (`nodes.py:465-475`), and the next message,
  whatever it is about, may be answered with a confirmation that holds the older date.
  `FieldsAreLatest` excuses nothing else: what was told well is never replaced by an older
  part.
- The answer to a completed report returns no context, so its fields are merged into
  the next report.
- A report that was created is told as failed when the search for matches fails.
- Old bounds of a search stay beside a new date, and an inverted range makes every later
  search ask again; a follow-up of ten characters or more replaces the description.
- Images replaced without fingerprints keep the old ones, and only the first is used.
- "The day after tomorrow" is read as tomorrow in one of the patterns, although a comment
  in `rules.py` says that long words are judged first; the validator compares dates with
  the server's today, the rest with the campus's.

Mail agent.

- `delete_mail_batch` says 200 messages at most and takes 50; a message of a bulk deletion
  that fails is counted as deleted and hidden from lists for five minutes. When a batch
  raises, those before it are gone and the whole is told as failed (`gmail_service.py:1158-1175`,
  `mail_agent/agent.py:326-329`).
- The scan of the calendar says that every message of its days is guaranteed to be among the
  candidates, because Gmail lists by the day of receipt (`gmail_service.py:527-529`). Gmail is
  asked by the day of the header first, so a message dated more than a week (or more than the
  length of the scan) before its first day is never a candidate, however few there are.
  `ListedAsAsked` says that these are the only ones.
- An import does not check the order of the times; a proposal without a message is
  skipped when any event written by hand starts at the same time; the refusal of an
  update for its order says that the times must be ISO dates.
- Connecting another account without disconnecting keeps the copies and the page tokens
  of the one before. Refused OAuth answers leave their states behind.
- Reading the first page anew does not renew the tokens of the pages after it, so a
  message may fall between two of them when mail arrives.
- A confirmation is taken before its owner is checked, its lifetime is told and never
  enforced, and confirmed calls go to the agent first, which may
  use all of its tools on them.
- When the agent's service answers with an error after it has sent (`mail_agent/main.py:505`),
  the adapter takes it for one that did nothing (`mail_server.py:422-427`, `508`) and the rules
  send the mail of the request again: it is sent twice. `ChatWritesOnce` says that this is the
  only way the rules come to send. A mail sent whose copy cannot be read back is told as failed.

Gateway.

- A damaged copy of a request that arrives first uses up the nonce of the sound one at
  two of the gates: they store it before they look at the signature, while
  `middleware.py:3-6` and `agent/shared/security.py:3-8` list the signature first. `LetInOnce`
  excuses it, and a restart, which forgets the nonces.
- A lost-and-found request whose sender's clock is a second ahead is refused for the `iat` of its
  token, although its timestamp may differ by thirty; so is, at the shared gate, a token whose
  service is ahead. `LetInOnce` excuses exactly that.
- `mcp_servers/security.py` says that the backend draws new keys at every start;
  `DelegationTokenProvider` keeps them in files.
- No update of a node is an error, so `emitted_error` is never set. The text the output
  guardrail writes anew never reaches the stream, which has the model's own.
- A fallback text is swallowed when a part of a reply, or a blank, was streamed before the
  model failed. A reply that repeats itself from its start loses its second token, and
  then is shown whole once more. The first half of a character at the end is dropped.
- If the model asked in the graph's stead fails as well, the stream ends with `done` and
  nothing else (`main.py:510`, `536`). The head of the file (`main.py:20-23`) promises an error
  then, and the comment at the call leaves it to callers, none of which sends it. `OneReply`
  says that no other stream ends in silence.
- An agent's question is announced twice, by its own update and by the interrupt.
- A lost-and-found call that was retried leaves the first attempt's confirmation behind.

### Bounds

`MaxTurns`, `MaxConfirmations`, `MaxBookings`, `MaxTickets`,
`MaxClaims`, `MaxImages`, `MaxAsked`, `MaxEvents`, `MaxSends`, `MaxKeys` and `MaxTime`
cap what would grow for ever, in the guards of the actions they bound. Two turns are enough to carry a mark from one turn to the
next; four cover three clarification rounds and the message after them. Two agents
and two tools give every order of a confirmation, a search and a failure in one
plan, and three confirmations are one more than the agents of a plan. Two threads
are the session's and a fresh one, which is all `_thread_config` distinguishes; two
requests are a race. Two bookings of at most two units between opening and closing
are equal, cross, contain, touch or miss each other, and begin at the opening or end
at the closing time. Two claims are a winner and a loser, or a claim and its repetition.
Four messages to the facilities agent are two searches, a reference and a change of mind;
three to the lost-and-found agent are two intents and a correction. Times to live are one
or two units of a clock of two or three, so that everything is used both in time and too
late. The planner's times are one of each kind: none, a text without either part, a date, a
range, a period. Two requests overlap on one report, which has all the statuses a second
could have; with two reports they come one at a time. Five messages make three pages, of
which the last may be full; two of them are dated a day or more before they came. A local
list looks at three candidates and a scan at two, so that both are cut short. At the gates a nonce
is kept 3 seconds for a window of 1 and a skew of 1, the same strict order as 60, 30 and
less than 30 in the configuration, and half seconds tell the exact clock from the others;
a behaviour of `ChatGateway` is about one gate, the calls or one stream, since they share
no state, and a gate restarts at most once. TLC's
deadlock check is off in all runs: these systems stop, when the bounds are reached or
nobody asks for anything.

### Fairness

- `ChatTurn`: weak fairness of the graph. Calls to agents, tools and the language
  model have timeouts, and a failure is an answer. The user owes nothing.
- All others: none. Their runs ask only what must never happen. A user, Gmail and
  the planner owe nothing.
- `FacilityBooking`: weak fairness of each transaction's own steps, and strong
  fairness of taking a row: InnoDB grants waiting transactions the row in turn,
  while the row becomes free and taken again.
- `ReportImages`: transactions in progress proceed, time passes, the job is
  scheduled, and the removal of an object that is tried again and again succeeds
  now and then (strong fairness of `DeleteStaged`, which competes with
  `DeleteStagedFails`). Uploads, requests, crashes and rollbacks are never owed.

## 4. The proofs

TLAPS checks every proof to its leaves. Assumptions are the named `ASSUME`s on the
constants, which TLC evaluates in every run; none is about the behaviour.

**`ChatTurnProofs`** begins with the lemmas about the nodes of `TurnGraph`, on which the
proofs of `ChatSession` rest too: each keeps `AgentState`, and what `AgentInvoker`,
`HumanApproval` and the router do to the fields the invariant is about. Then `Invariant`, `TypeCorrect`, `NoUnconfirmedCall`
(`ConfirmedOnce`), `NoForgottenCall` (`ConfirmedIsCarriedOut`) and
`NoSearchWithoutConsent` (`SearchesAgreed`), for every set of agents, plans and
tools and any number of turns. None of the three is inductive: whether a call is
covered depends on a mark set two nodes earlier. `IInv` in `ChatTurn` adds that the
graph is suspended exactly while something is asked (`SuspendedIffAsking`), that the
question is new and its agent is at the index (`AskingIsFresh`), that a mark left by
an approval is for the very next call (`PendingIsNext`), that an answer about the
search is used by the next pass of the tools or has nothing to do
(`SearchAnswerIsUsed`, `NotRunYet`), and how calls, decisions and marks add up
(`CallsFollowDecisions`, `SearchesCovered`).

On `IInv` rests a second invariant, `TurnInv` (`TurnInvariant`), about what a turn asks
and who asked: each agent up to the index, and the search, has asked for one approval at
most (`PromptsCounted`); every message taken to an agent that asked is one of the attempts
it counts, and is taken to no other (`AttemptsCounted`); what is asked or about to be
called again was begun in this turn (`InThisTurn`); and as long as the turn has only asked
for missing information, one of those who asked is remembered (`AskerRemembered`,
`ReplyIsOfTurn`). It gives `QuestionsAreBounded` (`QuestionsEnd`) and
`AnswerGoesToAnAsker` (`SomeAskerRemembered`). A third, `OutcomesInv`, follows a completed
outcome until the reply: an agent that completed a call has not failed (`CompletedStand`),
and the chat model answers only where no call was completed (`AnsweredInstead`). It
gives `CompletedAreReported` (`OutcomesReported`) under the hypothesis `DistinctPlans`,
that no plan names an agent twice; without it the theorem is false, as said above.

**`ChatSessionProofs`**: `SessionInvariant`, `WrittenAtMostOnce` (`WrittenOnce`),
`NothingReplayed` (`NeverReplayed`) and `SuspendedUntouched` (`SuspendedStaysPut`), for any
number of threads, messages, requests and confirmations, and whatever is cancelled, lost
or restarted. `WrittenOnce` holds although requests overlap and copies of one state are
run by several of them. What holds it together is that a store, the writes and the
approvals tell one story (`Ledger`): a confirmation was written exactly if it was consumed
from its store, and every state that still has a call to carry out, in a checkpoint, a
request or a thread, names an approved confirmation (`Backed`). The other two are about
setups in which requests do not overlap. They need what the place of a state in the graph
says of its marks (`Positions`), and that the one request in progress stands where its
thread's checkpoint is and has an unused confirmation to carry out (`InTurn`).

**`FacilityBookingProofs`**: `Invariant`, `TypeCorrect`,
`LockPreventsDoubleBooking` (`NoDoubleBooking`) and `Implements`
(`RefinesCalendar`), for any number of users, spaces and requests. The invariant
adds that a transaction past the lock holds the row of its space (`HoldsLock`), so
there is one per space, and that what it is about to save is still free
(`SavingIsFree`): others insert only under the lock it holds, and a cancellation only
frees time. `Implements` shows that `CommitBooking` is a `Take`, `CommitCancel` a
`GiveUp` or a stutter (two cancellations of one booking), and everything else a
stutter.

**`FacilitiesAgentProofs`** begins with the tickets: `Invariant`, `ResolvedAfterWork`
(`ResolvedWasInProgress`) and `FinalIsLostToOverlap` (`FinalLostOnlyToOverlap`), both for any
number of concurrent updates: the second says who it is that a final status is lost to. `DeskMovesTickets` shows that every behaviour of the
conversation, calls that time out and all, is one of `MaintenanceWorkflow` on its
variables; so what is proved of the tickets holds of both together
(`DeskResolvedAfterWork`).

For the conversation, `DeskInvariant` gives `DeskTypeCorrect` (`DeskTypeOK`),
`AskedIsOneRequest` (`PartsOfOneRequest`), `RemembersTheLatest` (`ReferencesAreCurrent`)
and `AskedIsOneProblem` (`TicketOfOneProblem`), for any number of spaces, days, messages
and times to live, and any space and time the planner names (its times are those of
`Planned`, a lemma: whatever it names, what is merged is typed and taken in this turn). The three properties speak of what
stands on the screen; the invariant says the same of everything it can be made of: a draft,
a result, a list or the parts of a ticket belong to one request and are no older than it
(`OfRequest`), and what "that one" stands for is what was answered last (`Remembers`). It
says so twice, of the context that is kept and of the one a turn works on, because a call
that fails throws the second away and leaves the first. A message is followed through
`_dispatch` one step at a time: continuation, abandonment, plan, merge, question.

**`ReportImagesProofs`**: `Invariant`, `TypeCorrect` and `ObjectsHaveOneReport`
(`LinkedOnce`), for any number of requests, reports and keys and under every fault.
Two arguments meet. A staged key is refused by the unique index while a report holds
it, and no creation from staged images holds any other key (`StagingIsStaged`). A key
of `lost-found/` needs no index: it is drawn once, and until its transaction commits
nobody else knows it (`DrawnOnce`). Every action is one of four kinds, each with a
lemma: it links nothing (`QuietStep`), links keys nobody knows (`LinkStep`), ends a
request (`EndPreserves`) or draws a key (`UploadPreserves`).

`QuietInvariant` and `ImagesAreComplete` (`CompleteAtRest`) are about behaviours in which
nothing fails and reports are created with images, again for any number of everything.
`QuietInv` says why an overlap does no harm. What an edit or a deletion has read of a report
is what the report has, or nothing of it is left (`ReadAsAWhole`): so of two edits that
remove the same objects one commits, and the other finds all its rows gone. A report whose
objects are missing is about to be changed by a transaction in progress
(`StoredOrCleared`), hence none is at rest. A staged key is linked by the one creation it
was given to (`StagedOnce`), and the cleanup is after keys that are too old to be given
(`CleansOrphans`). One lemma for each part says what a step must leave alone
(`WholeFrame`, `StagedFrame`, ...), and one for each kind of action puts them together. It was
the attempt to find this invariant that showed the report without images listed above:
the instances checked before had been too small for it.

**`LostFoundProofs`**: `Invariant`, `TypeCorrect` and `ClaimantsAreToldTheTruth`
(`LastWordIsTrue`) for any number of requests at once: whatever a decision overwrites,
it notifies in the same transaction. `ApprovedAreClaimed` (`ClaimedUnlessOvertaken`),
`ClaimsAreSingle` (`OneActiveClaim`) and `DecisionsHold` (`DecisionFinal`) are for any number
of requests at once too, and assume nothing. What they excuse is a report on which an
operation was committed that another had overtaken between its checks and its commit. The
invariant behind them says that of every operation that is not late, what it read still stands
(`Stands`), and of every report that is not raced, that its claims and its status agree. The
run `lost_found_edited` shows that the excuse is needed.

The conversation with the agent has an invariant of its own (`DeskInvariant`), with four
parts: types (`DeskTypes`), confirmations that were asked once and reach the backend once
(`Once`), a context that has of each part nothing older than what was last told well, also
where the merge of the contexts brings a dropped part back (`Latest`), and one that is of the
intent expressed last (`Wanted`). `DeskMakesClaims` shows that a behaviour of the
conversation is one of `LostFoundClaims` on the rows: a claim sent twice is two claims of
any two requests there. Then `DeskTypeCorrect` (`DeskTypeOK`), `ConfirmationsAreSentOnce`
(`SentOnceAsShown`), `AskedIsLatest` (`FieldsAreLatest`) and `AskedIsWanted`
(`WriteIsWanted`); the last two are about steps. `TopicsAssumption` says what a topic is:
messages and guesses that name known parts, each valid or not.

**`MailAgentProofs`** proves three properties of `Spec` of `MailAgent`, for any users,
messages, accounts, requests, times to live and starts (`Case`). Each has its invariant.

- `CopiesAlwaysAgree` (`CopiesAgree`), by `ServiceInv`. That a copy is at most twice its
  time to live old is not inductive. Marking a message read renews its copy without
  fetching it again, so the invariant says when that can happen: a copy still unread was
  never renewed, and a renewal leaves it read (`CopyAgrees`), hence there is one at most. That
  it is of the account the user is bound to rests on the Gmail client being of the token
  (`ClientsBound`); `token[u].over` is the token an OAuth callback wrote over another.
- `ChatAlwaysWritesOnce` (`ChatWritesOnce`), by `ChatInv`. A model that has sent, and to which
  Gmail's answer came back, was told so and sends no more; and the rules work only for a request
  whose agent ended with an error while the adapter waited (`SentOnce`). A request that deletes holds a confirmation that
  is closed, of its own user, not used yet and held by nobody else (`Holds`); afterwards it
  is closed for good (`Used`). What was reported as deleted, or is remembered so for the
  retry, is in the trash, unless someone restored it since (`GoneInv`).
- `CalendarAlwaysKept` (`CalendarKept`), by `CalendarInv`. An import that has read the
  calendar knows every event of it or will know to have missed it (`ImportKnows`), so what
  it inserts repeats nothing it saw. An update that nobody overtook was checked against
  the event as it is now (`UpdateKnows`), so what it writes does not end before it starts. What a
  model proposes ends no earlier than it starts (`ModelsAreSound`), for which the prover
  has to be told that a day ends after its hours (`DayEnds`).

The assumptions say what the constants are: times are numbers, `Null` is none of the
other values, and a start has a mailbox, tokens and requests of the right kind.

**`ChatGatewayProofs`** proves two properties of `GatewaySpec`, the specification the run
checks. `RequestsServedOnce` (`ServedOnce`) is for any number of requests and calls, any
windows with `Window + MaxSkew < NonceTtl`, and any clock. `ServedOnce` is not inductive:
that a request is not let in again rests on its nonce being remembered as long as its
timestamp is good (`Remembered`), which rests on when it was stored (`StoredInTime`: a
timestamp is at most `MaxSkew` after that moment, since a request is sent before it is
stored) and on what is dropped (`DroppedLate`, the only place where the assumption is
used). That a good request is refused only after a damaged copy, or for a clock that was
ahead, rests on what a stored nonce means (`BurntOrServed`) and on who was wronged
(`WrongedExcused`, `Excused`).
For the calls, attempts are sent in order and no more than allowed (`AttemptsInOrder`,
`AttemptsAllowed`).

`StreamSaysOneReply` (`OneReply`) is for any replies, in any order of their tokens and
whatever fails. The text has one source because the four places that may speak exclude
each other through what the code remembers: `chat_streamed` is set exactly when a token of
the model was sent (`OneText`), a node that has spoken ends the graph for the others
(`OneEnd`), and the model in the graph's stead is asked only while nothing was emitted
(`Heard`). `Endings` counts the last events, and says that a stream about to end has said
something unless it is `mute`. That the tokens, put together, are the reply
the model gave is `WholeReply`, which is left to TLC.

Every property proved of all instances is also checked by a run on a small one, but for
`FinalLostOnlyToOverlap` of the tickets and the type invariants of `FacilityBooking`,
`MaintenanceWorkflow` and `LostFoundClaims`; the last two are parts of `DeskTypeOK`. TLC also served to find the invariants before
they were proved; the run `mail` visits the states in which copies are renewed, imports
overlap and the rules take over from the agent, where the first versions of its invariants
failed.

Only model-checked:

- all liveness (`TurnEnds`, `RequestEnds`, `StagedOrphansGo`) and `ENABLED`, which are out
  of the prover's reach;
- `WholeReply`, `ListedAsAsked`, `RateIsBounded` and `BestAreShown`: they are about what
  `FlattenSeq`, `SelectSeq`, `SortSeq` or a sum computes for sequences of any length, which
  takes an induction over data that the installed provers cannot do.

No module declares a `RECURSIVE` operator.

## 5. What a next step would be

1. The embedding status of a report under edits and the backfill job.
2. A composition of the chat session with the agents' conversations: a confirmed booking
   is one reservation of the calendar, whatever the session goes through.

## 6. What is not modelled, and why

- Embeddings and their backfill: the jobs fill in vectors, which only rank matches;
  `LostFoundAgent` ranks by any vectors, so a missing or outdated one is among its inputs.
- The backend's chat relay passes requests and events on; sessions, filters and password
  hashing are the framework's.
- The utility server and policy retrieval answer from their arguments, other services or
  a fixed corpus, and keep nothing.
- What the language model says, parsing of dates and texts, the category of a mail and
  visual fingerprints: data. Where the control depends on such a result it is a
  nondeterministic choice.
- Administration pages, statistics, the rest of the two frontends: reads.
- Cryptography, MySQL, MinIO, Gmail, LangGraph: external. What is assumed of them is said
  with the module that relies on it.
- LangGraph merges the updates of one run at a time per thread; two runs on one thread
  each save their own checkpoints, and the last one written is the one a later request
  loads. That is how `ChatSession` treats them.
