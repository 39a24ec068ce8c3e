------------------------------ MODULE MailAgent ------------------------------
(***************************************************************************)
(* The mail agent: the mailbox page's requests and the calendar's over the *)
(* Gmail service and the calendar, and a chat request through the adapter  *)
(* (mcp_servers/mail_server.py), which asks the service's own agent first, *)
(* a model with seven tools (mail_agent/agent.py), and falls back on rules *)
(* of its own when the agent answers with an HTTP error.  The model is not *)
(* modelled: it may use any tool at any moment, whatever it was asked, but *)
(* it does not send again what a tool told it was sent.  topic is the part *)
(* of the agent a behaviour is about, chosen at its start, with its users  *)
(* and, for a chat, what its requests ask for and the tools it looks at.   *)
(***************************************************************************)
EXTENDS GmailService, MailCalendar

CONSTANTS
  Topics,         \* parts of the agent the run looks at
  Case,           \* by topic, where it starts: [box, token, clock, users, asks, threads, tools]
  Patches,        \* changes of the mailbox page: [read, starred, folder]
  Queries,        \* lists asked for
  Labellings,     \* labels a message may be given elsewhere
  Requests,       \* chat requests
  TrashedTtl,     \* seconds a deletion is remembered (_TRASHED_TTL_SECONDS)
  MaxSends,       \* bound of the runs on the mails of one request
  ByHand, EventPatches,   \* events entered and changes of them: [title, start, end]
  Today, Days, MostMessages   \* a scan of the calendar

\* A confirmation: who may give it, what for, and whether it can still be given.
Prompts == [user: Users, mail: Msgs, open: BOOLEAN]

ASSUME LabellingsAssumption == Labellings \subseteq SUBSET Labels
ASSUME CaseAssumption ==
  \A t \in Topics :
    /\ Case[t].box \in [Msgs -> {Null} \cup SUBSET Labels]
    /\ Case[t].token \in [Users -> {Null} \cup Bindings]
    /\ Case[t].clock \in Nat /\ Case[t].users \subseteq Users
    /\ Case[t].asks \in [Requests -> {"none", "send", "file", "delete", "confirm"}]
    /\ Case[t].tools \subseteq {"send", "file", "delete"}
ASSUME RequestsAssumption == Null \notin Requests \cup Prompts
ASSUME ByHandAssumption ==
  \A x \in ByHand : x.start \in Int /\ x.end \in Int

VARIABLES
  topic,
  work,           \* where each chat request is, and what its model was told
  trashedAt,      \* _recently_trashed
  batch,          \* what a bulk deletion has listed and found fresh, or Null
  pending,        \* _PENDING_CONFIRMATION, by the request that asked for it
  confirmed,      \* history: the requests that deleted on a confirmation
  excused         \* history: messages whose deletion failed unseen, or was undone

\* In work, sends counts the mails the model sent, fault says that Gmail's answer
\* to one of them was lost, byRules that the rules sent one, and erred that the
\* agent ended with an error while the adapter waited: these are history.

chatVars == <<work, trashedAt, batch, pending, confirmed, excused>>
vars == <<topic, serviceVars, calendarVars, chatVars>>

Actors == Case[topic].users
Tools == Case[topic].tools
Threads == Case[topic].threads

Idle == [stage |-> "none", ask |-> "none", user |-> Null, of |-> Null, running |-> FALSE,
         told |-> "nothing", gone |-> {}, sends |-> 0, fault |-> FALSE,
         byRules |-> FALSE, erred |-> FALSE]

-----------------------------------------------------------------------------
(* The mailbox page, and Gmail and the accounts outside it.                *)

ReadPage(u, m, out) == GetMessage(u, m, out)
PatchPage(u, m, p, out) == UpdateMessage(u, m, p.read, p.starred, p.folder, out)

Reading ==
  \/ \E u \in Actors, m \in Msgs, out \in Outcomes :
       \/ ReadPage(u, m, out)
       \/ \E p \in Patches : PatchPage(u, m, p, out)
       \/ TrashMessage(u, m, out)
  \/ \E u \in Actors, f \in Flows : OauthUrl(u, f) \/ NotConnected(u, f)
  \/ \E f \in Flows, a \in Accounts, succeeds \in BOOLEAN : ExchangeCode(f, a, succeeds)
  \/ \E u \in Actors : OauthStatus(u) \/ ResetConnection(u)
  \/ \E u \in Actors, state \in {"expired", "revoked"} : TokenEnds(u, state)
  \/ \E m \in Msgs, labels \in Labellings : Here(m) /\ ChangeElsewhere(m, labels)
  \/ Tick

Paging ==
  \/ \E u \in Actors, q \in Queries, fails \in BOOLEAN : ListMessages(u, q, fails)
  \/ \E m \in Msgs, labels \in Labellings : ChangeElsewhere(m, labels)

Scanning ==
  \/ \E u \in Actors, days \in Days, most \in MostMessages, failed \in SUBSET Msgs :
       Cardinality(failed) <= 1 /\ ListRecentMessages(u, Today, days, most, failed)
  \/ \E m \in Msgs, labels \in Labellings : ChangeElsewhere(m, labels)

Scheduling ==
  \/ \E x \in ByHand : CreateEvent(x.title, x.start, x.end)
  \/ \E k \in Editors \cap Threads, e \in events, patch \in EventPatches : BeginUpdate(k, e, patch)
  \/ \E k \in Editors \cap Threads : EndUpdate(k)
  \/ \E e \in events : DeleteEvent(e)
  \/ /\ Importers \cap Threads # {}
     /\ \E u \in Actors :
          LET ms == RecentMessages(u, Today, Max(Days), Max(MostMessages)) IN
          \E mode \in {"auto", "llm", "rules"}, answers \in BOOLEAN, items \in LlmItems :
             /\ answers => mode # "rules"
             /\ items # {} => answers
             /\ Extract(ms, mode, answers, items, Today)
  \/ \E i \in Importers \cap Threads, p, q \in proposals :
       BeginImport(i, <<p>>) \/ BeginImport(i, <<p, q>>)
  \/ \E i \in Importers \cap Threads : EndImport(i)

-----------------------------------------------------------------------------
(* A chat request.  Its stage is "agent" while the adapter waits for the   *)
(* agent, "rules" when it falls back, "deleting" after a confirmation was  *)
(* taken and before the deletion, and "answered".                          *)

At(r, stage) == work' = [work EXCEPT ![r].stage = stage]
Quiet == UNCHANGED <<trashedAt, batch, pending, confirmed, excused>>

\* Every request goes to the agent first, a confirmed one too.
Invoke(r, u, c) ==
  LET ask == Case[topic].asks[r] IN
  /\ work[r].stage = "none" /\ ask # "none"
  /\ (ask = "confirm") = (c # Null)
  /\ c # Null => pending[c] # Null
  /\ work' = [work EXCEPT ![r] = [Idle EXCEPT !.stage = "agent", !.ask = ask, !.user = u,
                                              !.of = c, !.running = TRUE]]
  /\ Quiet
  /\ UNCHANGED serviceVars

\* The agent's run ends with an answer or with an error, whose status sends the
\* adapter to its rules; nobody waits for it when the call timed out before.
RunChat(r, fails) ==
  /\ work[r].running
  /\ work' = [work EXCEPT ![r].running = FALSE,
                          ![r].erred = @ \/ (fails /\ work[r].stage = "agent"),
                          ![r].stage = IF @ # "agent" THEN @
                                       ELSE IF fails THEN "rules" ELSE "answered"]
  /\ batch' = [batch EXCEPT ![r] = Null]
  /\ UNCHANGED <<serviceVars, trashedAt, pending, confirmed, excused>>

\* Mutant: a call that timed out falls back on the rules too.
HandleTimeoutByRules(r) ==
  /\ work[r].stage = "agent"
  /\ At(r, "rules")
  /\ Quiet
  /\ UNCHANGED serviceVars

\* The adapter gives the call up and reports a failure; the agent works on.
HandleAgentTimeout(r) ==
  /\ work[r].stage = "agent"
  /\ At(r, "answered")
  /\ Quiet
  /\ UNCHANGED serviceVars

\* A mail that was sent but cannot be read back is reported as failed.
SendMail(r, m, out) ==
  /\ work[r].running /\ "send" \in Tools
  /\ work[r].told # "sent" /\ work[r].sends < MaxSends
  /\ SendMessage(work[r].user, m, out)
  /\ work' = [work EXCEPT ![r].told = IF out = "done" THEN "sent" ELSE "failed",
                          ![r].sends = IF out = "refused" THEN @ ELSE @ + 1,
                          ![r].fault = @ \/ out \in {"unseen", "lost"}]
  /\ Quiet

\* The rules send too, and do not know what the agent did before its error.
HandleSend(r, m, out) ==
  /\ work[r].stage = "rules" /\ work[r].ask = "send"
  /\ SendMessage(work[r].user, m, out)
  /\ work' = [work EXCEPT ![r].stage = "answered", ![r].byRules = out # "refused"]
  /\ Quiet

IsRecentlyTrashed(u, m) == trashedAt[u][m] # Null /\ now - trashedAt[u][m] <= TrashedTtl
MarkTrashed(u, ms) ==
  trashedAt' = [trashedAt EXCEPT ![u] = [m \in Msgs |-> IF m \in ms THEN now ELSE @[m]]]

ToldGone(r, ms) == work' = [work EXCEPT ![r].gone = @ \cup ms]

\* Only what Gmail reported as deleted is remembered.
MarkAfter(u, m, out) == IF out = "done" THEN MarkTrashed(u, {m}) ELSE UNCHANGED trashedAt

DeleteMail(r, m, out) ==
  LET u == work[r].user IN
  /\ work[r].running /\ "delete" \in Tools
  /\ Reachable(u, m)
  /\ IF IsRecentlyTrashed(u, m)
     THEN /\ out = "done"
          /\ ToldGone(r, {m})
          /\ UNCHANGED <<serviceVars, trashedAt, excused>>
     ELSE /\ TrashMessage(u, m, out)
          /\ MarkAfter(u, m, out)
          /\ IF out = "done" THEN ToldGone(r, {m}) /\ excused' = excused \ {m}
             ELSE UNCHANGED <<work, excused>>
  /\ UNCHANGED <<batch, pending, confirmed>>

\* A bulk deletion lists, leaves out what was deleted just now, and deletes.
ListForBatch(r, ms) ==
  LET u     == work[r].user
      fresh == {m \in ms : ~IsRecentlyTrashed(u, m)} IN
  /\ work[r].running /\ "delete" \in Tools /\ batch[r] = Null
  /\ ms # {} /\ \A m \in ms : Reachable(u, m) /\ "INBOX" \in box[m]
  /\ Calls(u)
  /\ IF fresh = {} THEN ToldGone(r, ms) /\ UNCHANGED batch
     ELSE batch' = [batch EXCEPT ![r] = fresh] /\ UNCHANGED work
  /\ UNCHANGED <<mailbox, cursors, trashedAt, pending, confirmed, excused>>

\* A deletion that raised is reported as failed, though a part of it is done.
DeleteMailBatch(r, answered, moved) ==
  /\ work[r].running /\ batch[r] # Null
  /\ TrashMessages(work[r].user, batch[r], answered, moved)
  /\ IF answered = batch[r]
     THEN /\ MarkTrashed(work[r].user, answered)
          /\ ToldGone(r, answered)
          /\ excused' = (excused \ answered) \cup (answered \ moved)
     ELSE UNCHANGED <<trashedAt, work, excused>>
  /\ batch' = [batch EXCEPT ![r] = Null]
  /\ UNCHANGED <<pending, confirmed>>

\* The other tools, and the adapter's own handlers for the same requests.
FileMail(u, m, out) ==
  \/ ArchiveMessage(u, m, out)
  \/ \E starred \in BOOLEAN : UpdateMessage(u, m, Null, starred, Null, out)
  \/ GetMessage(u, m, out)

UseTool(r, m, out) ==
  /\ work[r].running /\ "file" \in Tools
  /\ FileMail(work[r].user, m, out)
  /\ UNCHANGED work
  /\ Quiet

\* The first message of the inbox that one of the words of the request finds.
SearchFirst(u) == {m \in Msgs : Reachable(u, m) /\ "INBOX" \in box[m]}

HandleFile(r, m, out) ==
  LET u == work[r].user IN
  /\ work[r].stage = "rules" /\ work[r].ask = "file"
  /\ m \in SearchFirst(u)
  /\ FileMail(u, m, out) \/ \E read \in BOOLEAN : UpdateMessage(u, m, read, Null, Null, out)
  /\ At(r, "answered")
  /\ Quiet

HandleDelete(r, m) ==
  LET u == work[r].user IN
  /\ work[r].stage = "rules" /\ work[r].ask = "delete"
  /\ m \in SearchFirst(u)
  /\ Calls(u)
  /\ pending' = [pending EXCEPT ![r] = [user |-> u, mail |-> m, open |-> TRUE]]
  /\ At(r, "answered")
  /\ UNCHANGED <<mailbox, cursors, trashedAt, batch, confirmed, excused>>

\* A request the rules cannot serve: nothing found, or Gmail out of reach.
HandleNothing(r) ==
  /\ work[r].stage = "rules"
  /\ work[r].ask # "confirm"
  /\ At(r, "answered")
  /\ Quiet
  /\ UNCHANGED serviceVars

\* The confirmation is gone for everybody when the first takes it.
Pop(c) == pending' = [pending EXCEPT ![c].open = FALSE]

HandleDeleteConfirm(r) ==
  LET c == work[r].of IN
  /\ work[r].stage = "rules" /\ work[r].ask = "confirm"
  /\ IF pending[c].open THEN Pop(c) ELSE UNCHANGED pending
  /\ At(r, IF pending[c].open /\ pending[c].user = work[r].user THEN "deleting" ELSE "answered")
  /\ UNCHANGED <<serviceVars, trashedAt, batch, confirmed, excused>>

DeleteConfirmed(r, out) ==
  LET c == work[r].of IN
  /\ work[r].stage = "deleting"
  /\ TrashMessage(work[r].user, pending[c].mail, out)
  /\ confirmed' = [confirmed EXCEPT ![c] = @ \cup {[by |-> r, mail |-> pending[c].mail]}]
  /\ At(r, "answered")
  /\ UNCHANGED <<trashedAt, batch, pending, excused>>

\* The adapter restarts: its confirmations are gone and its calls are over.
AdapterRestarts ==
  /\ \E c \in Requests : pending[c] # Null /\ pending[c].open
  /\ pending' = [c \in Requests |-> IF pending[c] = Null THEN Null
                                    ELSE [pending[c] EXCEPT !.open = FALSE]]
  /\ work' = [r \in Requests |-> IF work[r].stage \in {"agent", "rules", "deleting"}
                                 THEN [work[r] EXCEPT !.stage = "answered"] ELSE work[r]]
  /\ UNCHANGED <<serviceVars, trashedAt, batch, confirmed, excused>>

Chatting ==
  \/ \E r \in Requests :
       \/ \E u \in Actors, c \in Requests \cup {Null} : Invoke(r, u, c)
       \/ \E fails \in BOOLEAN : RunChat(r, fails)
       \/ HandleAgentTimeout(r)
       \/ \E m \in Msgs, out \in Outcomes :
            \/ SendMail(r, m, out)
            \/ HandleSend(r, m, out)
            \/ DeleteMail(r, m, out)
            \/ UseTool(r, m, out)
            \/ HandleFile(r, m, out)
       \/ \E ms \in SUBSET {m \in Msgs : Here(m)} : ListForBatch(r, ms)
       \/ /\ batch[r] # Null
          /\ \E answered, moved \in SUBSET batch[r] : DeleteMailBatch(r, answered, moved)
       \/ \E m \in Msgs : HandleDelete(r, m)
       \/ HandleNothing(r)
       \/ HandleDeleteConfirm(r)
       \/ \E out \in Outcomes : DeleteConfirmed(r, out)
  \/ AdapterRestarts
  \/ Tick /\ UNCHANGED chatVars
  \/ \E m \in Msgs, labels \in Labellings :
       /\ Here(m) /\ ChangeElsewhere(m, labels)
       /\ excused' = excused \cup {m}
       /\ UNCHANGED <<work, trashedAt, batch, pending, confirmed>>

-----------------------------------------------------------------------------
Init ==
  /\ topic \in Topics
  /\ ServiceInit(Case[topic].box, Case[topic].token, Case[topic].clock)
  /\ CalendarInit
  /\ work = [r \in Requests |-> Idle]
  /\ trashedAt = [u \in Users |-> [m \in Msgs |-> Null]]
  /\ batch = [r \in Requests |-> Null]
  /\ pending = [r \in Requests |-> Null]
  /\ confirmed = [r \in Requests |-> {}]
  /\ excused = {}

Next ==
  /\ UNCHANGED topic
  /\ \/ topic = "reading" /\ Reading /\ UNCHANGED <<calendarVars, chatVars>>
     \/ topic = "paging" /\ Paging /\ UNCHANGED <<calendarVars, chatVars>>
     \/ topic = "scanning" /\ Scanning /\ UNCHANGED <<calendarVars, chatVars>>
     \/ topic \in {"importing", "mending", "editing"} /\ Scheduling /\ UNCHANGED <<serviceVars, chatVars>>
     \/ topic \in {"sending", "filing", "deleting", "confirming", "confirmed"} /\ Chatting /\ UNCHANGED calendarVars

Spec == Init /\ [][Next]_vars

-----------------------------------------------------------------------------
\* The model sends a second mail only after Gmail's answer to the first got lost
\* on its way, and the rules send only where the agent's service ended with an
\* error while the adapter waited, never because a call timed out: then the agent
\* may have sent before its error, and the request's mail is sent twice.  A
\* confirmation deletes once, the message that was shown, for the user it was
\* shown to, however many times it is given and whatever the agent, which is asked
\* first, does with its tools.  And a message the model was told is deleted is in
\* the trash, unless Gmail failed an item of a bulk deletion, which nobody hears
\* of, or the message was moved elsewhere since.
ChatWritesOnce ==
  /\ \A r \in Requests : /\ work[r].sends > 1 => work[r].fault
                         /\ work[r].byRules => work[r].erred
  /\ \A c \in Requests :
       /\ Cardinality(confirmed[c]) <= 1
       /\ \A d \in confirmed[c] : d.mail = pending[c].mail /\ work[d.by].user = pending[c].user
  /\ \A r \in Requests : \A m \in work[r].gone : "TRASH" \in box[m] \/ m \in excused

\* The documented meaning of a list's dates: "after is inclusive, before is
\* exclusive", so that everything but today is what comes before today.
BeforeIsExclusive ==
  (listed # Null /\ "query" \in DOMAIN listed /\ listed.query.before # Null) =>
    \A m \in ToSet(listed.ids) : DayOf[m] < listed.query.before
=============================================================================
