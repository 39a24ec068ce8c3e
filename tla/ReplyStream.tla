----------------------------- MODULE ReplyStream -----------------------------
(***************************************************************************)
(* The events a user gets of one run of the graph (orchestration/main.py,  *)
(* _sse_stream).  The tokens of chat_responder's model and the updates of  *)
(* the nodes come as two streams side by side: its finished reply may      *)
(* arrive before the tokens it is made of, and LangGraph plays the whole   *)
(* reply once more at the end of the tokens.  The run may fail anywhere,   *)
(* the user may go away, and the model asked in the graph's stead may fail *)
(* too.  A text is a sequence of characters, "high" and "low" the halves   *)
(* of one; events that only report progress (agent_start, ...) change      *)
(* nothing here and are left out, and emitted_error is, which no update    *)
(* ever sets.                                                              *)
(***************************************************************************)
EXTENDS Integers, FiniteSets, SequencesExt

CONSTANTS
  Replies,        \* what chat_responder may do: [deltas, replayed, text]
  Aggregates,     \* what response_aggregator may say
  Direct,         \* what the model may say in the graph's stead: deltas
  Nothing         \* no reply

VARIABLES
  resumes,        \* the run takes up a suspended graph
  node,           \* the node that runs next
  reply,          \* what chat_responder does, or Nothing
  chunks,         \* its tokens on their way
  update,         \* its update is on its way
  emittedContent, chatStreamed, chatBuf, pendingChatReply, pendingSurrogate,
  failed,         \* stream_failed
  mute,           \* history: the model asked in the graph's stead said nothing
  stage,          \* "running", "closing", "direct", "ending", "over", "cancelled"
  out             \* the events sent: [kind, from, text]

flags == <<emittedContent, chatStreamed, chatBuf, pendingChatReply, pendingSurrogate>>
streamVars == <<resumes, node, reply, chunks, update, flags, failed, mute, stage, out>>

-----------------------------------------------------------------------------
\* A half that stands alone is dropped; a first half at the end waits.
Paired(s, i) == s[i] = "high" /\ i < Len(s) /\ s[i + 1] = "low"

JoinSurrogate(s) ==
  LET kept == SelectSeq([i \in DOMAIN s |-> i],
                        LAMBDA i : s[i] \notin {"high", "low"} \/ Paired(s, i))
  IN [text    |-> [n \in DOMAIN kept |-> IF s[kept[n]] = "high" THEN "pair" ELSE s[kept[n]]],
      pending |-> IF s # <<>> /\ Last(s) = "high" THEN <<"high">> ELSE <<>>]

Event(kind, from, text) == [kind |-> kind, from |-> from, text |-> text]
Emit(e) == out' = Append(out, e)
Running == stage = "running"

-----------------------------------------------------------------------------
(* The graph: which node follows which.                                    *)

Successors ==
  [n \in {"intent_router", "agent_invoker", "utility_tool_executor"} |->
     CASE n = "intent_router" -> {"agent_invoker", "utility_tool_executor", "chat_responder"}
       [] n = "agent_invoker" -> {"human_approval", "chat_responder", "response_aggregator"}
       [] n = "utility_tool_executor" ->
            {"human_approval", "agent_invoker", "chat_responder", "response_aggregator"}]

\* An agent that asks for a confirmation is reported so before the graph stops.
RunNode(next) ==
  /\ Running
  /\ node \in DOMAIN Successors /\ next \in Successors[node]
  /\ node' = next
  /\ IF node = "agent_invoker" /\ next = "human_approval"
     THEN Emit(Event("prompt", "agent", <<>>)) ELSE UNCHANGED out
  /\ UNCHANGED <<resumes, reply, chunks, update, flags, failed, mute, stage>>

Interrupt ==
  /\ Running
  /\ node = "human_approval"
  /\ node' = "END"
  /\ Emit(Event("prompt", "interrupt", <<>>))
  /\ emittedContent' = TRUE
  /\ UNCHANGED <<resumes, reply, chunks, update, chatStreamed, chatBuf, pendingChatReply,
                 pendingSurrogate, failed, mute, stage>>

\* The model's tokens, and then all of them again as one.
Respond(x) ==
  /\ Running
  /\ node = "chat_responder"
  /\ reply' = x
  /\ chunks' = x.deltas \o (IF x.replayed THEN <<FlattenSeq(x.deltas)>> ELSE <<>>)
  /\ update' = TRUE
  /\ node' = "END"
  /\ UNCHANGED <<resumes, flags, failed, mute, stage, out>>

\* Mutant: a half of a character is not kept for the next token.
HandleTokenDropsHalf ==
  LET joined == JoinSurrogate(Head(chunks)) IN
  /\ Running /\ chunks # <<>>
  /\ chunks' = Tail(chunks)
  /\ IF joined.text \in {<<>>, chatBuf}
     THEN UNCHANGED <<chatBuf, chatStreamed, emittedContent, out>>
     ELSE /\ chatBuf' = chatBuf \o joined.text
          /\ chatStreamed' = TRUE /\ emittedContent' = TRUE
          /\ Emit(Event("token", "stream", joined.text))
  /\ UNCHANGED <<resumes, node, reply, update, pendingChatReply, pendingSurrogate, failed, mute, stage>>

\* A token that equals all there was before is taken for the whole reply.
HandleToken ==
  LET joined == JoinSurrogate(pendingSurrogate \o Head(chunks)) IN
  /\ Running /\ chunks # <<>>
  /\ chunks' = Tail(chunks)
  /\ pendingSurrogate' = joined.pending
  /\ IF joined.text \in {<<>>, chatBuf}
     THEN UNCHANGED <<chatBuf, chatStreamed, emittedContent, out>>
     ELSE /\ chatBuf' = chatBuf \o joined.text
          /\ chatStreamed' = TRUE /\ emittedContent' = TRUE
          /\ Emit(Event("token", "stream", joined.text))
  /\ UNCHANGED <<resumes, node, reply, update, pendingChatReply, failed, mute, stage>>

\* Mutant: the finished reply is sent as it comes.
HandleUpdateAtOnce ==
  /\ Running /\ update
  /\ update' = FALSE
  /\ emittedContent' = TRUE
  /\ Emit(Event("token", "buffer", reply.text))
  /\ UNCHANGED <<resumes, node, reply, chunks, chatStreamed, chatBuf, pendingChatReply,
                 pendingSurrogate, failed, mute, stage>>

\* The finished reply waits for the end of the stream.
HandleUpdate ==
  /\ Running /\ update
  /\ update' = FALSE
  /\ pendingChatReply' = reply.text
  /\ UNCHANGED <<resumes, node, reply, chunks, emittedContent, chatStreamed, chatBuf,
                 pendingSurrogate, failed, mute, stage, out>>

\* The reply made of the agents' and the tools' results, which may be empty.
Aggregate(text) ==
  /\ Running
  /\ node = "response_aggregator"
  /\ node' = "END"
  /\ IF text = <<>> THEN UNCHANGED <<emittedContent, out>>
     ELSE emittedContent' = TRUE /\ Emit(Event("token", "aggregate", text))
  /\ UNCHANGED <<resumes, reply, chunks, update, chatStreamed, chatBuf, pendingChatReply,
                 pendingSurrogate, failed, mute, stage>>

EndGraph ==
  /\ Running
  /\ node = "END" /\ chunks = <<>> /\ ~update
  /\ stage' = "closing"
  /\ UNCHANGED <<resumes, node, reply, chunks, update, flags, failed, mute, out>>

\* A run that fails and has said nothing leaves the answer to the model.
GraphFails ==
  /\ Running
  /\ failed' = TRUE
  /\ IF ~resumes /\ ~emittedContent
     THEN stage' = "direct" /\ UNCHANGED out
     ELSE stage' = "ending" /\ Emit(Event("error", "stream", <<>>))
  /\ UNCHANGED <<resumes, node, reply, chunks, update, flags, mute>>

\* Mutant: the model is not asked when the graph said nothing.
CloseInSilence ==
  /\ stage = "closing"
  /\ IF ~chatStreamed /\ pendingChatReply # <<>>
     THEN /\ Emit(Event("token", "buffer", pendingChatReply))
          /\ emittedContent' = TRUE
          /\ stage' = "ending"
     ELSE /\ UNCHANGED emittedContent
          /\ IF emittedContent THEN stage' = "ending" /\ UNCHANGED out
             ELSE IF resumes THEN stage' = "ending" /\ Emit(Event("error", "stream", <<>>))
             ELSE stage' = "ending" /\ UNCHANGED out
  /\ UNCHANGED <<resumes, node, reply, chunks, update, chatStreamed, chatBuf, pendingChatReply,
                 pendingSurrogate, failed, mute>>

\* The reply that waited is sent when no token of it was; a run that said
\* nothing at all leaves the answer to the model, or is an error when resumed.
Close ==
  /\ stage = "closing"
  /\ IF ~chatStreamed /\ pendingChatReply # <<>>
     THEN /\ Emit(Event("token", "buffer", pendingChatReply))
          /\ emittedContent' = TRUE
          /\ stage' = "ending"
     ELSE /\ UNCHANGED emittedContent
          /\ IF emittedContent THEN stage' = "ending" /\ UNCHANGED out
             ELSE IF resumes THEN stage' = "ending" /\ Emit(Event("error", "stream", <<>>))
             ELSE stage' = "direct" /\ UNCHANGED out
  /\ UNCHANGED <<resumes, node, reply, chunks, update, chatStreamed, chatBuf, pendingChatReply,
                 pendingSurrogate, failed, mute>>

\* A blank token is skipped; when the model fails, what it said so far stands.
DirectLlmReply(deltas) ==
  LET said == FoldLeft(LAMBDA acc, d :
                IF ToSet(d) \subseteq {"blank"} THEN acc
                ELSE LET joined == JoinSurrogate(acc.pending \o d)
                     IN [text |-> acc.text \o joined.text, pending |-> joined.pending],
                [text |-> <<>>, pending |-> <<>>], deltas).text
  IN /\ stage = "direct"
     /\ stage' = "ending"
     /\ IF said = <<>> THEN mute' = TRUE /\ UNCHANGED out
        ELSE Emit(Event("token", "direct", said)) /\ UNCHANGED mute
     /\ UNCHANGED <<resumes, node, reply, chunks, update, flags, failed>>

End ==
  /\ stage = "ending"
  /\ stage' = "over"
  /\ Emit(Event("done", "stream", <<>>))
  /\ UNCHANGED <<resumes, node, reply, chunks, update, flags, failed, mute>>

\* The client closed the connection: nothing more is sent.
Cancel ==
  /\ stage \in {"running", "closing", "direct", "ending"}
  /\ stage' = "cancelled"
  /\ UNCHANGED <<resumes, node, reply, chunks, update, flags, failed, mute, out>>

-----------------------------------------------------------------------------
StreamInit ==
  /\ resumes \in BOOLEAN
  /\ node \in IF resumes THEN {"agent_invoker", "utility_tool_executor"} ELSE {"intent_router"}
  /\ reply = Nothing
  /\ chunks = <<>> /\ update = FALSE
  /\ emittedContent = FALSE /\ chatStreamed = FALSE
  /\ chatBuf = <<>> /\ pendingChatReply = <<>> /\ pendingSurrogate = <<>>
  /\ failed = FALSE /\ mute = FALSE
  /\ stage = "running"
  /\ out = <<>>

StreamNext ==
  \/ \E next \in {"agent_invoker", "utility_tool_executor", "chat_responder",
                  "human_approval", "response_aggregator"} : RunNode(next)
  \/ Interrupt
  \/ \E x \in Replies : Respond(x)
  \/ HandleToken \/ HandleUpdate
  \/ \E text \in Aggregates : Aggregate(text)
  \/ EndGraph \/ GraphFails \/ Close
  \/ \E deltas \in Direct : DirectLlmReply(deltas)
  \/ End \/ Cancel

-----------------------------------------------------------------------------
Sent(kind) == SelectSeq(out, LAMBDA e : e.kind = kind)
Shown == FlattenSeq([i \in DOMAIN Sent("token") |-> Sent("token")[i].text])

\* Where the events of a kind came from.
From(kind) == {e.from : e \in {x \in ToSet(out) : x.kind = kind}}
Sources == From("token")

\* The user gets one reply: its text comes from one place, and never stands
\* beside a confirmation the graph waits for, unless the run failed before it
\* stopped to wait.  Each stream that is not cut off ends with its only "done",
\* reports an error only when the run failed or was resumed, and says something
\* before the end, unless the model asked in the graph's stead for a new message
\* said nothing. (Then the "done" stands alone: main.py:20-23 promises an error.)
OneReply ==
  /\ Cardinality(Sources) <= 1
  /\ (Sources # {} /\ From("prompt") # {}) => failed /\ From("prompt") = {"agent"}
  /\ stage = "over" =>
        /\ \A i \in DOMAIN out : (out[i].kind = "done") <=> i = Len(out)
        /\ From("error") # {} => failed \/ resumes
        /\ Len(out) > 1 \/ (mute /\ ~resumes)

\* A token of the reply equals all that came before it.
Stutters(x) == \E n \in 2..Len(x.deltas) : x.deltas[n] = FlattenSeq(SubSeq(x.deltas, 1, n - 1))

\* The reply is whole: tokens show what the model said, all of it unless the run
\* failed or was cut off, and each only once (but for a reply that repeats itself
\* from its beginning), and a reply that waited for the end is the finished one.
WholeReply ==
  /\ ("stream" \in Sources /\ ~Stutters(reply)) =>
        LET whole == JoinSurrogate(FlattenSeq(reply.deltas)).text
        IN IF failed \/ stage \in {"running", "cancelled"} THEN IsPrefix(Shown, whole) ELSE Shown = whole
  /\ "buffer" \in Sources => Shown = reply.text
=============================================================================
