---------------------------- MODULE MCChatGateway ----------------------------
(***************************************************************************)
(* Small instances of the gateway: two requests at one gate, one call of   *)
(* an agent, or one stream with the replies that make the streams hard to  *)
(* put together.                                                           *)
(***************************************************************************)
EXTENDS ChatGateway, TLC

MCParts == Gates \cup {"calls", "stream"}

Said(deltas, replayed, text) == [deltas |-> deltas, replayed |-> replayed, text |-> text]
Whole(deltas) == Said(deltas, TRUE, FlattenSeq(deltas))

\* The model streams its reply and it is played again; one chunk only; a
\* character cut in two; halves that belong to no character; a first half at the
\* end; a reply that repeats itself; a blank reply; a model that fails at once, or
\* after its first token, where a fixed text takes the reply's place; nothing.
MCReplies ==
  { Whole(<<<<"a">>, <<"b">>>>),
    Whole(<<<<"a">>, <<"b">>, <<"a">>>>),
    Whole(<<<<"a">>>>),
    Whole(<<<<"a", "high">>, <<"low", "b">>>>),
    Whole(<<<<"a", "high", "b">>, <<"low", "c", "high">>>>),
    Whole(<<<<"a">>, <<"a">>>>),
    Whole(<<<<"blank">>>>),
    Said(<<>>, FALSE, <<"t">>),
    Said(<<<<"a">>>>, FALSE, <<"t">>),
    Said(<<>>, FALSE, <<>>) }

MCAggregates == {<<>>, <<"r">>}

\* The last one is a model that fails.
MCDirect == { <<<<"c">>, <<"d">>>>, <<<<"blank">>, <<"c", "high">>, <<"low">>>>, <<>> }

RequestsSame == Permutations(Requests)
=============================================================================
