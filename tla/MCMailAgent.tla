---------------------------- MODULE MCMailAgent ----------------------------
(* A small instance of the mail agent: the second message is of another    *)
(* account, the last two arrive while the service runs.                    *)
EXTENDS MailAgent, TLC

CONSTANTS u1, u2, r1, r2, r3, i1, i2, k1, k2

MCUsers == {u1, u2}
MCMsgs == 1..5
MCAccountOf == [m \in MCMsgs |-> IF m = 2 THEN "theirs" ELSE "mine"]
MCDayOf == <<3, 3, 4, 5, 5>>
MCSentDayOf == <<1, 3, 4, 3, 5>>

Misses == [whole |-> FALSE, words |-> 0, ratio |-> 0]
MCFields == <<{Misses, [Misses EXCEPT !.ratio = 75]}, {}, {[Misses EXCEPT !.whole = TRUE]},
              {[Misses EXCEPT !.words = 1], [Misses EXCEPT !.ratio = 61]}, {Misses}>>

Inbox == {"INBOX", "UNREAD"}
Bound(a) == [account |-> a, state |-> "valid", over |-> FALSE]
Alone == [u \in MCUsers |-> IF u = u1 THEN Bound("mine") ELSE Null]
Both == [u \in MCUsers |-> Bound(IF u = u1 THEN "mine" ELSE "theirs")]
Box(ms) == [m \in MCMsgs |-> IF m \in ms THEN Inbox ELSE Null]
Asked(a, b, c) == [r \in {r1, r2, r3} |-> CASE r = r1 -> a [] r = r2 -> b [] r = r3 -> c]
Starts(ms, clock, tokens, users, asks) ==
  [box |-> Box(ms), token |-> tokens, clock |-> clock, users |-> users, asks |-> asks,
   threads |-> {i1, i2}, tools |-> {}]
Using(start, tools) == [start EXCEPT !.tools = tools]
NoAsk == Asked("none", "none", "none")

MCCase ==
  [t \in {"reading", "paging", "scanning", "importing", "mending", "editing", "sending", "filing", "deleting", "confirming", "confirmed"} |->
     CASE t = "reading"    -> Starts({1}, 0, Alone, {u1}, NoAsk)
       [] t = "paging"     -> Starts(1..4, 2, Alone, {u1}, NoAsk)
       [] t = "scanning"   -> Starts(1..4, 2, Alone, {u1}, NoAsk)
       [] t = "importing"  -> Starts(MCMsgs, 0, Alone, {u1}, NoAsk)
       [] t = "mending"    -> [Starts(MCMsgs, 0, Alone, {u1}, NoAsk) EXCEPT !.threads = {i1, k1}]
       [] t = "editing"    -> [Starts(MCMsgs, 0, Alone, {u1}, NoAsk) EXCEPT !.threads = {k1, k2}]
       [] t = "sending"    -> Using(Starts({1}, 2, Alone, {u1}, Asked("send", "none", "none")), {"send"})
       [] t = "filing"     -> Using(Starts({1}, 1, Alone, {u1}, Asked("file", "none", "none")), {"file"})
       [] t = "deleting"   -> Using(Starts({1, 3}, 0, Alone, {u1}, Asked("delete", "none", "none")), {"delete"})
       [] t = "confirming" -> Starts({1, 2}, 2, Both, {u1, u2}, Asked("delete", "confirm", "confirm"))
       [] t = "confirmed"  -> Using(Starts({1, 3}, 3, Alone, {u1}, Asked("delete", "confirm", "none")), {"delete"})]

NoPatch == [read |-> Null, starred |-> Null, folder |-> Null]
MCPatches == {[NoPatch EXCEPT !.read = FALSE], [NoPatch EXCEPT !.folder = "inbox"]}
MCLabellings == {{"INBOX", "UNREAD"}, {}}

Query(folder, words, unread, after, before, page, size) ==
  [folder |-> folder, words |-> words, unread |-> unread, starred |-> Null,
   after |-> after, before |-> before, page |-> page, size |-> size]
MCQueries ==
  {Query("inbox", words, Null, Null, Null, page, 1) : words \in {"none", "plain"}, page \in 0..2}
  \cup {Query("inbox", "none", TRUE, Null, Null, 1, 1),
        Query("inbox", "plain", Null, 4, Null, 0, 2), Query("inbox", "none", Null, Null, 4, 0, 2),
        Query("inbox", "none", Null, 4, 5, 1, 1), Query("archived", "none", Null, Null, Null, 0, 2),
        Query("inbox", "operator", Null, Null, Null, 0, 2)}

Line(day, hours) == [day |-> day, hours |-> hours]
MCLines == <<<<Line(4, <<2>>)>>, <<Line(Null, <<>>)>>, <<Line(4, <<2, 1>>), Line(4, <<2>>)>>,
             <<Line(9, <<>>), Line(Null, <<1>>)>>, <<Line(5, <<>>)>>>>
MCTitleOf == [m \in MCMsgs |-> IF m = 5 THEN "exam" ELSE "talk"]
Item(index, title, start, end) ==
  [index |-> index, title |-> title, start |-> start, end |-> end, allDay |-> FALSE]
MCLlmItems == {{}, {Item(1, "talk", 14, 13), Item(0, "exam", 14, Null), Item(0, "exam", 30, 31)}}
When(title, start, end) == [title |-> title, start |-> start, end |-> end]
MCByHand == {When("talk", 14, 15), When("talk", 14, 13)}
MCEventPatches == {When(Null, 15, Null), When(Null, Null, 14)}
Interchangeable == Permutations({k1, k2}) \cup Permutations({i1, i2})
=============================================================================
