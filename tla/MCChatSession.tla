---------------------------- MODULE MCChatSession ----------------------------
(* Small instances of ChatSession: one agent, which is called at most once  *)
(* per message.                                                             *)
EXTENDS ChatSession, TLC

CONSTANTS a, t1, t2, t3

OnePlan == {<<>>, <<a>>}

\* The web client, two messages and one request after the other; the mobile
\* client, one message and resumes that overlap.
WebInTurn == {[keepsPrompt |-> FALSE, overlap |-> FALSE, messages |-> 2, confirmations |-> 2]}
SomeSetups ==
  WebInTurn \cup {[keepsPrompt |-> TRUE, overlap |-> TRUE, messages |-> 1, confirmations |-> 1]}

\* Requests differ only in their names.
RequestSymmetry == Permutations(Requests)
=============================================================================
