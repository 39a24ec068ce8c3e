----------------------------- MODULE MCChatTurn -----------------------------
(* Small instances of ChatTurn: plans without and with two agents.         *)
EXTENDS ChatTurn, TLC

CONSTANTS a, b

TwoAgents == {<<>>, <<a>>, <<a, b>>}
=============================================================================
