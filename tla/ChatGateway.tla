----------------------------- MODULE ChatGateway -----------------------------
(***************************************************************************)
(* A chat request on its way through the orchestration service: it is let  *)
(* in at a gate, the graph it starts calls agents, and its events go back  *)
(* as a stream.  The three share no state, so a behaviour is about one of  *)
(* them: about one gate, about the calls, or about one stream.             *)
(***************************************************************************)
EXTENDS RequestGate, ReplyStream

CONSTANTS Parts

ASSUME PartsAssumption == Parts \subseteq Gates \cup {"calls", "stream"}

VARIABLE part

gatewayVars == <<part, vars, streamVars>>

GatewayInit ==
  /\ part \in Parts
  /\ Init /\ StreamInit
  /\ part # "calls" => \A v \in Verifiers : known[v] = Null

\* Time passes once something was sent, and a gate restarts at most once: bounds
\* of the runs.
GateStep(g) ==
  \/ \E r \in Requests, skew, mint \in Skews : Send(r, g, skew, mint)
  \/ \E r \in Requests, sound \in BOOLEAN : Deliver(r, sound)
  \/ forgotten = {} /\ GateRestarts(g)
  \/ (\E r \in Requests : sent[r] # Null) /\ Tick

CallStep ==
  \/ CallNext
  \/ (\E c \in Calls : calls[c] # Null) /\ Tick

GatewayNext ==
  /\ UNCHANGED part
  /\ \/ part \in Gates /\ GateStep(part) /\ UNCHANGED streamVars
     \/ part = "calls" /\ CallStep /\ UNCHANGED streamVars
     \/ part = "stream" /\ StreamNext /\ UNCHANGED vars

GatewaySpec == GatewayInit /\ [][GatewayNext]_gatewayVars
=============================================================================
