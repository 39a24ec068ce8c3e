----------------------------- MODULE RequestGate -----------------------------
(***************************************************************************)
(* What lets a request in.  Three gates take requests that are signed and  *)
(* carry a nonce and a timestamp: the orchestration (chat_core/            *)
(* orchestration/security/middleware.py), the agents' shared one (shared/  *)
(* security.py) and the lost-and-found agent's (lost_found_agent/          *)
(* security.py).  The network may deliver a request again, at any time,    *)
(* and a copy of it may have come to harm.  Behind the first gate the      *)
(* orchestration calls an agent over MCP with a delegation token, which    *)
(* the agent's server verifies with a key it has cached, twice             *)
(* (orchestration/mcp/client.py, mcp_servers/security.py).                 *)
(* Time is now, the whole second, and tick, a fraction of it: two gates    *)
(* read the clock in seconds, one exactly.                                 *)
(***************************************************************************)
EXTENDS Integers

CONSTANTS
  Requests,       \* signed requests; each has a nonce of its own
  Calls,          \* calls of an agent
  Window,         \* seconds a timestamp may differ from the gate's clock
  NonceTtl,       \* seconds a nonce is remembered
  TokenTtl,       \* seconds a delegation token is valid
  MaxSkew,        \* how far the clock of a sender may be off, in seconds
  Ticks,          \* fractions of a second
  MaxTime,        \* bound of the runs on time
  MaxKeys,        \* bound of the runs on the signing keys
  Null

Gates == {"orchestration", "agent", "lost_found"}
StoresFirst == {"orchestration", "agent"}
Agents == {"lost-found-agent", "facility-agent"}
Stages == {"waiting", "answered", "failed"}

\* 30, 60 and 30 seconds as configured: a sender's clock may be less than 30
\* seconds ahead.
ASSUME WindowAssumption ==
  /\ Window \in Nat /\ NonceTtl \in Nat /\ TokenTtl \in Nat /\ MaxSkew \in Nat
  /\ Ticks \in Nat \ {0} /\ MaxKeys \in Nat
  /\ Window + MaxSkew < NonceTtl

ASSUME NullAssumption ==
  /\ Null \notin [second: Nat, tick: Nat]
  /\ Null \notin [gate: Gates, at: Int, issued: Int, expires: Int, ahead: BOOLEAN]
  /\ Null \notin [agent: Agents, confirmed: BOOLEAN, stage: Stages, attempt: Nat,
                  key: Nat, issued: Int, expires: Int]
  /\ Null \notin Nat

VARIABLES
  now, tick,
  sent,           \* what was sent, or Null: [gate, at, issued, expires, ahead]
  nonces,         \* _nonce_cache of each gate: when a nonce was stored, or Null
  served,         \* how often a request was let in
  burnt,          \* history: requests a damaged copy of which had its nonce stored
  forgotten,      \* history: requests whose nonce a restart has forgotten
  wronged,        \* history: requests refused although nothing was wrong
  key,            \* the key the token service signs with
  known,          \* the key each verifier has cached, or Null
  calls,          \* calls of the orchestration, or Null
  jobs,           \* their attempts, at the agent's server
  snubbed         \* history: calls refused although their token was good

clock == <<now, tick>>
gateVars == <<sent, nonces, served, burnt, forgotten, wronged>>
callVars == <<key, known, calls, jobs, snubbed>>
vars == <<clock, gateVars, callVars>>


-----------------------------------------------------------------------------
(* Signed requests.                                                        *)

Skews == (-MaxSkew)..MaxSkew

\* The sender's clock stamps the request, and the clock of whoever signed its
\* token the token: for the lost-and-found agent the sender's own, for the other
\* agents the token service's. The orchestration takes no token.
Send(r, g, skew, mint) ==
  /\ sent[r] = Null
  /\ g = "orchestration" => mint = 0
  /\ g = "lost_found" => mint = skew
  /\ sent' = [sent EXCEPT ![r] =
       [gate |-> g, at |-> now + skew, issued |-> now + mint, expires |-> now + mint + TokenTtl,
        ahead |-> mint > 0]]
  /\ UNCHANGED <<clock, nonces, served, burnt, forgotten, wronged, callVars>>

InWindow(r) == sent[r].at - now <= Window /\ now - sent[r].at <= Window
Expired(r) == sent[r].gate # "orchestration" /\ now >= sent[r].expires
Early(r) == sent[r].gate # "orchestration" /\ now < sent[r].issued
TokenValid(r) == ~Expired(r) /\ ~Early(r)

\* The lost-and-found agent stores the exact time.
Stamp(g) == [second |-> now, tick |-> IF g = "lost_found" THEN tick ELSE 0]
Fresh(s, t) == s.second - t.second < NonceTtl \/ (s.second - t.second = NonceTtl /\ s.tick < t.tick)

Kept(g) == [r \in Requests |-> IF nonces[g][r] # Null /\ Fresh(Stamp(g), nonces[g][r])
                               THEN nonces[g][r] ELSE Null]

LetIn(r) ==
  /\ served' = [served EXCEPT ![r] = @ + 1]
  /\ UNCHANGED <<burnt, wronged>>

\* sound: the signature fits the body, and the token names this gate and nonce.
Refuse(r, sound, stored) ==
  /\ burnt' = IF stored /\ ~sound THEN burnt \cup {r} ELSE burnt
  /\ wronged' = IF sound /\ InWindow(r) /\ ~Expired(r) /\ served[r] = 0
                THEN wronged \cup {r} ELSE wronged
  /\ UNCHANGED served

\* Mutant: nonces are remembered as long as a timestamp may differ.
CheckReplayShort(g, r) ==
  /\ InWindow(r)
  /\ nonces[g][r] = Null
  /\ nonces' = [nonces EXCEPT ![g] = [q \in Requests |->
                  IF q = r THEN Stamp(g)
                  ELSE IF nonces[g][q] # Null /\ now - nonces[g][q].second < Window
                       THEN nonces[g][q] ELSE Null]]

\* A stored nonce is looked for before the old ones are dropped.
CheckReplay(g, r) ==
  /\ InWindow(r)
  /\ nonces[g][r] = Null
  /\ nonces' = [nonces EXCEPT ![g] = [Kept(g) EXCEPT ![r] = Stamp(g)]]

\* The orchestration and the shared gate: the nonce is stored first, and what
\* is then refused for its signature or token has used it up.
VerifyStoringFirst(r, sound) ==
  LET g == sent[r].gate IN
  /\ g \in StoresFirst
  /\ \/ /\ ~(InWindow(r) /\ nonces[g][r] = Null)
        /\ Refuse(r, sound, FALSE)
        /\ UNCHANGED nonces
     \/ /\ CheckReplay(g, r)
        /\ IF sound /\ TokenValid(r) THEN LetIn(r) ELSE Refuse(r, sound, TRUE)

\* The lost-and-found agent: the nonce is consumed last.
Consume(r) ==
  nonces' = [nonces EXCEPT !["lost_found"] =
               IF Kept("lost_found")[r] = Null THEN [Kept("lost_found") EXCEPT ![r] = Stamp("lost_found")]
               ELSE Kept("lost_found")]

VerifyStoringLast(r, sound) ==
  /\ sent[r].gate = "lost_found"
  /\ \/ /\ ~(InWindow(r) /\ sound /\ TokenValid(r))
        /\ Refuse(r, sound, FALSE)
        /\ UNCHANGED nonces
     \/ /\ InWindow(r) /\ sound /\ TokenValid(r)
        /\ Consume(r)
        /\ IF Kept("lost_found")[r] = Null THEN LetIn(r) ELSE Refuse(r, sound, FALSE)

Deliver(r, sound) ==
  /\ sent[r] # Null
  /\ VerifyStoringFirst(r, sound) \/ VerifyStoringLast(r, sound)
  /\ UNCHANGED <<clock, sent, forgotten, callVars>>

\* The nonces are in memory.
GateRestarts(g) ==
  /\ nonces' = [nonces EXCEPT ![g] = [r \in Requests |-> Null]]
  /\ forgotten' = forgotten \cup {r \in Requests : nonces[g][r] # Null}
  /\ UNCHANGED <<clock, sent, served, burnt, wronged, callVars>>

Tick ==
  /\ now < MaxTime
  /\ IF tick + 1 < Ticks THEN tick' = tick + 1 /\ now' = now ELSE tick' = 0 /\ now' = now + 1
  /\ UNCHANGED <<gateVars, callVars>>

-----------------------------------------------------------------------------
(* Calls of an agent.                                                      *)

Verifiers == {"middleware", "tool"}
Attempts == {1, 2}
JobStates == {"none", "sent", "admitted", "ran", "refused"}

\* The token service signs the token, by its own clock, or the call is given up.
BeginCall(c, agent, confirmed, issued, mint) ==
  /\ calls[c] = Null
  /\ calls' = [calls EXCEPT ![c] =
       [agent |-> agent, confirmed |-> confirmed, stage |-> IF issued THEN "waiting" ELSE "failed",
        attempt |-> 1, key |-> key, issued |-> now + mint, expires |-> now + mint + TokenTtl]]
  /\ jobs' = IF issued THEN [jobs EXCEPT ![c][1] = "sent"] ELSE jobs
  /\ UNCHANGED <<clock, gateVars, key, known, snubbed>>

\* Only what writes nothing yet is tried again.
MaxAttempts(c) == IF calls[c].agent = "lost-found-agent" /\ ~calls[c].confirmed THEN 2 ELSE 1

Good(c, k) == k = calls[c].key /\ calls[c].issued <= now /\ now < calls[c].expires

\* Mutant: the keys are not fetched anew.
VerifyTokenCached(v, c, reachable) ==
  known' = [known EXCEPT ![v] = IF @ = Null /\ reachable THEN key ELSE @]

\* A cached key is used first, or else fetched; any failure fetches the keys
\* anew and tries once more.
VerifyToken(v, c, reachable) ==
  LET fetched == IF reachable THEN key ELSE Null
      first   == IF known[v] = Null THEN fetched ELSE known[v]
  IN known' = [known EXCEPT ![v] = IF Good(c, first) THEN first ELSE fetched]

\* The server's middleware admits a request, and the tool verifies it again.
Verified(v, c, n, reachable, next) ==
  /\ VerifyToken(v, c, reachable)
  /\ jobs' = [jobs EXCEPT ![c][n] = IF Good(c, known'[v]) THEN next ELSE "refused"]
  /\ snubbed' = IF reachable /\ Good(c, key) /\ ~Good(c, known'[v])
                THEN snubbed \cup {c} ELSE snubbed
  /\ UNCHANGED <<clock, gateVars, key, calls>>

Admit(c, n, reachable) ==
  /\ jobs[c][n] = "sent"
  /\ Verified("middleware", c, n, reachable, "admitted")

RunTool(c, n, reachable) ==
  /\ jobs[c][n] = "admitted"
  /\ Verified("tool", c, n, reachable, "ran")

Answer(c) ==
  /\ calls[c] # Null /\ calls[c].stage = "waiting"
  /\ jobs[c][calls[c].attempt] \in {"ran", "refused"}
  /\ calls' = [calls EXCEPT ![c].stage =
                 IF jobs[c][calls[c].attempt] = "ran" THEN "answered" ELSE "failed"]
  /\ UNCHANGED <<clock, gateVars, key, known, jobs, snubbed>>

\* The connection breaks or the call times out; the attempt may go on.
LoseConnection(c) ==
  /\ calls[c] # Null /\ calls[c].stage = "waiting"
  /\ IF calls[c].attempt < MaxAttempts(c)
     THEN /\ calls' = [calls EXCEPT ![c].attempt = @ + 1]
          /\ jobs' = [jobs EXCEPT ![c][calls[c].attempt + 1] = "sent"]
     ELSE /\ calls' = [calls EXCEPT ![c].stage = "failed"]
          /\ UNCHANGED jobs
  /\ UNCHANGED <<clock, gateVars, key, known, snubbed>>

\* The backend restarts without its key files and signs with a new key; a
\* verifier's keys lapse, or its server restarts.
KeyChanges ==
  /\ key < MaxKeys
  /\ key' = key + 1
  /\ UNCHANGED <<clock, gateVars, known, calls, jobs, snubbed>>

KeysLapse(v) ==
  /\ known[v] # Null
  /\ known' = [known EXCEPT ![v] = Null]
  /\ UNCHANGED <<clock, gateVars, key, calls, jobs, snubbed>>

-----------------------------------------------------------------------------
Init ==
  /\ now = 0 /\ tick = 0
  /\ sent = [r \in Requests |-> Null]
  /\ nonces = [g \in Gates |-> [r \in Requests |-> Null]]
  /\ served = [r \in Requests |-> 0]
  /\ burnt = {} /\ forgotten = {} /\ wronged = {}
  /\ key = 0
  /\ known \in [Verifiers -> {Null, 0}]
  /\ calls = [c \in Calls |-> Null]
  /\ jobs = [c \in Calls |-> [n \in Attempts |-> "none"]]
  /\ snubbed = {}

GateNext ==
  \/ \E r \in Requests, g \in Gates, skew, mint \in Skews : Send(r, g, skew, mint)
  \/ \E r \in Requests, sound \in BOOLEAN : Deliver(r, sound)
  \/ \E g \in Gates : GateRestarts(g)

CallNext ==
  \/ \E c \in Calls, agent \in Agents, confirmed, issued \in BOOLEAN, mint \in Skews :
       BeginCall(c, agent, confirmed, issued, mint)
  \/ \E c \in Calls, n \in Attempts, reachable \in BOOLEAN :
       Admit(c, n, reachable) \/ RunTool(c, n, reachable)
  \/ \E c \in Calls : Answer(c) \/ LoseConnection(c)
  \/ KeyChanges
  \/ \E v \in Verifiers : KeysLapse(v)

Next == GateNext \/ CallNext \/ Tick

Spec == Init /\ [][Next]_vars

-----------------------------------------------------------------------------
\* However often the network delivers a signed request, its gate lets it in once,
\* unless a restart has forgotten its nonce. And a sound copy whose timestamp is
\* in the window and whose token lives, none of which was let in, is turned away
\* for two reasons only: its token was signed by a clock ahead of the gate's, or
\* its nonce was stored for a copy that had come to harm, at a gate that does so
\* before it looks at the signature. (Both gates that do so list the signature
\* first: chat_core/orchestration/security/middleware.py:3-6, shared/security.py:3-8.)
LetInOnce ==
  /\ \A r \in Requests : served[r] > 1 => r \in forgotten
  /\ \A r \in wronged : sent[r].ahead \/ (r \in burnt /\ sent[r].gate \in StoresFirst)

\* Of one call of an agent the tool runs once, although connections break and
\* attempts outlive them, unless it is an unconfirmed call of the lost-and-found
\* agent; and a good token of the current key is accepted, whatever is cached.
CalledOnce ==
  /\ \A c \in Calls : (\A n \in Attempts : jobs[c][n] = "ran")
                      => calls[c].agent = "lost-found-agent" /\ ~calls[c].confirmed
  /\ snubbed = {}

\* A request has its effect once: signed requests at their gates, and the calls
\* the orchestration makes for them at the agents.
ServedOnce == LetInOnce /\ CalledOnce
=============================================================================
