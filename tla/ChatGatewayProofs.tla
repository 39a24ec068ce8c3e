--------------------------- MODULE ChatGatewayProofs ---------------------------
(***************************************************************************)
(* Of ChatGateway, for any number of requests and calls, any window, and   *)
(* any replies: a signed request is let in once and an agent's tool runs   *)
(* once for a call (ServedOnce), and the events of a stream make one reply *)
(* (OneReply).                                                             *)
(***************************************************************************)
EXTENDS ChatGateway, FiniteSetTheorems, TLAPS

-----------------------------------------------------------------------------
(* Signed requests and the calls of agents.                                *)

SentRequest == [gate: Gates, at: Int, issued: Int, expires: Int, ahead: BOOLEAN]
Stamps == [second: Nat, tick: Nat]
CallRecord == [agent: Agents, confirmed: BOOLEAN, stage: Stages, attempt: Nat,
               key: Nat, issued: Int, expires: Int]

GateTypes ==
  /\ now \in Nat /\ tick \in Nat
  /\ sent \in [Requests -> SentRequest \cup {Null}]
  /\ nonces \in [Gates -> [Requests -> Stamps \cup {Null}]]
  /\ served \in [Requests -> Nat]

CallTypes ==
  /\ key \in Nat
  /\ known \in [Verifiers -> Nat \cup {Null}]
  /\ calls \in [Calls -> CallRecord \cup {Null}]
  /\ jobs \in [Calls -> [Attempts -> JobStates]]

\* A nonce that is remembered was stored not long before the timestamp of its
\* request, if before it at all.
StoredInTime ==
  \A r \in Requests, g \in Gates : nonces[g][r] # Null =>
    /\ sent[r] # Null
    /\ sent[r].gate = g
    /\ nonces[g][r].second <= now
    /\ sent[r].at <= nonces[g][r].second + MaxSkew

\* Only a clock ahead of the gates' signs with a time that has yet to come.
SentInTime ==
  \A r \in Requests : sent[r] # Null =>
    /\ sent[r].at <= now + MaxSkew
    /\ sent[r].issued > now => sent[r].ahead

\* A request that was let in is remembered as long as its timestamp is good.
Remembered ==
  \A r \in Requests : (served[r] > 0 /\ r \notin forgotten) =>
    /\ sent[r] # Null
    /\ nonces[sent[r].gate][r] # Null \/ now > sent[r].at + Window

\* What is remembered and was not let in was refused after it was stored: for the
\* harm the copy had come to, or for its token.
Excused(r) == r \in burnt \/ sent[r].ahead \/ Expired(r)

BurntOrServed ==
  \A r \in Requests :
    (sent[r] # Null /\ nonces[sent[r].gate][r] # Null /\ served[r] = 0)
      => sent[r].gate \in StoresFirst /\ Excused(r)

WrongedExcused == \A r \in wronged : sent[r] # Null /\ (sent[r].ahead \/ r \in burnt)

BurntFirst == \A r \in burnt : sent[r] # Null /\ sent[r].gate \in StoresFirst

GateInv ==
  /\ GateTypes
  /\ StoredInTime /\ SentInTime /\ Remembered /\ BurntOrServed /\ BurntFirst
  /\ WrongedExcused
  /\ \A r \in Requests : served[r] > 1 => r \in forgotten
  /\ burnt \subseteq Requests

\* Attempts are sent one after the other, and no more than the call allows.
AttemptsInOrder ==
  \A c \in Calls, n \in Attempts : jobs[c][n] # "none" =>
    /\ calls[c] # Null
    /\ n <= calls[c].attempt

AttemptsAllowed == \A c \in Calls : calls[c] # Null => calls[c].attempt <= MaxAttempts(c)

CallInv == CallTypes /\ AttemptsInOrder /\ AttemptsAllowed /\ snubbed = {}

IInv == GateInv /\ CallInv

-----------------------------------------------------------------------------
\* The invariant holds at the start.
LEMMA InitIInv == Init => IInv
<1> SUFFICES ASSUME Init PROVE IInv
  OBVIOUS
<1> USE DEF Init
<1>1. GateTypes
  BY DEF GateTypes
<1>2. StoredInTime /\ SentInTime /\ Remembered /\ BurntOrServed /\ BurntFirst /\ WrongedExcused
  BY DEF StoredInTime, SentInTime, Remembered, BurntOrServed, BurntFirst, WrongedExcused
<1>3. CallTypes
  BY DEF CallTypes, JobStates
<1>4. AttemptsInOrder /\ AttemptsAllowed
  BY DEF AttemptsInOrder, AttemptsAllowed
<1>5. QED
  BY <1>1, <1>2, <1>3, <1>4 DEF IInv, GateInv, CallInv

-----------------------------------------------------------------------------
(* The gates.                                                              *)

\* What is dropped from the nonces belongs to a timestamp that is no longer good.
LEMMA DroppedLate ==
  ASSUME GateTypes, StoredInTime, NEW g \in Gates, NEW r \in Requests,
         nonces[g][r] # Null, Kept(g)[r] = Null
  PROVE  now > sent[r].at + Window
<1> DEFINE t == nonces[g][r]
<1>1. t \in Stamps /\ now \in Nat /\ tick \in Nat
  BY DEF GateTypes
<1>2. ~Fresh(Stamp(g), t)
  BY DEF Kept
<1>3. Stamp(g).second = now /\ Stamp(g).tick \in Nat
  BY <1>1 DEF Stamp
<1>4. now - t.second >= NonceTtl
  BY <1>1, <1>2, <1>3, WindowAssumption, SMTT(30) DEF Fresh, Stamps
<1>5. sent[r] \in SentRequest /\ sent[r].at <= t.second + MaxSkew
  BY DEF StoredInTime, GateTypes
<1>6. QED
  BY <1>1, <1>4, <1>5, WindowAssumption DEF SentRequest, Stamps

\* A request already let in, and not forgotten, is let in no more.
LEMMA NotAgain ==
  ASSUME GateInv, NEW r \in Requests, sent[r] # Null, served[r] > 0, r \notin forgotten,
         InWindow(r)
  PROVE  /\ nonces[sent[r].gate][r] # Null
         /\ Kept(sent[r].gate)[r] # Null
<1>1. sent[r] \in SentRequest /\ now \in Nat
  BY DEF GateInv, GateTypes
<1>2. ~(now > sent[r].at + Window)
  BY <1>1, WindowAssumption DEF InWindow, SentRequest
<1>3. nonces[sent[r].gate][r] # Null
  BY <1>2 DEF GateInv, Remembered
<1>4. QED
  BY <1>1, <1>2, <1>3, DroppedLate DEF GateInv, SentRequest

\* Storing the nonce of a request keeps what is known about the others.
LEMMA StoreKeeps ==
  ASSUME GateInv, NEW r \in Requests, sent[r] # Null,
         nonces' = [nonces EXCEPT ![sent[r].gate] =
                      [Kept(sent[r].gate) EXCEPT ![r] = Stamp(sent[r].gate)]],
         UNCHANGED <<clock, sent, forgotten>>,
         served' \in [Requests -> Nat],
         \A q \in Requests : q # r => served'[q] = served[q],
         served'[r] > 0 \/ (sent[r].gate \in StoresFirst /\ Excused(r)'), burnt \subseteq burnt'
  PROVE  GateTypes' /\ StoredInTime' /\ SentInTime' /\ Remembered' /\ BurntOrServed'
<1> DEFINE g == sent[r].gate
<1>1. g \in Gates /\ sent[r] \in SentRequest
  BY DEF GateInv, GateTypes, SentRequest
<1>2. Stamp(g) \in Stamps /\ Stamp(g).second = now
  BY DEF GateInv, GateTypes, Stamp, Stamps
<1>3. Kept(g) \in [Requests -> Stamps \cup {Null}]
  BY <1>1 DEF GateInv, GateTypes, Kept
<1>4. Stamp(g) # Null
  BY <1>2, NullAssumption DEF Stamps
<1>5. GateTypes'
  BY <1>1, <1>2, <1>3 DEF GateInv, GateTypes, clock
<1>6. \A h \in Gates, q \in Requests :
        nonces'[h][q] = IF h = g /\ q = r THEN Stamp(g)
                        ELSE IF h = g THEN Kept(g)[q] ELSE nonces[h][q]
  BY <1>1, <1>3 DEF GateInv, GateTypes
<1>7. \A q \in Requests : Kept(g)[q] # Null => Kept(g)[q] = nonces[g][q]
  BY DEF Kept
<1>8. StoredInTime'
  <2> SUFFICES ASSUME NEW q \in Requests, NEW h \in Gates, nonces'[h][q] # Null
               PROVE  /\ sent[q] # Null
                      /\ sent[q].gate = h
                      /\ nonces'[h][q].second <= now
                      /\ sent[q].at <= nonces'[h][q].second + MaxSkew
    BY DEF StoredInTime, clock
  <2>1. CASE h = g /\ q = r
    <3>1. nonces'[h][q].second = now
      BY <2>1, <1>1, <1>2, <1>6
    <3>2. sent[r].at <= now + MaxSkew
      BY DEF GateInv, SentInTime
    <3>3. QED
      BY <2>1, <3>1, <3>2 DEF GateInv, GateTypes
  <2>2. CASE ~(h = g /\ q = r)
    <3>1. nonces'[h][q] = nonces[h][q]
      BY <2>2, <1>1, <1>6, <1>7
    <3>2. QED
      BY <3>1 DEF GateInv, StoredInTime
  <2>3. QED
    BY <2>1, <2>2
<1>9. SentInTime'
  BY DEF GateInv, SentInTime, clock
<1>10. Remembered'
  <2> SUFFICES ASSUME NEW q \in Requests, served'[q] > 0, q \notin forgotten
               PROVE  /\ sent[q] # Null
                      /\ nonces'[sent[q].gate][q] # Null \/ now > sent[q].at + Window
    BY DEF Remembered, clock
  <2>1. CASE q = r
    BY <2>1, <1>1, <1>4, <1>6
  <2>2. CASE q # r
    <3>1. sent[q] # Null /\ sent[q] \in SentRequest
      BY <2>2 DEF GateInv, Remembered, GateTypes
    <3>2. nonces[sent[q].gate][q] # Null \/ now > sent[q].at + Window
      BY <2>2 DEF GateInv, Remembered
    <3>3. CASE sent[q].gate = g
      BY <3>1, <3>2, <3>3, <2>2, <1>1, <1>6, DroppedLate DEF GateInv
    <3>4. CASE sent[q].gate # g
      BY <3>1, <3>2, <3>4, <1>6 DEF SentRequest
    <3>5. QED
      BY <3>1, <3>3, <3>4
  <2>3. QED
    BY <2>1, <2>2
<1>11. BurntOrServed'
  <2> SUFFICES ASSUME NEW q \in Requests, sent[q] # Null, nonces'[sent[q].gate][q] # Null,
                      served'[q] = 0
               PROVE  sent[q].gate \in StoresFirst /\ Excused(q)'
    BY DEF BurntOrServed
  <2>1. CASE q = r
    BY <2>1
  <2>2. CASE q # r
    <3>1. sent[q].gate \in Gates
      BY DEF GateInv, GateTypes, SentRequest
    <3>2. nonces[sent[q].gate][q] # Null
      BY <3>1, <2>2, <1>6, <1>7
    <3>3. QED
      BY <3>2, <2>2 DEF GateInv, BurntOrServed, Excused, Expired, clock
  <2>3. QED
    BY <2>1, <2>2
<1>12. QED
  BY <1>5, <1>8, <1>9, <1>10, <1>11

\* A request that was sent has a new nonce, which no gate knows.
LEMMA SendKeeps ==
  ASSUME IInv, NEW r \in Requests, NEW g \in Gates, NEW skew \in Skews, NEW mint \in Skews,
         Send(r, g, skew, mint)
  PROVE  IInv'
<1> USE WindowAssumption DEF Skews
<1> DEFINE new == [gate |-> g, at |-> now + skew, issued |-> now + mint,
                   expires |-> now + mint + TokenTtl, ahead |-> mint > 0]
<1>1. /\ sent[r] = Null /\ sent' = [sent EXCEPT ![r] = new]
      /\ UNCHANGED <<clock, nonces, served, burnt, forgotten, wronged, callVars>>
  BY DEF Send
<1>2. /\ new \in SentRequest /\ new.at <= now + MaxSkew /\ new.gate = g
      /\ new.issued > now => new.ahead
  <2>1. now \in Nat /\ skew \in Int /\ mint \in Int /\ skew <= MaxSkew
    BY DEF IInv, GateInv, GateTypes
  <2>2. /\ new.at = now + skew /\ new.issued = now + mint /\ new.expires = now + mint + TokenTtl
        /\ new.gate = g
    OBVIOUS
  <2>3. mint > 0 => new.ahead
    BY Zenon
  <2>4. new \in SentRequest
    BY <2>1 DEF SentRequest
  <2> HIDE DEF new
  <2>5. QED
    BY <2>1, <2>2, <2>3, <2>4
<1>3. GateTypes'
  BY <1>1, <1>2 DEF IInv, GateInv, GateTypes, clock
<1>4. \A q \in Requests : sent'[q] = IF q = r THEN new ELSE sent[q]
  BY <1>1 DEF IInv, GateInv, GateTypes
<1>5. \A h \in Gates : nonces[h][r] = Null
  BY <1>1 DEF IInv, GateInv, StoredInTime
<1>6. served[r] = 0 \/ r \in forgotten
  BY <1>1 DEF IInv, GateInv, GateTypes, Remembered
<1>7. StoredInTime'
  BY <1>1, <1>4, <1>5 DEF IInv, GateInv, StoredInTime, clock
<1>8. SentInTime'
  BY <1>1, <1>2, <1>4 DEF IInv, GateInv, SentInTime, clock
<1>9. Remembered' /\ BurntOrServed'
  BY <1>1, <1>2, <1>4, <1>5, <1>6
     DEF IInv, GateInv, GateTypes, Remembered, BurntOrServed, Excused, Expired, clock
<1>10. BurntFirst' /\ WrongedExcused'
  BY <1>1, <1>4 DEF IInv, GateInv, BurntFirst, WrongedExcused
<1>11. CallInv'
  BY <1>1 DEF IInv, CallInv, CallTypes, AttemptsInOrder, AttemptsAllowed, MaxAttempts,
              callVars, clock
<1>12. QED
  BY <1>1, <1>3, <1>7, <1>8, <1>9, <1>10, <1>11 DEF IInv, GateInv

\* A gate that refuses without storing anything was right to, or has stored the
\* nonce when it refused another copy.
LEMMA RefuseKeeps ==
  ASSUME GateInv, NEW r \in Requests, sent[r] # Null, NEW sound \in BOOLEAN,
         Refuse(r, sound, FALSE), UNCHANGED <<clock, sent, forgotten, nonces>>,
         (sound /\ InWindow(r) /\ TokenValid(r)) => nonces[sent[r].gate][r] # Null
  PROVE  GateInv'
<1>1. UNCHANGED <<served, burnt>> /\ wronged' \subseteq wronged \cup {r}
  BY DEF Refuse
<1>2. GateTypes' /\ StoredInTime' /\ SentInTime' /\ Remembered' /\ BurntOrServed' /\ BurntFirst'
  BY <1>1 DEF GateInv, GateTypes, StoredInTime, SentInTime, Remembered, BurntOrServed,
              BurntFirst, Excused, Expired, clock
<1>3. WrongedExcused'
  <2>1. CASE sound /\ InWindow(r) /\ ~Expired(r) /\ served[r] = 0
    <3>1. CASE Early(r)
      <4>1. sent[r] \in SentRequest /\ now \in Nat
        BY DEF GateInv, GateTypes
      <4>2. sent[r].ahead
        BY <3>1, <4>1 DEF GateInv, SentInTime, Early, SentRequest
      <4>3. QED
        BY <1>1, <4>2 DEF GateInv, WrongedExcused
    <3>2. CASE ~Early(r)
      <4>1. Excused(r)
        BY <2>1, <3>2 DEF TokenValid, GateInv, BurntOrServed
      <4>2. QED
        BY <1>1, <2>1, <4>1 DEF Excused, GateInv, WrongedExcused
    <3>3. QED
      BY <3>1, <3>2
  <2>2. CASE ~(sound /\ InWindow(r) /\ ~Expired(r) /\ served[r] = 0)
    BY <1>1, <2>2 DEF GateInv, Refuse, WrongedExcused
  <2>3. QED
    BY <2>1, <2>2
<1>4. QED
  BY <1>1, <1>2, <1>3 DEF GateInv

\* What is let in has not been let in before, unless its nonce was forgotten.
LEMMA LetInKeeps ==
  ASSUME GateInv, NEW r \in Requests, sent[r] # Null, InWindow(r),
         nonces[sent[r].gate][r] = Null \/ Kept(sent[r].gate)[r] = Null,
         nonces' = [nonces EXCEPT ![sent[r].gate] =
                      [Kept(sent[r].gate) EXCEPT ![r] = Stamp(sent[r].gate)]],
         LetIn(r), UNCHANGED <<clock, sent, forgotten>>
  PROVE  GateInv'
<1>1. /\ served' = [served EXCEPT ![r] = served[r] + 1]
      /\ UNCHANGED <<burnt, wronged>>
      /\ served \in [Requests -> Nat]
  BY DEF LetIn, GateInv, GateTypes
<1>2. served[r] = 0 \/ r \in forgotten
  BY <1>1, NotAgain
<1>3. /\ served' \in [Requests -> Nat] /\ served'[r] > 0
      /\ \A q \in Requests : q # r => served'[q] = served[q]
  BY <1>1
<1>4. GateTypes' /\ StoredInTime' /\ SentInTime' /\ Remembered' /\ BurntOrServed'
  BY <1>1, <1>3, StoreKeeps
<1>5. \A q \in Requests : served'[q] > 1 => q \in forgotten
  BY <1>1, <1>2, <1>3 DEF GateInv
<1>6. QED
  BY <1>1, <1>4, <1>5 DEF GateInv, BurntFirst, WrongedExcused

\* The gates that store the nonce first.
LEMMA StoringFirstKeeps ==
  ASSUME GateInv, NEW r \in Requests, sent[r] # Null, NEW sound \in BOOLEAN,
         VerifyStoringFirst(r, sound), UNCHANGED <<clock, sent, forgotten>>
  PROVE  GateInv'
<1> DEFINE g == sent[r].gate
<1>1. g \in StoresFirst /\ g \in Gates
  BY DEF VerifyStoringFirst, StoresFirst, Gates
<1>2. CASE /\ ~(InWindow(r) /\ nonces[g][r] = Null)
           /\ Refuse(r, sound, FALSE)
           /\ UNCHANGED nonces
  BY <1>2, RefuseKeeps
<1>3. CASE CheckReplay(g, r) /\ sound /\ TokenValid(r) /\ LetIn(r)
  BY <1>3, LetInKeeps DEF CheckReplay
<1>4. CASE CheckReplay(g, r) /\ ~(sound /\ TokenValid(r)) /\ Refuse(r, sound, TRUE)
  <2>1. /\ UNCHANGED served /\ served \in [Requests -> Nat]
        /\ burnt' = IF sound THEN burnt ELSE burnt \cup {r}
        /\ wronged' \subseteq wronged \cup {r}
        /\ wronged' = wronged \/ (sound /\ ~Expired(r))
    BY <1>4 DEF Refuse, GateInv, GateTypes
  <2>2. sound => sent[r].ahead \/ Expired(r)
    <3>1. sent[r] \in SentRequest /\ now \in Nat
      BY DEF GateInv, GateTypes
    <3>2. QED
      BY <1>4, <3>1 DEF TokenValid, Early, GateInv, SentInTime, SentRequest
  <2>3. Excused(r)'
    BY <2>1, <2>2 DEF Excused, Expired, clock
  <2>4. GateTypes' /\ StoredInTime' /\ SentInTime' /\ Remembered' /\ BurntOrServed'
    BY <1>1, <1>4, <2>1, <2>3, StoreKeeps DEF CheckReplay
  <2>5. BurntFirst' /\ WrongedExcused'
    BY <1>1, <2>1, <2>2 DEF GateInv, BurntFirst, WrongedExcused
  <2>6. QED
    BY <2>1, <2>4, <2>5 DEF GateInv
<1>5. QED
  BY <1>2, <1>3, <1>4 DEF VerifyStoringFirst

\* The lost-and-found gate remembers only what it let in, and refuses a good
\* request only when it remembers it.
LEMMA StoringLastKeeps ==
  ASSUME GateInv, NEW r \in Requests, sent[r] # Null, NEW sound \in BOOLEAN,
         VerifyStoringLast(r, sound), UNCHANGED <<clock, sent, forgotten>>
  PROVE  GateInv'
<1> DEFINE g == sent[r].gate
<1>1. g = "lost_found" /\ g \in Gates
  BY DEF VerifyStoringLast, Gates
<1>2. CASE /\ ~(InWindow(r) /\ sound /\ TokenValid(r))
           /\ Refuse(r, sound, FALSE)
           /\ UNCHANGED nonces
  BY <1>2, RefuseKeeps
<1>3. CASE InWindow(r) /\ Kept(g)[r] = Null /\ Consume(r) /\ LetIn(r)
  BY <1>1, <1>3, LetInKeeps DEF Consume
<1>4. CASE Kept(g)[r] # Null /\ Consume(r) /\ Refuse(r, sound, FALSE)
  <2>1. nonces' = [nonces EXCEPT ![g] = Kept(g)]
    BY <1>1, <1>4 DEF Consume
  <2>2. /\ UNCHANGED <<served, burnt>> /\ wronged' \subseteq wronged \cup {r}
        /\ served[r] # 0 => wronged' = wronged
    BY <1>4 DEF Refuse
  <2>3. nonces[g][r] # Null
    BY <1>4 DEF Kept
  <2>4. served[r] # 0
    BY <1>1, <2>3 DEF GateInv, BurntOrServed, StoresFirst
  <2>5. Kept(g) \in [Requests -> Stamps \cup {Null}]
    BY <1>1 DEF GateInv, GateTypes, Kept
  <2>6. \A h \in Gates, q \in Requests :
          nonces'[h][q] = IF h = g THEN Kept(g)[q] ELSE nonces[h][q]
    BY <1>1, <2>1, <2>5 DEF GateInv, GateTypes
  <2>7. \A q \in Requests : Kept(g)[q] # Null => Kept(g)[q] = nonces[g][q]
    BY DEF Kept
  <2>8. GateTypes'
    BY <1>1, <2>1, <2>2, <2>5 DEF GateInv, GateTypes, clock
  <2>9. StoredInTime' /\ SentInTime'
    BY <2>6, <2>7 DEF GateInv, StoredInTime, SentInTime, clock
  <2>10. Remembered'
    <3> SUFFICES ASSUME NEW q \in Requests, served[q] > 0, q \notin forgotten
                 PROVE  /\ sent[q] # Null
                        /\ nonces'[sent[q].gate][q] # Null \/ now > sent[q].at + Window
      BY <2>2 DEF Remembered, clock
    <3>1. sent[q] # Null /\ sent[q].gate \in Gates
      BY DEF GateInv, Remembered, GateTypes, SentRequest
    <3>2. nonces[sent[q].gate][q] # Null \/ now > sent[q].at + Window
      BY DEF GateInv, Remembered
    <3>3. CASE sent[q].gate = g
      BY <3>1, <3>2, <3>3, <2>6, DroppedLate DEF GateInv
    <3>4. CASE sent[q].gate # g
      BY <3>1, <3>2, <3>4, <2>6
    <3>5. QED
      BY <3>1, <3>3, <3>4
  <2>11. BurntOrServed'
    <3> SUFFICES ASSUME NEW q \in Requests, sent[q] # Null, nonces'[sent[q].gate][q] # Null,
                        served[q] = 0
                 PROVE  sent[q].gate \in StoresFirst /\ Excused(q)
      BY <2>2 DEF BurntOrServed, Excused, Expired, clock
    <3>1. sent[q].gate \in Gates
      BY DEF GateInv, GateTypes, SentRequest
    <3>2. nonces[sent[q].gate][q] # Null
      BY <3>1, <2>6, <2>7
    <3>3. QED
      BY <3>2 DEF GateInv, BurntOrServed
  <2>12. QED
    BY <2>2, <2>4, <2>8, <2>9, <2>10, <2>11 DEF GateInv, BurntFirst, WrongedExcused
<1>5. QED
  BY <1>1, <1>2, <1>3, <1>4 DEF VerifyStoringLast

LEMMA DeliverKeeps ==
  ASSUME IInv, NEW r \in Requests, NEW sound \in BOOLEAN, Deliver(r, sound)
  PROVE  IInv'
<1>1. sent[r] # Null /\ UNCHANGED <<clock, sent, forgotten, callVars>>
  BY DEF Deliver
<1>2. GateInv'
  BY <1>1, StoringFirstKeeps, StoringLastKeeps DEF Deliver, IInv
<1>3. CallInv'
  BY <1>1 DEF IInv, CallInv, CallTypes, AttemptsInOrder, AttemptsAllowed, MaxAttempts, callVars
<1>4. QED
  BY <1>2, <1>3 DEF IInv

\* What a restart forgets is counted among the forgotten.
LEMMA RestartKeeps ==
  ASSUME IInv, NEW g \in Gates, GateRestarts(g)
  PROVE  IInv'
<1>1. /\ forgotten' = forgotten \cup {r \in Requests : nonces[g][r] # Null}
      /\ UNCHANGED <<clock, sent, served, burnt, wronged, callVars>>
  BY DEF GateRestarts
<1>2. \A h \in Gates, r \in Requests : nonces'[h][r] = IF h = g THEN Null ELSE nonces[h][r]
  BY DEF GateRestarts, IInv, GateInv, GateTypes
<1>3. GateTypes'
  BY <1>1 DEF GateRestarts, IInv, GateInv, GateTypes, clock
<1>4. StoredInTime' /\ SentInTime'
  BY <1>1, <1>2 DEF IInv, GateInv, StoredInTime, SentInTime, clock
<1>5. Remembered'
  <2> SUFFICES ASSUME NEW q \in Requests, served[q] > 0, q \notin forgotten'
               PROVE  /\ sent[q] # Null
                      /\ nonces'[sent[q].gate][q] # Null \/ now > sent[q].at + Window
    BY <1>1 DEF Remembered, clock
  <2>1. q \notin forgotten /\ nonces[g][q] = Null
    BY <1>1
  <2>2. sent[q] # Null /\ (nonces[sent[q].gate][q] # Null \/ now > sent[q].at + Window)
    BY <2>1 DEF IInv, GateInv, Remembered
  <2>3. sent[q].gate \in Gates
    BY <2>2 DEF IInv, GateInv, GateTypes, SentRequest
  <2>4. QED
    BY <1>2, <2>1, <2>2, <2>3
<1>6. BurntOrServed'
  <2> SUFFICES ASSUME NEW q \in Requests, sent[q] # Null, nonces'[sent[q].gate][q] # Null,
                      served[q] = 0
               PROVE  sent[q].gate \in StoresFirst /\ Excused(q)
    BY <1>1 DEF BurntOrServed, Excused, Expired, clock
  <2>1. sent[q].gate \in Gates
    BY DEF IInv, GateInv, GateTypes, SentRequest
  <2>2. QED
    BY <1>2, <2>1 DEF IInv, GateInv, BurntOrServed
<1>7. BurntFirst' /\ WrongedExcused'
  BY <1>1 DEF IInv, GateInv, BurntFirst, WrongedExcused
<1>8. CallInv'
  BY <1>1 DEF IInv, CallInv, CallTypes, AttemptsInOrder, AttemptsAllowed, MaxAttempts, callVars
<1>9. QED
  BY <1>1, <1>3, <1>4, <1>5, <1>6, <1>7, <1>8 DEF IInv, GateInv

LEMMA TickKeeps ==
  ASSUME IInv, Tick
  PROVE  IInv'
<1>1. now' \in Nat /\ tick' \in Nat /\ now' >= now
  BY DEF Tick, IInv, GateInv, GateTypes
<1>2. UNCHANGED <<gateVars, callVars>>
  BY DEF Tick
<1>3. GateTypes'
  BY <1>1, <1>2 DEF IInv, GateInv, GateTypes, gateVars
<1>4. StoredInTime'
  <2> SUFFICES ASSUME NEW q \in Requests, NEW h \in Gates, nonces[h][q] # Null
               PROVE  /\ sent[q] # Null
                      /\ sent[q].gate = h
                      /\ nonces[h][q].second <= now'
                      /\ sent[q].at <= nonces[h][q].second + MaxSkew
    BY <1>2 DEF StoredInTime, gateVars
  <2>1. nonces[h][q].second \in Nat /\ now \in Nat
    BY DEF IInv, GateInv, GateTypes, Stamps
  <2>2. QED
    BY <1>1, <2>1 DEF IInv, GateInv, StoredInTime
<1>5. \A q \in Requests : sent[q] # Null =>
        sent[q].at \in Int /\ sent[q].issued \in Int /\ sent[q].expires \in Int
  BY DEF IInv, GateInv, GateTypes, SentRequest
<1>6. SentInTime' /\ Remembered'
  BY <1>1, <1>2, <1>5, WindowAssumption
     DEF IInv, GateInv, GateTypes, SentInTime, Remembered, gateVars
<1>7. \A q \in Requests : (sent[q] # Null /\ Excused(q)) => Excused(q)'
  BY <1>1, <1>2, <1>5 DEF IInv, GateInv, GateTypes, Excused, Expired, gateVars
<1>8. BurntOrServed' /\ BurntFirst' /\ WrongedExcused'
  BY <1>2, <1>7 DEF IInv, GateInv, BurntOrServed, BurntFirst, WrongedExcused, gateVars
<1>9. CallInv'
  BY <1>2 DEF IInv, CallInv, CallTypes, AttemptsInOrder, AttemptsAllowed, MaxAttempts, callVars
<1>10. QED
  BY <1>2, <1>3, <1>4, <1>6, <1>8, <1>9 DEF IInv, GateInv, gateVars

-----------------------------------------------------------------------------
(* The calls.                                                              *)

\* The gates' part of the invariant does not depend on the calls.
LEMMA GateInvKept ==
  ASSUME GateInv, UNCHANGED <<clock, gateVars>>
  PROVE  GateInv'
  BY DEF GateInv, GateTypes, StoredInTime, SentInTime, Remembered, BurntOrServed, BurntFirst,
         WrongedExcused, Excused, Expired, clock, gateVars

LEMMA BeginCallKeeps ==
  ASSUME IInv, NEW c \in Calls, NEW agent \in Agents, NEW confirmed \in BOOLEAN,
         NEW issued \in BOOLEAN, NEW mint \in Skews, BeginCall(c, agent, confirmed, issued, mint)
  PROVE  IInv'
<1> DEFINE new == [agent |-> agent, confirmed |-> confirmed,
                   stage |-> IF issued THEN "waiting" ELSE "failed",
                   attempt |-> 1, key |-> key, issued |-> now + mint,
                   expires |-> now + mint + TokenTtl]
<1>1. /\ calls[c] = Null /\ calls' = [calls EXCEPT ![c] = new]
      /\ jobs' = IF issued THEN [jobs EXCEPT ![c][1] = "sent"] ELSE jobs
      /\ UNCHANGED <<clock, gateVars, key, known, snubbed>>
  BY DEF BeginCall
<1>2. new \in CallRecord /\ new.attempt = 1 /\ new.agent = agent
  BY WindowAssumption DEF IInv, CallInv, CallTypes, GateInv, GateTypes, CallRecord, Stages, Skews
<1>3. \A d \in Calls : calls'[d] = IF d = c THEN new ELSE calls[d]
  BY <1>1 DEF IInv, CallInv, CallTypes
<1> HIDE DEF new
<1>4. new # Null
  BY <1>2, NullAssumption DEF CallRecord
<1>5. CallTypes'
  BY <1>1, <1>2 DEF IInv, CallInv, CallTypes, JobStates, Attempts
<1>6. \A d \in Calls, n \in Attempts :
        jobs'[d][n] # "none" => jobs[d][n] # "none" \/ (d = c /\ n = 1)
  BY <1>1 DEF IInv, CallInv, CallTypes, Attempts
<1>7. AttemptsInOrder'
  BY <1>1, <1>2, <1>3, <1>4, <1>6 DEF IInv, CallInv, AttemptsInOrder
<1>8. AttemptsAllowed'
  BY <1>1, <1>2, <1>3 DEF IInv, CallInv, AttemptsAllowed, MaxAttempts
<1>9. QED
  BY <1>1, <1>5, <1>7, <1>8, GateInvKept DEF IInv, CallInv

\* A verifier that can fetch the keys accepts every good token.
LEMMA VerifiedKeeps ==
  ASSUME IInv, NEW c \in Calls, NEW n \in Attempts, NEW v \in Verifiers,
         NEW reachable \in BOOLEAN, NEW next \in JobStates, jobs[c][n] # "none",
         Verified(v, c, n, reachable, next)
  PROVE  IInv'
<1>1. /\ jobs' = [jobs EXCEPT ![c][n] = IF Good(c, known'[v]) THEN next ELSE "refused"]
      /\ UNCHANGED <<clock, gateVars, key, calls>>
  BY DEF Verified
<1>2. known' \in [Verifiers -> Nat \cup {Null}]
  BY DEF Verified, VerifyToken, IInv, CallInv, CallTypes
<1>3. CallTypes'
  BY <1>1, <1>2 DEF IInv, CallInv, CallTypes, JobStates
<1>4. (reachable /\ Good(c, key)) => Good(c, known'[v])
  BY DEF Verified, VerifyToken, IInv, CallInv, CallTypes
<1>5. snubbed' = {}
  BY <1>4 DEF Verified, IInv, CallInv
<1>6. \A d \in Calls, m \in Attempts : jobs'[d][m] # "none" => jobs[d][m] # "none"
  BY <1>1 DEF IInv, CallInv, CallTypes
<1>7. AttemptsInOrder' /\ AttemptsAllowed'
  BY <1>1, <1>6 DEF IInv, CallInv, AttemptsInOrder, AttemptsAllowed, MaxAttempts
<1>8. QED
  BY <1>1, <1>3, <1>5, <1>7, GateInvKept DEF IInv, CallInv

\* An answer ends the call; a broken connection ends it or begins the next
\* attempt, if one is left.
LEMMA AnswerKeeps ==
  ASSUME IInv, NEW c \in Calls, Answer(c) \/ LoseConnection(c)
  PROVE  IInv'
<1>1. calls[c] # Null /\ calls[c] \in CallRecord
  BY DEF Answer, LoseConnection, IInv, CallInv, CallTypes
<1>2. CASE \E s \in Stages : /\ calls' = [calls EXCEPT ![c].stage = s]
                             /\ UNCHANGED <<clock, gateVars, key, known, jobs, snubbed>>
  <2>1. PICK s \in Stages : calls' = [calls EXCEPT ![c].stage = s]
    BY <1>2
  <2>2. CallTypes'
    BY <1>1, <1>2, <2>1 DEF IInv, CallInv, CallTypes, CallRecord
  <2>3. \A d \in Calls : /\ calls[d] # Null => /\ calls'[d] # Null
                                                /\ calls'[d].attempt = calls[d].attempt
                                                /\ calls'[d].agent = calls[d].agent
                                                /\ calls'[d].confirmed = calls[d].confirmed
                         /\ calls[d] = Null => calls'[d] = Null
    BY <1>1, <2>1, <2>2, NullAssumption DEF IInv, CallInv, CallTypes, CallRecord
  <2>4. AttemptsInOrder' /\ AttemptsAllowed'
    BY <1>2, <2>3 DEF IInv, CallInv, AttemptsInOrder, AttemptsAllowed, MaxAttempts
  <2>5. QED
    BY <1>2, <2>2, <2>4, GateInvKept DEF IInv, CallInv
<1>3. CASE /\ calls[c].attempt < MaxAttempts(c)
           /\ calls' = [calls EXCEPT ![c].attempt = @ + 1]
           /\ jobs' = [jobs EXCEPT ![c][calls[c].attempt + 1] = "sent"]
           /\ UNCHANGED <<clock, gateVars, key, known, snubbed>>
  <2> DEFINE n == calls[c].attempt + 1
             new == [calls[c] EXCEPT !.attempt = n]
  <2>1. /\ new \in CallRecord /\ new.attempt = n /\ new.agent = calls[c].agent
        /\ new.confirmed = calls[c].confirmed /\ n \in Nat
    BY <1>1 DEF CallRecord
  <2>2. new # Null
    BY <2>1, NullAssumption DEF CallRecord
  <2>3. n <= MaxAttempts(c)
    BY <1>1, <1>3 DEF MaxAttempts, CallRecord
  <2>4. \A d \in Calls : calls'[d] = IF d = c THEN new ELSE calls[d]
    BY <1>3 DEF IInv, CallInv, CallTypes
  <2>5. \A d \in Calls, m \in Attempts :
          jobs'[d][m] # "none" => jobs[d][m] # "none" \/ (d = c /\ m = n)
    BY <1>3 DEF IInv, CallInv, CallTypes
  <2>6. CallTypes'
    BY <1>3, <2>1 DEF IInv, CallInv, CallTypes, JobStates
  <2>7. calls[c].attempt \in Nat
    BY <1>1 DEF CallRecord
  <2> HIDE DEF new
  <2>8. AttemptsInOrder'
    <3> SUFFICES ASSUME NEW d \in Calls, NEW m \in Attempts, jobs'[d][m] # "none"
                 PROVE  calls'[d] # Null /\ m <= calls'[d].attempt
      BY DEF AttemptsInOrder
    <3>1. CASE d = c
      BY <3>1, <2>1, <2>2, <2>4, <2>5, <2>7 DEF IInv, CallInv, AttemptsInOrder, Attempts
    <3>2. CASE d # c
      BY <3>2, <2>4, <2>5 DEF IInv, CallInv, AttemptsInOrder
    <3>3. QED
      BY <3>1, <3>2
  <2>9. AttemptsAllowed'
    BY <2>1, <2>3, <2>4 DEF IInv, CallInv, AttemptsAllowed, MaxAttempts
  <2>10. QED
    BY <1>3, <2>6, <2>8, <2>9, GateInvKept DEF IInv, CallInv
<1>4. QED
  BY <1>2, <1>3 DEF Answer, LoseConnection, Stages

LEMMA KeysKeep ==
  ASSUME IInv, KeyChanges \/ (\E v \in Verifiers : KeysLapse(v))
  PROVE  IInv'
<1>1. UNCHANGED <<clock, gateVars, calls, jobs, snubbed>>
  BY DEF KeyChanges, KeysLapse
<1>2. CallTypes'
  BY <1>1 DEF KeyChanges, KeysLapse, IInv, CallInv, CallTypes
<1>3. QED
  BY <1>1, <1>2, GateInvKept
     DEF IInv, CallInv, AttemptsInOrder, AttemptsAllowed, MaxAttempts

-----------------------------------------------------------------------------
\* Every step keeps the invariant.
LEMMA NextKeeps == IInv /\ [Next]_vars => IInv'
<1> SUFFICES ASSUME IInv, [Next]_vars PROVE IInv'
  OBVIOUS
<1>1. CASE GateNext
  BY <1>1, SendKeeps, DeliverKeeps, RestartKeeps DEF GateNext
<1>2. CASE CallNext
  <2>1. ASSUME NEW c \in Calls, NEW n \in Attempts, NEW reachable \in BOOLEAN,
               Admit(c, n, reachable)
        PROVE  IInv'
    BY <2>1, VerifiedKeeps DEF Admit, Verifiers, JobStates
  <2>2. ASSUME NEW c \in Calls, NEW n \in Attempts, NEW reachable \in BOOLEAN,
               RunTool(c, n, reachable)
        PROVE  IInv'
    BY <2>2, VerifiedKeeps DEF RunTool, Verifiers, JobStates
  <2>3. QED
    BY <1>2, <2>1, <2>2, BeginCallKeeps, AnswerKeeps, KeysKeep DEF CallNext
<1>3. CASE Tick
  BY <1>3, TickKeeps
<1>4. CASE UNCHANGED vars
  BY <1>4, GateInvKept
     DEF vars, callVars, IInv, CallInv, CallTypes, AttemptsInOrder, AttemptsAllowed, MaxAttempts
<1>5. QED
  BY <1>1, <1>2, <1>3, <1>4 DEF Next

\* What is let in again was forgotten, and what is wrongly refused was burnt; both
\* attempts of a call run only where a second one is allowed.
LEMMA IInvServes == IInv => ServedOnce
<1> SUFFICES ASSUME IInv PROVE LetInOnce /\ CalledOnce
  BY DEF ServedOnce
<1>1. LetInOnce
  BY DEF IInv, GateInv, BurntFirst, WrongedExcused, LetInOnce
<1>2. ASSUME NEW c \in Calls, \A n \in Attempts : jobs[c][n] = "ran"
      PROVE  calls[c].agent = "lost-found-agent" /\ ~calls[c].confirmed
  <2>1. calls[c] # Null /\ 2 <= calls[c].attempt
    BY <1>2 DEF IInv, CallInv, AttemptsInOrder, Attempts
  <2>2. calls[c].attempt \in Nat /\ calls[c].attempt <= MaxAttempts(c)
    BY <2>1 DEF IInv, CallInv, CallTypes, AttemptsAllowed, CallRecord
  <2>3. QED
    BY <2>1, <2>2 DEF MaxAttempts
<1>3. QED
  BY <1>1, <1>2 DEF CalledOnce, IInv, CallInv

-----------------------------------------------------------------------------
(* The stream.                                                             *)

Stagings == {"running", "closing", "direct", "ending", "over", "cancelled"}

\* Nothing of chat_responder's reply is on its way, waiting or sent.
Silent == chunks = <<>> /\ ~update /\ pendingChatReply = <<>> /\ ~chatStreamed

StreamTypes ==
  /\ out \in Seq(ToSet(out))
  /\ stage \in Stagings
  /\ resumes \in BOOLEAN /\ failed \in BOOLEAN /\ update \in BOOLEAN
  /\ emittedContent \in BOOLEAN /\ chatStreamed \in BOOLEAN
  /\ From("prompt") \subseteq {"agent", "interrupt"}

\* The text has one source at most; what waits for the end, and what the model
\* says in the graph's stead, is sent when the graph is over.
OneText ==
  /\ \E x \in {"stream", "aggregate", "buffer", "direct"} : Sources \subseteq {x}
  /\ Sources \cap {"buffer", "direct"} # {} => stage \in {"ending", "over", "cancelled"}
  /\ ("stream" \in Sources) <=> chatStreamed
  /\ Sources \cap {"aggregate", "buffer"} # {} => From("prompt") = {}

\* Only one of the nodes at the end of the graph has said something.
OneEnd ==
  /\ node # "END" => Silent /\ ~emittedContent
  /\ stage = "closing" => node = "END"
  /\ "aggregate" \in Sources \/ "interrupt" \in From("prompt") => Silent
  /\ From("prompt") # {} => node = "human_approval" \/ "interrupt" \in From("prompt")

\* What was said is remembered, and the model in the graph's stead does not
\* speak after it, nor beside a question unless the run failed.
Heard ==
  /\ (Sources \cap {"stream", "aggregate", "buffer"} # {} \/ "interrupt" \in From("prompt"))
       => emittedContent
  /\ emittedContent => out # <<>>
  /\ stage = "direct" => ~resumes
  /\ (stage = "direct" \/ "direct" \in Sources) =>
        ~emittedContent /\ (From("prompt") # {} => failed)

Endings ==
  /\ stage # "over" => From("done") = {}
  /\ stage = "over" => \A i \in DOMAIN out : (out[i].kind = "done") <=> i = Len(out)
  /\ From("error") # {} => failed \/ resumes
  /\ stage = "ending" => out # <<>> \/ (mute /\ ~resumes)
  /\ stage = "over" => Len(out) > 1 \/ (mute /\ ~resumes)

StreamInv == StreamTypes /\ OneText /\ OneEnd /\ Heard /\ Endings

\* An event that is sent is the last one, and the others stay.
LEMMA Emitted ==
  ASSUME out \in Seq(ToSet(out)), NEW k, NEW f, NEW t, Emit(Event(k, f, t))
  PROVE  /\ out' \in Seq(ToSet(out)') /\ Len(out') = Len(out) + 1 /\ Len(out) \in Nat
         /\ out' # <<>>
         /\ \A i \in DOMAIN out : i \in DOMAIN out' /\ out'[i] = out[i] /\ i # Len(out')
         /\ \A i \in DOMAIN out' : i \in DOMAIN out \/ i = Len(out')
         /\ out'[Len(out')] = Event(k, f, t)
         /\ From(k)' = From(k) \cup {f}
         /\ \A q : q # k => From(q)' = From(q)
<1> DEFINE e == Event(k, f, t)
<1>1. out' = Append(out, e)
  BY DEF Emit
<1>2. e.kind = k /\ e.from = f
  BY DEF Event
<1> HIDE DEF e
<1>3. /\ Len(out) \in Nat /\ Len(out') = Len(out) + 1
      /\ DOMAIN out = 1..Len(out) /\ DOMAIN out' = 1..(Len(out) + 1)
      /\ out'[Len(out) + 1] = e
      /\ \A i \in 1..Len(out) : out'[i] = out[i]
  BY <1>1
<1>4. /\ \A i \in DOMAIN out : i \in DOMAIN out' /\ out'[i] = out[i] /\ i # Len(out')
      /\ \A i \in DOMAIN out' : i \in DOMAIN out \/ i = Len(out')
      /\ Len(out') \in DOMAIN out' /\ out'[Len(out')] = e
  BY <1>3
<1>5. ToSet(out)' = ToSet(out) \cup {e}
  BY <1>4 DEF ToSet
<1>6. out' \in Seq(ToSet(out)') /\ out' # <<>>
  BY <1>1, <1>3, <1>5
<1>7. \A q : From(q)' = From(q) \cup (IF q = k THEN {f} ELSE {})
  BY <1>2, <1>5 DEF From
<1>8. QED
  BY <1>3, <1>4, <1>6, <1>7 DEF e

\* With no event the sources stay.
LEMMA NothingEmitted ==
  ASSUME UNCHANGED out
  PROVE  Len(out') = Len(out) /\ \A q : From(q)' = From(q)
  BY DEF From

LEMMA InitStream == StreamInit => StreamInv
<1> SUFFICES ASSUME StreamInit PROVE StreamInv
  OBVIOUS
<1>1. out = <<>> /\ \A q : From(q) = {}
  BY DEF StreamInit, From, ToSet
<1>2. out \in Seq(ToSet(out)) /\ node # "human_approval" /\ stage = "running"
  BY <1>1 DEF StreamInit
<1>3. StreamTypes
  BY <1>1, <1>2 DEF StreamInit, StreamTypes, Stagings
<1>4. OneText
  BY <1>1 DEF StreamInit, OneText, Sources
<1>5. OneEnd
  BY <1>1, <1>2 DEF StreamInit, OneEnd, Silent, Sources
<1>6. Heard /\ Endings
  BY <1>1, <1>2 DEF StreamInit, Heard, Endings, Sources
<1>7. QED
  BY <1>3, <1>4, <1>5, <1>6 DEF StreamInv

\* A step that sends nothing: what it may change of the rest.
LEMMA SilentStep ==
  ASSUME StreamInv, UNCHANGED <<resumes, out>>, stage # "over", stage' \in Stagings \ {"over"},
         failed' \in BOOLEAN, failed => failed', update' \in BOOLEAN,
         UNCHANGED <<emittedContent, chatStreamed>>,
         OneEnd',
         Sources \cap {"buffer", "direct"} # {} => stage' \in {"ending", "cancelled"},
         stage' = "direct" => ~resumes /\ ~emittedContent /\ (From("prompt") # {} => failed'),
         stage' = "ending" => out # <<>> \/ (mute' /\ ~resumes)
  PROVE  StreamInv'
<1>1. \A q : From(q)' = From(q)
  BY NothingEmitted
<1>2. Sources' = Sources
  BY <1>1 DEF Sources
<1>3. StreamTypes'
  BY <1>1 DEF StreamInv, StreamTypes
<1>4. OneText'
  BY <1>1, <1>2 DEF StreamInv, OneText
<1>5. Heard'
  BY <1>1, <1>2 DEF StreamInv, Heard
<1>6. Endings'
  BY <1>1 DEF StreamInv, Endings
<1>7. QED
  BY <1>3, <1>4, <1>5, <1>6 DEF StreamInv

LEMMA RunNodeKeeps ==
  ASSUME StreamInv, NEW next, RunNode(next)
  PROVE  StreamInv'
<1>1. /\ stage = "running" /\ node \notin {"END", "human_approval"}
      /\ UNCHANGED <<resumes, reply, chunks, update, flags, failed, mute, stage>>
      /\ node' = next
      /\ next # "END"
  BY DEF RunNode, Running, Successors
<1>2. /\ Silent /\ ~emittedContent /\ From("prompt") = {}
      /\ Silent' /\ ~emittedContent'
  BY <1>1 DEF StreamInv, OneEnd, Heard, flags, Silent
<1>3. CASE UNCHANGED out
  <2>1. \A q : From(q)' = From(q)
    BY <1>3, NothingEmitted
  <2>2. OneEnd'
    BY <1>1, <1>2, <2>1 DEF OneEnd
  <2>3. QED
    BY <1>1, <1>2, <1>3, <2>2, SilentStep DEF flags, StreamInv, StreamTypes, OneText, Stagings
<1>4. CASE next = "human_approval" /\ Emit(Event("prompt", "agent", <<>>))
  <2>1. /\ out' \in Seq(ToSet(out)') /\ out' # <<>>
        /\ From("prompt")' = {"agent"} /\ \A q : q # "prompt" => From(q)' = From(q)
    BY <1>2, <1>4, Emitted DEF StreamInv, StreamTypes
  <2>2. Sources' = Sources
    BY <2>1 DEF Sources
  <2>3. StreamTypes'
    BY <1>1, <2>1 DEF StreamInv, StreamTypes, flags
  <2>4. Sources = {}
    BY <1>1, <1>2 DEF StreamInv, OneText, Heard, Silent
  <2>5. OneText' /\ Heard'
    BY <1>1, <1>2, <2>1, <2>2, <2>4 DEF OneText, Heard, Silent
  <2>6. OneEnd'
    BY <1>1, <1>2, <1>4, <2>1, <2>2 DEF OneEnd
  <2>7. Endings'
    BY <1>1, <2>1 DEF StreamInv, Endings
  <2>8. QED
    BY <2>3, <2>5, <2>6, <2>7 DEF StreamInv
<1>5. QED
  BY <1>1, <1>3, <1>4 DEF RunNode

\* The graph stops for an answer before anything was said.
LEMMA InterruptKeeps ==
  ASSUME StreamInv, Interrupt
  PROVE  StreamInv'
<1>1. /\ stage = "running" /\ node = "human_approval" /\ node' = "END"
      /\ Emit(Event("prompt", "interrupt", <<>>)) /\ emittedContent' = TRUE
      /\ UNCHANGED <<resumes, reply, chunks, update, chatStreamed, chatBuf, pendingChatReply,
                     pendingSurrogate, failed, mute, stage>>
  BY DEF Interrupt, Running
<1>2. Silent /\ Silent' /\ ~emittedContent
  BY <1>1 DEF StreamInv, OneEnd, Silent
<1>3. /\ out' \in Seq(ToSet(out)') /\ out' # <<>>
      /\ From("prompt")' = From("prompt") \cup {"interrupt"}
      /\ \A q : q # "prompt" => From(q)' = From(q)
  BY <1>1, Emitted DEF StreamInv, StreamTypes
<1>4. Sources' = {}
  <2>1. Sources = {}
    BY <1>1, <1>2 DEF StreamInv, OneText, Heard, Silent
  <2>2. QED
    BY <1>3, <2>1 DEF Sources
<1>5. StreamTypes'
  BY <1>1, <1>3 DEF StreamInv, StreamTypes
<1>6. OneText' /\ Heard'
  BY <1>1, <1>2, <1>3, <1>4 DEF OneText, Heard, Silent
<1>7. OneEnd'
  BY <1>1, <1>2, <1>3, <1>4 DEF OneEnd
<1>8. Endings'
  BY <1>1, <1>3 DEF StreamInv, Endings
<1>9. QED
  BY <1>5, <1>6, <1>7, <1>8 DEF StreamInv

\* While an answer of chat_responder is on its way, the graph is over and neither
\* a question nor another reply was sent.
LEMMA ReplyAlone ==
  ASSUME StreamInv, stage = "running", ~Silent
  PROVE  /\ node = "END" /\ From("prompt") = {} /\ Sources \subseteq {"stream"}
<1>1. node = "END" /\ "aggregate" \notin Sources /\ "interrupt" \notin From("prompt")
  BY DEF StreamInv, OneEnd
<1>2. From("prompt") = {}
  BY <1>1 DEF StreamInv, OneEnd
<1>3. QED
  BY <1>1, <1>2 DEF StreamInv, OneText

LEMMA RespondKeeps ==
  ASSUME StreamInv, NEW x, Respond(x)
  PROVE  StreamInv'
<1>1. /\ stage = "running" /\ node = "chat_responder" /\ node' = "END" /\ update' = TRUE
      /\ UNCHANGED <<resumes, flags, failed, mute, stage, out>>
  BY DEF Respond, Running
<1>2. /\ From("prompt") = {} /\ "aggregate" \notin Sources
      /\ \A q : From(q)' = From(q)
  BY <1>1, NothingEmitted DEF StreamInv, OneEnd, Heard
<1>3. OneEnd'
  BY <1>1, <1>2 DEF OneEnd, Sources
<1>4. QED
  BY <1>1, <1>3, SilentStep DEF flags, StreamInv, StreamTypes, OneText, Stagings

LEMMA HandleTokenKeeps ==
  ASSUME StreamInv, HandleToken
  PROVE  StreamInv'
<1>1. /\ stage = "running" /\ chunks # <<>>
      /\ UNCHANGED <<resumes, node, update, pendingChatReply, failed, mute, stage>>
  BY DEF HandleToken, Running
<1>2. node = "END" /\ From("prompt") = {} /\ Sources \subseteq {"stream"}
  BY <1>1, ReplyAlone DEF Silent
<1>3. CASE UNCHANGED <<chatBuf, chatStreamed, emittedContent, out>>
  <2>1. \A q : From(q)' = From(q)
    BY <1>3, NothingEmitted
  <2>2. OneEnd'
    BY <1>1, <1>2, <2>1 DEF OneEnd, Sources
  <2>3. QED
    BY <1>1, <1>3, <2>2, SilentStep DEF StreamInv, StreamTypes, OneText, Stagings
<1>4. ASSUME NEW t, Emit(Event("token", "stream", t)), chatStreamed' = TRUE, emittedContent' = TRUE
      PROVE  StreamInv'
  <2>1. /\ out' \in Seq(ToSet(out)') /\ out' # <<>>
        /\ From("token")' = From("token") \cup {"stream"}
        /\ \A q : q # "token" => From(q)' = From(q)
    BY <1>4, Emitted DEF StreamInv, StreamTypes
  <2>2. Sources' = {"stream"}
    BY <1>2, <2>1 DEF Sources
  <2>3. StreamTypes'
    BY <1>1, <1>4, <2>1 DEF StreamInv, StreamTypes
  <2>4. OneText' /\ Heard'
    BY <1>1, <1>2, <1>4, <2>1, <2>2 DEF OneText, Heard
  <2>5. OneEnd'
    BY <1>1, <1>2, <2>1, <2>2 DEF OneEnd
  <2>6. Endings'
    BY <1>1, <2>1 DEF StreamInv, Endings
  <2>7. QED
    BY <2>3, <2>4, <2>5, <2>6 DEF StreamInv
<1>5. QED
  BY <1>3, <1>4 DEF HandleToken

LEMMA HandleUpdateKeeps ==
  ASSUME StreamInv, HandleUpdate
  PROVE  StreamInv'
<1>1. /\ stage = "running" /\ update /\ update' = FALSE
      /\ UNCHANGED <<resumes, node, emittedContent, chatStreamed, failed, mute, stage, out>>
  BY DEF HandleUpdate, Running
<1>2. node = "END" /\ From("prompt") = {} /\ Sources \subseteq {"stream"}
  BY <1>1, ReplyAlone DEF Silent
<1>3. \A q : From(q)' = From(q)
  BY <1>1, NothingEmitted
<1>4. OneEnd'
  BY <1>1, <1>2, <1>3 DEF OneEnd, Sources
<1>5. QED
  BY <1>1, <1>4, SilentStep DEF StreamInv, StreamTypes, OneText, Stagings

\* The aggregated reply comes from a graph that was silent until then.
LEMMA AggregateKeeps ==
  ASSUME StreamInv, NEW text, Aggregate(text)
  PROVE  StreamInv'
<1>1. /\ stage = "running" /\ node = "response_aggregator" /\ node' = "END"
      /\ UNCHANGED <<resumes, reply, chunks, update, chatStreamed, chatBuf, pendingChatReply,
                     pendingSurrogate, failed, mute, stage>>
  BY DEF Aggregate, Running
<1>2. Silent /\ Silent' /\ ~emittedContent /\ From("prompt") = {}
  BY <1>1 DEF StreamInv, OneEnd, Heard, Silent
<1>3. Sources = {}
  BY <1>1, <1>2 DEF StreamInv, OneText, Heard
<1>4. CASE UNCHANGED <<emittedContent, out>>
  <2>1. \A q : From(q)' = From(q)
    BY <1>4, NothingEmitted
  <2>2. OneEnd'
    BY <1>1, <1>2, <2>1 DEF OneEnd
  <2>3. QED
    BY <1>1, <1>3, <1>4, <2>2, SilentStep DEF StreamInv, StreamTypes, Stagings
<1>5. CASE emittedContent' = TRUE /\ Emit(Event("token", "aggregate", text))
  <2>1. /\ out' \in Seq(ToSet(out)') /\ out' # <<>>
        /\ From("token")' = From("token") \cup {"aggregate"}
        /\ \A q : q # "token" => From(q)' = From(q)
    BY <1>5, Emitted DEF StreamInv, StreamTypes
  <2>2. Sources' = {"aggregate"} /\ From("prompt")' = {}
    BY <1>2, <1>3, <2>1 DEF Sources
  <2>3. StreamTypes'
    BY <1>1, <1>5, <2>1 DEF StreamInv, StreamTypes
  <2>4. OneText' /\ Heard'
    BY <1>1, <1>2, <1>5, <2>1, <2>2 DEF OneText, Heard, Silent
  <2>5. OneEnd'
    BY <1>1, <1>2, <2>1, <2>2 DEF OneEnd
  <2>6. Endings'
    BY <1>1, <2>1 DEF StreamInv, Endings
  <2>7. QED
    BY <2>3, <2>4, <2>5, <2>6 DEF StreamInv
<1>6. QED
  BY <1>4, <1>5 DEF Aggregate

LEMMA EndGraphKeeps ==
  ASSUME StreamInv, EndGraph
  PROVE  StreamInv'
<1>1. /\ stage = "running" /\ node = "END" /\ stage' = "closing"
      /\ UNCHANGED <<resumes, node, reply, chunks, update, flags, failed, mute, out>>
  BY DEF EndGraph, Running
<1>2. \A q : From(q)' = From(q)
  BY <1>1, NothingEmitted
<1>3. OneEnd'
  BY <1>1, <1>2 DEF StreamInv, OneEnd, Silent, flags, Sources
<1>4. QED
  BY <1>1, <1>3, SilentStep DEF StreamInv, StreamTypes, OneText, Stagings, flags

LEMMA CancelKeeps ==
  ASSUME StreamInv, Cancel
  PROVE  StreamInv'
<1>1. /\ stage \in {"running", "closing", "direct", "ending"} /\ stage' = "cancelled"
      /\ UNCHANGED <<resumes, node, reply, chunks, update, flags, failed, mute, out>>
  BY DEF Cancel
<1>2. \A q : From(q)' = From(q)
  BY <1>1, NothingEmitted
<1>3. OneEnd'
  BY <1>1, <1>2 DEF StreamInv, OneEnd, Silent, flags, Sources
<1>4. QED
  BY <1>1, <1>3, SilentStep DEF StreamInv, StreamTypes, Stagings, flags

\* An error ends a run that failed, or one that was resumed.
LEMMA ErrorKeeps ==
  ASSUME StreamInv, stage \in {"running", "closing"}, stage' = "ending",
         Emit(Event("error", "stream", <<>>)), failed' \in BOOLEAN, failed => failed',
         failed' \/ resumes,
         UNCHANGED <<resumes, node, chunks, update, emittedContent, chatStreamed, pendingChatReply>>
  PROVE  StreamInv'
<1>1. /\ out' \in Seq(ToSet(out)') /\ out' # <<>>
      /\ \A q : q # "error" => From(q)' = From(q)
  BY Emitted DEF StreamInv, StreamTypes
<1>2. Sources' = Sources /\ From("prompt")' = From("prompt") /\ From("done")' = From("done")
  BY <1>1 DEF Sources
<1>3. StreamTypes'
  BY <1>1, <1>2 DEF StreamInv, StreamTypes, Stagings
<1>4. OneText' /\ OneEnd'
  BY <1>2 DEF StreamInv, OneText, OneEnd, Silent
<1>5. Heard' /\ Endings'
  BY <1>1, <1>2 DEF StreamInv, Heard, Endings
<1>6. QED
  BY <1>3, <1>4, <1>5 DEF StreamInv

LEMMA GraphFailsKeeps ==
  ASSUME StreamInv, GraphFails
  PROVE  StreamInv'
<1>1. /\ stage = "running" /\ failed' = TRUE
      /\ UNCHANGED <<resumes, node, reply, chunks, update, flags, mute>>
  BY DEF GraphFails, Running
<1>2. CASE ~resumes /\ ~emittedContent /\ stage' = "direct" /\ UNCHANGED out
  <2>1. \A q : From(q)' = From(q)
    BY <1>2, NothingEmitted
  <2>2. OneEnd'
    BY <1>1, <1>2, <2>1 DEF StreamInv, OneEnd, Silent, flags, Sources
  <2>3. QED
    BY <1>1, <1>2, <2>2, SilentStep DEF StreamInv, StreamTypes, OneText, Stagings, flags
<1>3. CASE stage' = "ending" /\ Emit(Event("error", "stream", <<>>))
  BY <1>1, <1>3, ErrorKeeps DEF flags
<1>4. QED
  BY <1>2, <1>3 DEF GraphFails

\* At the end of the graph the reply that waited is sent, or somebody else speaks.
LEMMA CloseKeeps ==
  ASSUME StreamInv, Close
  PROVE  StreamInv'
<1>1. /\ stage = "closing" /\ node = "END"
      /\ UNCHANGED <<resumes, node, reply, chunks, update, chatStreamed, chatBuf,
                     pendingChatReply, pendingSurrogate, failed, mute>>
  BY DEF Close, StreamInv, OneEnd
<1>2. CASE /\ ~chatStreamed /\ pendingChatReply # <<>>
           /\ Emit(Event("token", "buffer", pendingChatReply))
           /\ emittedContent' = TRUE /\ stage' = "ending"
  <2>1. /\ "aggregate" \notin Sources /\ From("prompt") = {}
    BY <1>1, <1>2 DEF StreamInv, OneEnd, Silent
  <2>2. Sources = {}
    BY <1>1, <1>2, <2>1 DEF StreamInv, OneText
  <2>3. /\ out' \in Seq(ToSet(out)') /\ out' # <<>>
        /\ From("token")' = From("token") \cup {"buffer"}
        /\ \A q : q # "token" => From(q)' = From(q)
    BY <1>2, Emitted DEF StreamInv, StreamTypes
  <2>4. Sources' = {"buffer"} /\ From("prompt")' = {}
    BY <2>1, <2>2, <2>3 DEF Sources
  <2>5. StreamTypes'
    BY <1>1, <1>2, <2>3 DEF StreamInv, StreamTypes, Stagings
  <2>6. OneText' /\ Heard'
    BY <1>1, <1>2, <2>3, <2>4 DEF OneText, Heard
  <2>7. OneEnd'
    BY <1>1, <1>2, <2>4 DEF OneEnd
  <2>8. Endings'
    BY <1>1, <1>2, <2>3 DEF StreamInv, Endings
  <2>9. QED
    BY <2>5, <2>6, <2>7, <2>8 DEF StreamInv
<1>3. CASE /\ UNCHANGED <<emittedContent, out>>
           /\ \/ emittedContent /\ stage' = "ending"
              \/ ~emittedContent /\ ~resumes /\ stage' = "direct"
  <2>1. \A q : From(q)' = From(q)
    BY <1>3, NothingEmitted
  <2>2. OneEnd'
    BY <1>1, <1>3, <2>1 DEF StreamInv, OneEnd, Silent, Sources
  <2>3. ~emittedContent => From("prompt") = {}
    BY <1>1 DEF StreamInv, OneEnd, Heard
  <2>4. emittedContent => out # <<>>
    BY DEF StreamInv, Heard
  <2>5. QED
    BY <1>1, <1>3, <2>2, <2>3, <2>4, SilentStep DEF StreamInv, StreamTypes, OneText, Stagings
<1>4. CASE /\ UNCHANGED emittedContent /\ resumes /\ stage' = "ending"
           /\ Emit(Event("error", "stream", <<>>))
  BY <1>1, <1>4, ErrorKeeps DEF StreamInv, StreamTypes
<1>5. QED
  BY <1>2, <1>3, <1>4 DEF Close

\* The model in the graph's stead speaks when nothing was said.
LEMMA DirectKeeps ==
  ASSUME StreamInv, NEW deltas, DirectLlmReply(deltas)
  PROVE  StreamInv'
<1>1. /\ stage = "direct" /\ stage' = "ending"
      /\ UNCHANGED <<resumes, node, reply, chunks, update, flags, failed>>
  BY Zenon DEF DirectLlmReply
<1>2. /\ ~resumes /\ ~emittedContent /\ (From("prompt") # {} => failed)
      /\ Sources = {}
  BY <1>1 DEF StreamInv, Heard, OneText
<1>3. CASE mute' = TRUE /\ UNCHANGED out
  <2>1. \A q : From(q)' = From(q)
    BY <1>3, NothingEmitted
  <2>2. OneEnd'
    BY <1>1, <2>1 DEF StreamInv, OneEnd, Silent, flags, Sources
  <2>3. UNCHANGED <<resumes, out>> /\ UNCHANGED <<emittedContent, chatStreamed>>
    BY <1>1, <1>3 DEF flags
  <2>4. stage # "over" /\ stage' \in Stagings \ {"over"}
    BY <1>1 DEF Stagings
  <2>5. failed' \in BOOLEAN /\ (failed => failed') /\ update' \in BOOLEAN
    BY <1>1 DEF StreamInv, StreamTypes
  <2>6. /\ Sources \cap {"buffer", "direct"} # {} => stage' \in {"ending", "cancelled"}
        /\ stage' = "direct" => ~resumes /\ ~emittedContent /\ (From("prompt") # {} => failed')
        /\ stage' = "ending" => out # <<>> \/ (mute' /\ ~resumes)
    BY <1>1, <1>2, <1>3
  <2>7. QED
    BY <2>2, <2>3, <2>4, <2>5, <2>6, SilentStep, Zenon
<1>4. ASSUME NEW t, Emit(Event("token", "direct", t))
      PROVE  StreamInv'
  <2>1. /\ out' \in Seq(ToSet(out)') /\ out' # <<>>
        /\ From("token")' = From("token") \cup {"direct"}
        /\ \A q : q # "token" => From(q)' = From(q)
    BY <1>4, Emitted DEF StreamInv, StreamTypes
  <2>2. Sources' = {"direct"}
    BY <1>2, <2>1 DEF Sources
  <2>3. StreamTypes'
    BY <1>1, <2>1 DEF StreamInv, StreamTypes, Stagings, flags
  <2>4. OneText' /\ Heard'
    BY <1>1, <1>2, <2>1, <2>2 DEF StreamInv, OneText, Heard, flags
  <2>5. OneEnd'
    BY <1>1, <1>2, <2>1, <2>2 DEF StreamInv, OneEnd, Silent, flags
  <2>6. Endings'
    BY <1>1, <2>1 DEF StreamInv, Endings
  <2>7. QED
    BY <2>3, <2>4, <2>5, <2>6 DEF StreamInv
<1>5. QED
  <2>1. (mute' = TRUE /\ UNCHANGED out) \/ \E t : Emit(Event("token", "direct", t))
    BY DEF DirectLlmReply
  <2>2. QED
    BY <1>3, <1>4, <2>1

LEMMA EndKeeps ==
  ASSUME StreamInv, End
  PROVE  StreamInv'
<1>1. /\ stage = "ending" /\ stage' = "over" /\ Emit(Event("done", "stream", <<>>))
      /\ UNCHANGED <<resumes, node, reply, chunks, update, flags, failed, mute>>
  BY DEF End
<1>2. /\ out' \in Seq(ToSet(out)') /\ out' # <<>>
      /\ Len(out') = Len(out) + 1 /\ Len(out) \in Nat
      /\ \A i \in DOMAIN out : i \in DOMAIN out' /\ out'[i] = out[i] /\ i # Len(out')
      /\ \A i \in DOMAIN out' : i \in DOMAIN out \/ i = Len(out')
      /\ out'[Len(out')] = Event("done", "stream", <<>>)
      /\ \A q : q # "done" => From(q)' = From(q)
  BY <1>1, Emitted DEF StreamInv, StreamTypes
<1>3. Sources' = Sources /\ From("prompt")' = From("prompt") /\ From("error")' = From("error")
  BY <1>2 DEF Sources
<1>4. StreamTypes'
  BY <1>1, <1>2, <1>3 DEF StreamInv, StreamTypes, Stagings, flags
<1>5. OneText' /\ OneEnd'
  BY <1>1, <1>3 DEF StreamInv, OneText, OneEnd, Silent, flags
<1>6. Heard'
  BY <1>1, <1>2, <1>3 DEF StreamInv, Heard, flags
<1>7. Endings'
  <2>1. \A i \in DOMAIN out : out[i].kind # "done"
    BY <1>1 DEF StreamInv, Endings, From, ToSet
  <2>2. \A i \in DOMAIN out' : (out'[i].kind = "done") <=> i = Len(out')
    BY <1>2, <2>1 DEF Event
  <2>3. Len(out') > 1 \/ (mute' /\ ~resumes')
    <3>1. Len(out) # 0 \/ (mute /\ ~resumes)
      BY <1>1 DEF StreamInv, Endings, StreamTypes
    <3>2. QED
      BY <1>1, <1>2, <3>1
  <2>4. QED
    BY <1>1, <1>3, <2>2, <2>3 DEF StreamInv, Endings
<1>8. QED
  BY <1>4, <1>5, <1>6, <1>7 DEF StreamInv

LEMMA StreamStepKeeps == StreamInv /\ [StreamNext]_streamVars => StreamInv'
<1> SUFFICES ASSUME StreamInv, [StreamNext]_streamVars PROVE StreamInv'
  OBVIOUS
<1>1. CASE StreamNext
  BY <1>1, RunNodeKeeps, InterruptKeeps, RespondKeeps, HandleTokenKeeps, HandleUpdateKeeps,
     AggregateKeeps, EndGraphKeeps, GraphFailsKeeps, CloseKeeps, DirectKeeps, EndKeeps, CancelKeeps
     DEF StreamNext
<1>2. CASE UNCHANGED streamVars
  <2>1. /\ UNCHANGED <<resumes, node, chunks, update, flags, failed, mute, stage, out>>
    BY <1>2 DEF streamVars
  <2>2. Len(out') = Len(out) /\ (\A q : From(q)' = From(q)) /\ Sources' = Sources
        /\ ToSet(out)' = ToSet(out)
    BY <2>1, NothingEmitted DEF Sources
  <2>3. StreamTypes' /\ OneText' /\ OneEnd'
    BY <2>1, <2>2 DEF StreamInv, StreamTypes, OneText, OneEnd, Silent, flags
  <2>4. Heard' /\ Endings'
    BY <2>1, <2>2 DEF StreamInv, Heard, Endings, flags
  <2>5. QED
    BY <2>3, <2>4 DEF StreamInv
<1>3. QED
  BY <1>1, <1>2

LEMMA InvIsOneReply == StreamInv => OneReply
<1> SUFFICES ASSUME StreamInv PROVE OneReply
  OBVIOUS
<1>1. Cardinality(Sources) <= 1
  <2>1. PICK x : Sources \subseteq {x}
    BY DEF StreamInv, OneText
  <2>2. Sources = {} \/ Sources = {x}
    BY <2>1
  <2>3. Cardinality({}) = 0 /\ Cardinality({x}) = 1
    BY FS_EmptySet, FS_Singleton
  <2>4. QED
    BY <2>2, <2>3
<1>2. ASSUME Sources # {}, From("prompt") # {}
      PROVE  failed /\ From("prompt") = {"agent"}
  <2>1. Sources \cap {"aggregate", "buffer"} = {}
    BY <1>2 DEF StreamInv, OneText
  <2>2. "interrupt" \notin From("prompt") \/ Sources \subseteq {"direct"}
    BY <2>1 DEF StreamInv, OneText, OneEnd, Silent
  <2>3. "interrupt" \notin From("prompt")
    BY <1>2, <2>2 DEF StreamInv, Heard
  <2>4. "direct" \in Sources
    BY <1>2, <2>1, <2>3 DEF StreamInv, OneText, OneEnd, Silent
  <2>5. QED
    BY <1>2, <2>3, <2>4 DEF StreamInv, StreamTypes, Heard
<1>3. QED
  BY <1>1, <1>2 DEF OneReply, StreamInv, Endings

-----------------------------------------------------------------------------
\* A behaviour of the gateway is one of its gates and calls, and one of its stream.
LEMMA PartsOfGateway ==
  /\ GatewayInit => Init /\ StreamInit
  /\ [GatewayNext]_gatewayVars => [Next]_vars /\ [StreamNext]_streamVars
<1>1. GatewayInit => Init /\ StreamInit
  BY DEF GatewayInit
<1>2. ASSUME NEW g \in Gates, GateStep(g) PROVE Next
  BY <1>2 DEF GateStep, Next, GateNext
<1>3. CallStep => Next
  BY DEF CallStep, Next
<1>4. GatewayNext => [Next]_vars /\ [StreamNext]_streamVars
  BY <1>2, <1>3 DEF GatewayNext
<1>5. UNCHANGED gatewayVars => UNCHANGED vars /\ UNCHANGED streamVars
  BY DEF gatewayVars
<1>6. QED
  BY <1>1, <1>4, <1>5

\* For any requests, calls and windows, and for clocks that are off by no more
\* than a nonce is kept beyond the window: the gates let a signed request in once
\* unless a restart forgot it, turn a sound one away only for a token signed by a
\* clock ahead or after a damaged copy where the nonce is stored first, and the
\* tool of an agent runs once for a call that may write.
THEOREM RequestsServedOnce == GatewaySpec => []ServedOnce
<1>1. GatewaySpec => []IInv
  BY PartsOfGateway, InitIInv, NextKeeps, PTL DEF GatewaySpec
<1>2. QED
  BY <1>1, IInvServes, PTL

\* For any replies and whatever fails: the tokens of a stream have one source and
\* stand beside no question the graph waits for, and a stream that is not cut off
\* says something and then its only "done", but for a new message that the model
\* asked in the graph's stead had no word for.
THEOREM StreamSaysOneReply == GatewaySpec => []OneReply
<1>1. GatewaySpec => []StreamInv
  BY PartsOfGateway, InitStream, StreamStepKeeps, PTL DEF GatewaySpec
<1>2. QED
  BY <1>1, InvIsOneReply, PTL
=============================================================================
