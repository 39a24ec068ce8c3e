--------------------------- MODULE MailAgentProofs ---------------------------
(***************************************************************************)
(* Safety of the mail agent for any users, messages, accounts, requests    *)
(* and lifetimes: what is kept of Gmail agrees with it, a chat request     *)
(* writes once, and the calendar holds no schedule twice.                  *)
(***************************************************************************)
EXTENDS MailAgent, FiniteSetTheorems, TLAPS

(***************************************************************************)
(* The bindings and the copies                                             *)
(***************************************************************************)

\* A copy that was made, and when.
MadeCopy(c) ==
  /\ c = [labels |-> c.labels, at |-> c.at, born |-> c.born, account |-> c.account,
          stale |-> c.stale]
  /\ c.at \in Nat /\ c.born \in Nat

\* What is kept for each user and each message.
PerMessage(f) == f = [u \in Users |-> [m \in Msgs |-> f[u][m]]]

ServiceTypes ==
  /\ box \in [Msgs -> {Null} \cup SUBSET Labels]
  /\ token \in [Users -> {Null} \cup Bindings]
  /\ client = [u \in Users |-> client[u]]
  /\ PerMessage(copies)
  /\ now \in Nat

\* The client is the one of the account the user is bound to.
ClientsBound ==
  \A u \in Users : client[u] # Null => token[u] # Null /\ client[u] = token[u].account

\* What is true of copy c of message m that user u holds: it is younger than a
\* lifetime, it was renewed once at most and then is read, and it agrees with
\* Gmail and with the binding.
CopyAgrees(u, m, c) ==
  /\ MadeCopy(c)
  /\ c.born <= c.at /\ c.at <= now /\ now - c.at <= Ttl /\ c.at - c.born <= Ttl
  /\ "UNREAD" \in c.labels => c.born = c.at
  /\ c.stale \/ c.labels = box[m]
  /\ token[u] # Null
  /\ c.account = token[u].account \/ token[u].over

AllCopiesAgree ==
  \A u \in Users, m \in Msgs : copies[u][m] # Null => CopyAgrees(u, m, copies[u][m])

ServiceInv == ServiceTypes /\ ClientsBound /\ AllCopiesAgree

\* It says what the run checks.
LEMMA ServiceInvAgrees == ServiceInv => CopiesAgree
<1> SUFFICES ASSUME ServiceInv, NEW u \in Users
             PROVE  /\ client[u] # Null => token[u] # Null /\ client[u] = token[u].account
                    /\ \A m \in Msgs :
                         LET copy == CachedCopy(u, m) IN
                         copy # Null =>
                           /\ copy.stale \/ copy.labels = box[m]
                           /\ now - copy.born <= 2 * Ttl
                           /\ token[u] # Null
                           /\ copy.account = token[u].account \/ token[u].over
  BY DEF CopiesAgree
<1>1. client[u] # Null => token[u] # Null /\ client[u] = token[u].account
  BY DEF ServiceInv, ClientsBound
<1>2. ASSUME NEW m \in Msgs, CachedCopy(u, m) # Null
      PROVE  LET copy == CachedCopy(u, m) IN
             /\ copy.stale \/ copy.labels = box[m]
             /\ now - copy.born <= 2 * Ttl
             /\ token[u] # Null
             /\ copy.account = token[u].account \/ token[u].over
  <2>1. copies[u][m] # Null /\ CachedCopy(u, m) = copies[u][m]
    BY <1>2 DEF CachedCopy
  <2>2. CopyAgrees(u, m, copies[u][m])
    BY <2>1 DEF ServiceInv, AllCopiesAgree
  <2>3. QED
    BY <2>1, <2>2, TimesAssumption DEF CopyAgrees, MadeCopy, ServiceInv, ServiceTypes
<1>3. QED
  BY <1>1, <1>2

\* A change that a copy is told of leaves the rest of it.
LEMMA MarkedStale ==
  ASSUME NEW c, MadeCopy(c), NEW d, d = [c EXCEPT !.stale = TRUE]
  PROVE  /\ MadeCopy(d) /\ d.stale
         /\ d.labels = c.labels /\ d.at = c.at /\ d.born = c.born /\ d.account = c.account
<1>1. d = [labels |-> c.labels, at |-> c.at, born |-> c.born, account |-> c.account,
           stale |-> TRUE]
  BY DEF MadeCopy
<1>2. QED
  BY <1>1 DEF MadeCopy

LEMMA MarkedRead ==
  ASSUME NEW c, MadeCopy(c), now \in Nat,
         NEW d, d = [c EXCEPT !.labels = @ \ {"UNREAD"}, !.at = now]
  PROVE  /\ MadeCopy(d) /\ d.labels = c.labels \ {"UNREAD"} /\ d.at = now
         /\ d.born = c.born /\ d.account = c.account /\ d.stale = c.stale
<1>1. d = [labels |-> c.labels \ {"UNREAD"}, at |-> now, born |-> c.born,
           account |-> c.account, stale |-> c.stale]
  BY DEF MadeCopy
<1>2. QED
  BY <1>1 DEF MadeCopy

\* A binding may be renewed, or bound over, but not lost.
BindingsStay ==
  \A u \in Users : token[u] # Null =>
    /\ token'[u] # Null
    /\ token'[u].account = token[u].account \/ token'[u].over
    /\ token[u].over => token'[u].over

\* What a step may make of a copy.
CopyStep(u, m) ==
  LET c == copies[u][m]
      d == copies'[u][m]
  IN \/ d = Null
     \/ d = c /\ box'[m] = box[m]
     \/ c # Null /\ d = [c EXCEPT !.stale = TRUE]
     \/ /\ token'[u] # Null
        /\ d = [labels |-> box'[m], at |-> now, born |-> now,
                account |-> token'[u].account, stale |-> FALSE]
     \/ /\ c # Null /\ "UNREAD" \in c.labels
        /\ d = [c EXCEPT !.labels = @ \ {"UNREAD"}, !.at = now]
        /\ box'[m] = box[m] \ {"UNREAD"}

\* A step of this kind that takes no time keeps the copies in agreement.
LEMMA CopiesFollow ==
  ASSUME ServiceInv, BindingsStay, now' = now, \A u \in Users, m \in Msgs : CopyStep(u, m)
  PROVE  AllCopiesAgree'
<1> SUFFICES ASSUME NEW u \in Users, NEW m \in Msgs, copies'[u][m] # Null
             PROVE  CopyAgrees(u, m, copies[u][m])'
  BY DEF AllCopiesAgree
<1> DEFINE c == copies[u][m]
           d == copies'[u][m]
<1>1. CopyStep(u, m)
  OBVIOUS
<1>2. c # Null => CopyAgrees(u, m, c)
  BY DEF ServiceInv, AllCopiesAgree
<1>3. now \in Nat /\ Ttl \in Nat
  BY TimesAssumption DEF ServiceInv, ServiceTypes
<1>4. token[u] # Null =>
        /\ token'[u] # Null
        /\ token'[u].account = token[u].account \/ token'[u].over
        /\ token[u].over => token'[u].over
  BY DEF BindingsStay
<1> HIDE DEF c, d
<1> SUFFICES CopyAgrees(u, m, c)'
  BY DEF c
<1>5. d = c' /\ d # Null
  BY DEF c, d
<1>6. CASE d = c /\ box'[m] = box[m]
  BY <1>2, <1>4, <1>5, <1>6 DEF CopyAgrees, MadeCopy
<1>7. CASE c # Null /\ d = [c EXCEPT !.stale = TRUE]
  <2>1. /\ MadeCopy(d) /\ d.stale
        /\ d.labels = c.labels /\ d.at = c.at /\ d.born = c.born /\ d.account = c.account
    BY <1>2, <1>7, MarkedStale DEF CopyAgrees
  <2>2. QED
    BY <1>2, <1>4, <1>5, <1>7, <2>1 DEF CopyAgrees, MadeCopy
<1>8. CASE /\ token'[u] # Null
           /\ d = [labels |-> box'[m], at |-> now, born |-> now,
                   account |-> token'[u].account, stale |-> FALSE]
  BY <1>3, <1>5, <1>8 DEF CopyAgrees, MadeCopy
<1>9. CASE /\ c # Null /\ "UNREAD" \in c.labels
           /\ d = [c EXCEPT !.labels = @ \ {"UNREAD"}, !.at = now]
           /\ box'[m] = box[m] \ {"UNREAD"}
  <2>1. /\ MadeCopy(d) /\ d.labels = c.labels \ {"UNREAD"} /\ d.at = now
        /\ d.born = c.born /\ d.account = c.account /\ d.stale = c.stale
    BY <1>2, <1>3, <1>9, MarkedRead DEF CopyAgrees
  <2>2. QED
    BY <1>2, <1>3, <1>4, <1>5, <1>9, <2>1 DEF CopyAgrees, MadeCopy
<1>10. QED
  BY <1>1, <1>5, <1>6, <1>7, <1>8, <1>9 DEF CopyStep, c, d

\* Time passes over the copies that are still young, changed in Gmail or not.
LEMMA CopiesAge ==
  ASSUME ServiceInv, UNCHANGED token, now' = now + 1,
         \A u \in Users, m \in Msgs :
           \/ copies'[u][m] = Null
           \/ /\ copies[u][m] # Null /\ now + 1 - copies[u][m].at <= Ttl
              /\ \/ copies'[u][m] = copies[u][m] /\ box'[m] = box[m]
                 \/ copies'[u][m] = [copies[u][m] EXCEPT !.stale = TRUE]
  PROVE  AllCopiesAgree'
<1> SUFFICES ASSUME NEW u \in Users, NEW m \in Msgs, copies'[u][m] # Null
             PROVE  CopyAgrees(u, m, copies[u][m])'
  BY DEF AllCopiesAgree
<1> DEFINE c == copies[u][m]
           d == copies'[u][m]
<1>1. /\ c # Null /\ now + 1 - c.at <= Ttl
      /\ (d = c /\ box'[m] = box[m]) \/ d = [c EXCEPT !.stale = TRUE]
  OBVIOUS
<1>2. CopyAgrees(u, m, c)
  BY <1>1 DEF ServiceInv, AllCopiesAgree
<1>3. now \in Nat /\ Ttl \in Nat
  BY TimesAssumption DEF ServiceInv, ServiceTypes
<1> HIDE DEF c, d
<1> SUFFICES CopyAgrees(u, m, c)'
  BY DEF c
<1>4. d = c' /\ d # Null
  BY DEF c, d
<1>5. CASE d = c /\ box'[m] = box[m]
  BY <1>1, <1>2, <1>3, <1>4, <1>5 DEF CopyAgrees, MadeCopy
<1>6. CASE d = [c EXCEPT !.stale = TRUE]
  <2>1. /\ MadeCopy(d) /\ d.stale
        /\ d.labels = c.labels /\ d.at = c.at /\ d.born = c.born /\ d.account = c.account
    BY <1>2, <1>6, MarkedStale DEF CopyAgrees
  <2>2. QED
    BY <1>1, <1>2, <1>3, <1>4, <2>1 DEF CopyAgrees, MadeCopy
<1>7. QED
  BY <1>1, <1>5, <1>6

\* A call is made with the client of the user's account and leaves the bindings.
LEMMA CallStep ==
  ASSUME ServiceInv, NEW u \in Users, Service(u)
  PROVE  /\ token' \in [Users -> {Null} \cup Bindings]
         /\ client' = [v \in Users |-> client'[v]]
         /\ ClientsBound'
         /\ BindingsStay
         /\ token'[u] # Null /\ token'[u].account = ClientOf(u)
<1> DEFINE b == token[u]
           r == [b EXCEPT !.state = "valid"]
<1>1. /\ b # Null /\ token' = [token EXCEPT ![u] = r]
      /\ client' = [client EXCEPT ![u] = ClientOf(u)]
  BY DEF Service, LoadCredentials
<1>2. b \in Bindings
  BY <1>1 DEF ServiceInv, ServiceTypes
<1>3. r \in Bindings /\ r.account = b.account /\ r.over = b.over
  BY <1>2 DEF Bindings
<1>4. r # Null
  BY <1>3, NullAssumption
<1>5. ClientOf(u) = b.account
  BY <1>1 DEF ClientOf, ServiceInv, ClientsBound
<1> HIDE DEF b, r
<1>6. token \in [Users -> {Null} \cup Bindings] /\ client = [v \in Users |-> client[v]]
  BY DEF ServiceInv, ServiceTypes
<1>7. /\ token' \in [Users -> {Null} \cup Bindings]
      /\ \A v \in Users : token'[v] = IF v = u THEN r ELSE token[v]
  BY <1>1, <1>3, <1>6
<1>8. /\ client' = [v \in Users |-> client'[v]]
      /\ \A v \in Users : client'[v] = IF v = u THEN ClientOf(u) ELSE client[v]
  BY <1>1, <1>6
<1>9. ClientsBound'
  BY <1>3, <1>4, <1>5, <1>7, <1>8 DEF ServiceInv, ClientsBound
<1>10. BindingsStay
  BY <1>3, <1>4, <1>7 DEF BindingsStay, b
<1>11. QED
  BY <1>3, <1>4, <1>5, <1>7, <1>8, <1>9, <1>10

\* The copies of one message, told of a change elsewhere.
LEMMA OutdatedCopies ==
  ASSUME ServiceTypes, NEW m \in Msgs
  PROVE  Outdated(m) = [v \in Users |-> [n \in Msgs |->
           IF n = m /\ copies[v][n] # Null THEN [copies[v][n] EXCEPT !.stale = TRUE]
           ELSE copies[v][n]]]
<1> DEFINE told(c) == IF c = Null THEN Null ELSE [c EXCEPT !.stale = TRUE]
<1>1. copies = [v \in Users |-> [n \in Msgs |-> copies[v][n]]]
  BY Zenon DEF ServiceTypes, PerMessage
<1>2. ASSUME NEW v \in Users
      PROVE  [copies[v] EXCEPT ![m] = told(@)]
               = [n \in Msgs |-> IF n = m /\ copies[v][n] # Null
                                 THEN [copies[v][n] EXCEPT !.stale = TRUE] ELSE copies[v][n]]
  <2>1. copies[v] = [n \in Msgs |-> copies[v][n]]
    BY <1>1
  <2> DEFINE f == copies[v]
             x == told(f[m])
             g == [n \in Msgs |-> IF n = m THEN x ELSE f[n]]
  <2>2. [f EXCEPT ![m] = x] = g
    <3> HIDE DEF x, f
    <3>1. f = [n \in Msgs |-> f[n]]
      BY <2>1 DEF f
    <3>2. QED
      BY <3>1
  <2>3. g = [n \in Msgs |-> IF n = m /\ f[n] # Null THEN [f[n] EXCEPT !.stale = TRUE] ELSE f[n]]
    <3> DEFINE y == [f[m] EXCEPT !.stale = TRUE]
    <3>1. x = IF f[m] = Null THEN f[m] ELSE y
      OBVIOUS
    <3>2. ASSUME NEW n \in Msgs
          PROVE  (IF n = m THEN x ELSE f[n])
                   = IF n = m /\ f[n] # Null THEN [f[n] EXCEPT !.stale = TRUE] ELSE f[n]
      <4> HIDE DEF x
      <4>1. CASE n = m
        BY <3>1, <4>1, Zenon
      <4>2. CASE n # m
        BY <4>2, Zenon
      <4>3. QED
        BY <4>1, <4>2
    <3>3. QED
      BY <3>2, Zenon
  <2>4. QED
    BY <2>2, <2>3, Zenon
<1>3. QED
  BY <1>2 DEF Outdated

LEMMA OutdatedAt ==
  ASSUME ServiceTypes, NEW m \in Msgs
  PROVE  /\ Outdated(m) = [v \in Users |-> Outdated(m)[v]]
         /\ \A v \in Users : Outdated(m)[v] = [n \in Msgs |-> Outdated(m)[v][n]]
         /\ \A v \in Users, n \in Msgs :
              Outdated(m)[v][n] = IF n = m /\ copies[v][n] # Null
                                  THEN [copies[v][n] EXCEPT !.stale = TRUE] ELSE copies[v][n]
<1> DEFINE o == Outdated(m)
<1>1. o = [v \in Users |-> [n \in Msgs |->
             IF n = m /\ copies[v][n] # Null THEN [copies[v][n] EXCEPT !.stale = TRUE]
             ELSE copies[v][n]]]
  BY OutdatedCopies, Zenon
<1> HIDE DEF o
<1>2. o = [v \in Users |-> o[v]]
  BY <1>1
<1>3. \A v \in Users : o[v] = [n \in Msgs |-> o[v][n]]
  BY <1>1
<1>4. ASSUME NEW v \in Users, NEW n \in Msgs
      PROVE  o[v][n] = IF n = m /\ copies[v][n] # Null
                       THEN [copies[v][n] EXCEPT !.stale = TRUE] ELSE copies[v][n]
  BY <1>1
<1>5. QED
  BY <1>2, <1>3, <1>4 DEF o

LEMMA OutdatedStep ==
  ASSUME ServiceTypes, NEW m \in Msgs, NEW v \in Users, NEW n \in Msgs,
         copies'[v][n] = Outdated(m)[v][n], n # m => box'[n] = box[n]
  PROVE  CopyStep(v, n)
<1>1. Outdated(m)[v][n] = IF n = m /\ copies[v][n] # Null
                          THEN [copies[v][n] EXCEPT !.stale = TRUE] ELSE copies[v][n]
  BY OutdatedAt
<1>2. CASE n = m /\ copies[v][n] # Null
  BY <1>1, <1>2, Zenon DEF CopyStep
<1>3. CASE n # m
  BY <1>1, <1>3, Zenon DEF CopyStep
<1>4. CASE copies[v][n] = Null
  BY <1>1, <1>4, Zenon DEF CopyStep
<1>5. QED
  BY <1>2, <1>3, <1>4

\* The same, and one user's copy replaced.
LEMMA ReplacedCopy ==
  ASSUME ServiceTypes, NEW u \in Users, NEW m \in Msgs, NEW y
  PROVE  /\ PerMessage(Replaced(u, m, y))
         /\ \A v \in Users, n \in Msgs :
              Replaced(u, m, y)[v][n] = IF v = u /\ n = m THEN y ELSE Outdated(m)[v][n]
<1> DEFINE f == Outdated(m)
           h == [f[u] EXCEPT ![m] = y]
           r == Replaced(u, m, y)
<1>1. /\ f = [v \in Users |-> f[v]]
      /\ \A v \in Users : f[v] = [n \in Msgs |-> f[v][n]]
  BY OutdatedAt
<1>2. r = [f EXCEPT ![u] = h]
  BY DEF Replaced
<1> HIDE DEF f
<1>3. h = [n \in Msgs |-> h[n]] /\ \A n \in Msgs : h[n] = IF n = m THEN y ELSE f[u][n]
  BY <1>1
<1> HIDE DEF h, r
<1>4. /\ r = [v \in Users |-> r[v]]
      /\ \A v \in Users : r[v] = IF v = u THEN h ELSE f[v]
  BY <1>1, <1>2
<1>5. \A v \in Users : r[v] = [n \in Msgs |-> r[v][n]]
  BY <1>1, <1>3, <1>4
<1>6. PerMessage(r)
  BY <1>4, <1>5 DEF PerMessage
<1>7. \A v \in Users, n \in Msgs : r[v][n] = IF v = u /\ n = m THEN y ELSE f[v][n]
  BY <1>3, <1>4
<1>8. QED
  BY <1>6, <1>7 DEF f, r

\* What a write makes of the mailbox and the copies.
LEMMA WriteStep ==
  ASSUME ServiceInv, NEW u \in Users, NEW m \in Msgs, NEW labels \in SUBSET Labels,
         NEW out, Calls(u), Written(u, m, labels, out)
  PROVE  /\ ServiceInv'
         /\ box' = IF out = "refused" THEN box ELSE [box EXCEPT ![m] = labels]
<1>1. /\ Service(u) /\ now' = now
      /\ token' \in [Users -> {Null} \cup Bindings]
      /\ client' = [v \in Users |-> client'[v]]
      /\ ClientsBound' /\ BindingsStay
      /\ token'[u] # Null /\ token'[u].account = ClientOf(u)
  BY CallStep DEF Calls
<1>2. CASE out = "refused"
  <2>1. box' = box /\ copies' = copies
    BY <1>2 DEF Written, mailbox
  <2>2. \A v \in Users, n \in Msgs : CopyStep(v, n)
    BY <2>1 DEF CopyStep
  <2>3. AllCopiesAgree'
    BY <1>1, <2>2, CopiesFollow
  <2>4. ServiceTypes'
    BY <1>1, <2>1 DEF ServiceInv, ServiceTypes
  <2>5. QED
    BY <1>1, <1>2, <2>1, <2>3, <2>4 DEF ServiceInv
<1>3. CASE out # "refused"
  <2> DEFINE fresh == [labels |-> labels, at |-> now, born |-> now, account |-> ClientOf(u),
                       stale |-> FALSE]
             x == IF out = "done" THEN fresh ELSE Null
             o == Outdated(m)
  <2>1. /\ box' = [box EXCEPT ![m] = labels]
        /\ copies' = o \/ copies' = Replaced(u, m, x)
    BY <1>3 DEF Written, CopyOf
  <2>2. \A n \in Msgs : box'[n] = IF n = m THEN labels ELSE box[n]
    BY <2>1 DEF ServiceInv, ServiceTypes
  <2> HIDE DEF x
  <2>3. /\ PerMessage(copies')
        /\ \A v \in Users, n \in Msgs : \/ copies'[v][n] = o[v][n]
                                        \/ v = u /\ n = m /\ copies'[v][n] = x
    <3>1. CASE copies' = o
      BY <3>1, OutdatedAt DEF ServiceInv, PerMessage
    <3>2. CASE copies' = Replaced(u, m, x)
      BY <3>2, ReplacedCopy DEF ServiceInv
    <3>3. QED
      BY <2>1, <3>1, <3>2
  <2>4. ASSUME NEW v \in Users, NEW n \in Msgs
        PROVE  CopyStep(v, n)
    <3>1. CASE copies'[v][n] = o[v][n]
      BY <2>2, <3>1, OutdatedStep DEF ServiceInv
    <3>2. CASE v = u /\ n = m /\ copies'[v][n] = x
      <4>1. CASE x = Null
        BY <3>2, <4>1, Zenon DEF CopyStep
      <4>2. CASE x = fresh
        <5>1. copies'[v][n] = [labels |-> box'[n], at |-> now, born |-> now,
                               account |-> token'[v].account, stale |-> FALSE]
          BY <1>1, <2>2, <3>2, <4>2
        <5>2. QED
          BY <1>1, <3>2, <5>1, Zenon DEF CopyStep
      <4>3. QED
        BY <4>1, <4>2 DEF x
    <3>3. QED
      BY <2>3, <3>1, <3>2
  <2>5. AllCopiesAgree'
    BY <1>1, <2>4, CopiesFollow
  <2>6. ServiceTypes'
    BY <1>1, <2>1, <2>3 DEF ServiceInv, ServiceTypes
  <2>7. QED
    BY <1>1, <1>3, <2>1, <2>5, <2>6 DEF ServiceInv
<1>4. QED
  BY <1>2, <1>3

(***************************************************************************)
(* Every operation of the service keeps the agreement, and nothing leaves  *)
(* the trash but for what happens in Gmail itself                          *)
(***************************************************************************)

InTrash(m) == Here(m) /\ "TRASH" \in box[m]
TrashKept == \A m \in Msgs : InTrash(m) => InTrash(m)'

LEMMA LabelsStay ==
  ASSUME NEW labels \in SUBSET Labels, NEW read, NEW starred, NEW folder
  PROVE  /\ Trashed(labels) \in SUBSET Labels /\ "TRASH" \in Trashed(labels)
         /\ Patched(labels, read, starred, folder) \in SUBSET Labels
         /\ "TRASH" \in labels => "TRASH" \in Patched(labels, read, starred, folder)
<1>1. Trashed(labels) \in SUBSET Labels /\ "TRASH" \in Trashed(labels)
  BY DEF Trashed, Labels
<1>2. QED
  BY <1>1 DEF Patched, Labels

\* A message that is here has labels, and one that has labels is here.
LEMMA HereHasLabels ==
  ASSUME ServiceTypes, NEW m \in Msgs
  PROVE  Here(m) <=> box[m] \in SUBSET Labels
  BY NullAssumption DEF ServiceTypes, Here

\* A write to a message that is not in the trash, or leaves it there.
LEMMA WriteKeepsTrash ==
  ASSUME ServiceInv, NEW m \in Msgs, NEW labels \in SUBSET Labels,
         box' = box \/ box' = [box EXCEPT ![m] = labels],
         InTrash(m) => "TRASH" \in labels
  PROVE  TrashKept
<1>1. ASSUME NEW n \in Msgs, InTrash(n)
      PROVE  InTrash(n)'
  <2>1. labels # Null
    BY NullAssumption
  <2>2. CASE box' = box
    BY <1>1, <2>2 DEF InTrash, Here
  <2>3. CASE box' = [box EXCEPT ![m] = labels]
    <3>1. box'[n] = IF n = m THEN labels ELSE box[n]
      BY <2>3 DEF ServiceInv, ServiceTypes
    <3>2. QED
      BY <1>1, <2>1, <3>1 DEF InTrash, Here
  <2>4. QED
    BY <2>2, <2>3
<1>2. QED
  BY <1>1 DEF TrashKept

LEMMA UpdateStep ==
  ASSUME ServiceInv, NEW u \in Users, NEW m \in Msgs,
         NEW read, NEW starred, NEW folder, NEW out,
         UpdateMessage(u, m, read, starred, folder, out)
  PROVE  ServiceInv' /\ TrashKept
<1> DEFINE labels == Patched(box[m], read, starred, folder)
<1>1. /\ Calls(u) /\ Here(m) /\ Written(u, m, labels, out)
  BY DEF UpdateMessage, Reachable
<1>2. box[m] \in SUBSET Labels
  BY <1>1, HereHasLabels DEF ServiceInv
<1>3. /\ labels \in SUBSET Labels
      /\ InTrash(m) => "TRASH" \in labels
  BY <1>2, LabelsStay DEF InTrash
<1> HIDE DEF labels
<1>4. ServiceInv' /\ box' = IF out = "refused" THEN box ELSE [box EXCEPT ![m] = labels]
  BY <1>1, <1>3, WriteStep
<1>5. QED
  BY <1>3, <1>4, WriteKeepsTrash

LEMMA TrashStep ==
  ASSUME ServiceInv, NEW u \in Users, NEW m \in Msgs, NEW out, TrashMessage(u, m, out)
  PROVE  ServiceInv' /\ TrashKept /\ (out = "done" => InTrash(m)')
<1> DEFINE labels == Trashed(box[m])
<1>1. /\ Calls(u) /\ Here(m) /\ Written(u, m, labels, out)
  BY DEF TrashMessage, Reachable
<1>2. box[m] \in SUBSET Labels
  BY <1>1, HereHasLabels DEF ServiceInv
<1>3. labels \in SUBSET Labels /\ "TRASH" \in labels
  BY <1>2, LabelsStay
<1> HIDE DEF labels
<1>4. ServiceInv' /\ box' = IF out = "refused" THEN box ELSE [box EXCEPT ![m] = labels]
  BY <1>1, <1>3, WriteStep
<1>5. TrashKept
  BY <1>3, <1>4, WriteKeepsTrash
<1>6. ASSUME out = "done" PROVE InTrash(m)'
  <2>1. box'[m] = labels
    BY <1>4, <1>6 DEF ServiceInv, ServiceTypes
  <2>2. QED
    BY <1>3, <2>1, NullAssumption DEF InTrash, Here
<1>7. QED
  BY <1>4, <1>5, <1>6

LEMMA SendStep ==
  ASSUME ServiceInv, NEW u \in Users, NEW m \in Msgs, NEW out, SendMessage(u, m, out)
  PROVE  ServiceInv' /\ TrashKept
<1>1. /\ Calls(u) /\ ~Here(m) /\ Written(u, m, {"SENT"}, out)
      /\ {"SENT"} \in SUBSET Labels
  BY DEF SendMessage, Labels
<1>2. ServiceInv' /\ box' = IF out = "refused" THEN box ELSE [box EXCEPT ![m] = {"SENT"}]
  BY <1>1, WriteStep
<1>3. QED
  BY <1>1, <1>2, WriteKeepsTrash DEF InTrash

\* A call that changes nothing in Gmail and no copy.
LEMMA QuietStep ==
  ASSUME ServiceInv, NEW u \in Users, Calls(u), UNCHANGED <<box, copies>>
  PROVE  ServiceInv' /\ TrashKept
<1>1. /\ now' = now
      /\ token' \in [Users -> {Null} \cup Bindings]
      /\ client' = [v \in Users |-> client'[v]]
      /\ ClientsBound' /\ BindingsStay
  BY CallStep DEF Calls
<1>2. \A v \in Users, n \in Msgs : CopyStep(v, n)
  BY DEF CopyStep
<1>3. AllCopiesAgree'
  BY <1>1, <1>2, CopiesFollow
<1>4. ServiceTypes'
  BY <1>1 DEF ServiceInv, ServiceTypes
<1>5. QED
  BY <1>1, <1>3, <1>4 DEF ServiceInv, TrashKept, InTrash, Here

\* A copy that is marked read goes on for another lifetime.
LEMMA MarkReadStep ==
  ASSUME ServiceInv, NEW u \in Users, NEW m \in Msgs, NEW out, Calls(u), Here(m),
         CachedCopy(u, m) # Null, "UNREAD" \in CachedCopy(u, m).labels, MarkCopyRead(u, m, out)
  PROVE  ServiceInv' /\ TrashKept
<1>1. /\ now' = now
      /\ token' \in [Users -> {Null} \cup Bindings]
      /\ client' = [v \in Users |-> client'[v]]
      /\ ClientsBound' /\ BindingsStay
  BY CallStep DEF Calls
<1>2. CASE out = "refused"
  <2>1. UNCHANGED <<box, copies>>
    BY <1>2 DEF MarkCopyRead, mailbox
  <2>2. QED
    BY <2>1, QuietStep
<1>3. CASE out # "refused"
  <2> DEFINE x == [copies[u][m] EXCEPT !.labels = @ \ {"UNREAD"}, !.at = now]
             labels == box[m] \ {"UNREAD"}
  <2>1. /\ box' = [box EXCEPT ![m] = labels]
        /\ copies' = Outdated(m) \/ copies' = Replaced(u, m, x)
    BY <1>3 DEF MarkCopyRead
  <2>2. /\ labels \in SUBSET Labels
        /\ InTrash(m) => "TRASH" \in labels
    BY HereHasLabels DEF ServiceInv, InTrash
  <2>3. \A n \in Msgs : box'[n] = IF n = m THEN labels ELSE box[n]
    BY <2>1 DEF ServiceInv, ServiceTypes
  <2> HIDE DEF x
  <2>4. /\ PerMessage(copies')
        /\ \A v \in Users, n \in Msgs : \/ copies'[v][n] = Outdated(m)[v][n]
                                        \/ v = u /\ n = m /\ copies'[v][n] = x
    <3>1. CASE copies' = Outdated(m)
      BY <3>1, OutdatedAt DEF ServiceInv, PerMessage
    <3>2. CASE copies' = Replaced(u, m, x)
      BY <3>2, ReplacedCopy DEF ServiceInv
    <3>3. QED
      BY <2>1, <3>1, <3>2
  <2>5. copies[u][m] # Null /\ "UNREAD" \in copies[u][m].labels
    BY DEF CachedCopy
  <2>6. ASSUME NEW v \in Users, NEW n \in Msgs
        PROVE  CopyStep(v, n)
    <3>1. CASE copies'[v][n] = Outdated(m)[v][n]
      BY <2>3, <3>1, OutdatedStep DEF ServiceInv
    <3>2. CASE v = u /\ n = m /\ copies'[v][n] = x
      <4>1. box'[n] = box[n] \ {"UNREAD"}
        BY <2>3, <3>2
      <4>2. QED
        BY <2>5, <3>2, <4>1, Zenon DEF CopyStep, x
    <3>3. QED
      BY <2>4, <3>1, <3>2
  <2>7. AllCopiesAgree'
    BY <1>1, <2>6, CopiesFollow
  <2>8. ServiceTypes'
    BY <1>1, <2>1, <2>2, <2>4 DEF ServiceInv, ServiceTypes
  <2>9. QED
    BY <1>1, <2>1, <2>2, <2>7, <2>8, WriteKeepsTrash DEF ServiceInv
<1>4. QED
  BY <1>2, <1>3

LEMMA GetStep ==
  ASSUME ServiceInv, NEW u \in Users, NEW m \in Msgs, NEW out, GetMessage(u, m, out)
  PROVE  ServiceInv' /\ TrashKept
<1> DEFINE copy == CachedCopy(u, m)
<1>1. Calls(u)
  BY DEF GetMessage
<1>2. CASE copy # Null /\ "UNREAD" \notin copy.labels /\ UNCHANGED <<mailbox, cursors>>
  BY <1>1, <1>2, QuietStep DEF mailbox
<1>3. CASE copy # Null /\ "UNREAD" \in copy.labels /\ Reachable(u, m) /\ MarkCopyRead(u, m, out)
  BY <1>1, <1>3, MarkReadStep DEF Reachable
<1>4. CASE copy = Null /\ Reachable(u, m) /\ FetchMarkedRead(u, m, out)
  <2> DEFINE labels == box[m] \ {"UNREAD"}
  <2>1. Written(u, m, labels, out)
    BY <1>4 DEF FetchMarkedRead
  <2>2. /\ labels \in SUBSET Labels
        /\ InTrash(m) => "TRASH" \in labels
    BY <1>4, HereHasLabels DEF ServiceInv, InTrash, Reachable
  <2> HIDE DEF labels
  <2>3. ServiceInv' /\ box' = IF out = "refused" THEN box ELSE [box EXCEPT ![m] = labels]
    BY <1>1, <2>1, <2>2, WriteStep
  <2>4. QED
    BY <2>2, <2>3, WriteKeepsTrash
<1>5. QED
  BY <1>2, <1>3, <1>4 DEF GetMessage

\* The items of a bulk deletion that Gmail carries out are in the trash.
LEMMA BatchStep ==
  ASSUME ServiceInv, NEW u \in Users, NEW ms \in SUBSET Msgs, NEW answered, NEW moved,
         TrashMessages(u, ms, answered, moved)
  PROVE  ServiceInv' /\ TrashKept /\ \A m \in moved : InTrash(m)'
<1>1. /\ now' = now /\ moved \subseteq ms /\ \A m \in ms : Here(m)
      /\ token' \in [Users -> {Null} \cup Bindings]
      /\ client' = [v \in Users |-> client'[v]]
      /\ ClientsBound' /\ BindingsStay
  BY CallStep DEF Calls, TrashMessages, Reachable
<1>2. /\ DOMAIN box' = Msgs /\ box' = [m \in Msgs |-> box'[m]]
      /\ \A m \in Msgs : box'[m] = IF m \in moved THEN Trashed(box[m]) ELSE box[m]
  BY DEF TrashMessages
<1>3. \A m \in moved : box'[m] \in SUBSET Labels /\ "TRASH" \in box'[m]
  BY <1>1, <1>2, HereHasLabels, LabelsStay DEF ServiceInv
<1>4. /\ PerMessage(copies')
      /\ \A v \in Users, m \in Msgs :
           copies'[v][m] = IF v = u /\ m \in answered THEN Null
                           ELSE IF copies[v][m] # Null /\ m \in moved
                                THEN [copies[v][m] EXCEPT !.stale = TRUE] ELSE copies[v][m]
  BY DEF TrashMessages, PerMessage
<1>5. ASSUME NEW v \in Users, NEW m \in Msgs
      PROVE  CopyStep(v, m)
  <2>1. CASE copies'[v][m] = Null
    BY <2>1, Zenon DEF CopyStep
  <2>2. CASE copies[v][m] # Null /\ copies'[v][m] = [copies[v][m] EXCEPT !.stale = TRUE]
    BY <2>2, Zenon DEF CopyStep
  <2>3. CASE m \notin moved /\ copies'[v][m] = copies[v][m]
    BY <1>2, <2>3, Zenon DEF CopyStep
  <2>4. QED
    BY <1>4, <2>1, <2>2, <2>3
<1>6. AllCopiesAgree'
  BY <1>1, <1>5, CopiesFollow
<1>7. ServiceTypes'
  BY <1>1, <1>2, <1>3, <1>4 DEF ServiceInv, ServiceTypes
<1>8. TrashKept
  BY <1>2, <1>3, NullAssumption DEF TrashKept, InTrash, Here
<1>9. \A m \in moved : InTrash(m)'
  BY <1>3, NullAssumption DEF InTrash, Here
<1>10. QED
  BY <1>1, <1>6, <1>7, <1>8, <1>9 DEF ServiceInv

\* A scan for the calendar keeps what it had to fetch.
LEMMA ScanStep ==
  ASSUME ServiceInv, NEW u \in Users, NEW today, NEW days, NEW most, NEW failed,
         ListRecentMessages(u, today, days, most, failed)
  PROVE  ServiceInv'
<1> DEFINE fetched == {m \in Msgs : m \in ToSet(RecentMessages(u, today, days, most)) \ failed
                                    /\ CachedCopy(u, m) = Null}
<1>1. /\ now' = now /\ box' = box
      /\ token' \in [Users -> {Null} \cup Bindings]
      /\ client' = [v \in Users |-> client'[v]]
      /\ ClientsBound' /\ BindingsStay
      /\ token'[u] # Null /\ token'[u].account = ClientOf(u)
  BY CallStep DEF Calls, ListRecentMessages
<1>2. copies' = [copies EXCEPT ![u] = [m \in Msgs |->
                  IF m \in fetched THEN CopyOf(box[m], ClientOf(u)) ELSE copies[u][m]]]
  BY DEF ListRecentMessages
<1> HIDE DEF fetched
<1>3. /\ PerMessage(copies')
      /\ \A v \in Users, m \in Msgs :
           copies'[v][m] = IF v = u /\ m \in fetched THEN CopyOf(box[m], ClientOf(u))
                           ELSE copies[v][m]
  BY <1>2 DEF ServiceInv, ServiceTypes, PerMessage
<1>4. ASSUME NEW v \in Users, NEW m \in Msgs
      PROVE  CopyStep(v, m)
  <2>1. CASE v = u /\ m \in fetched
    <3>1. copies'[v][m] = [labels |-> box'[m], at |-> now, born |-> now,
                           account |-> token'[v].account, stale |-> FALSE]
      BY <1>1, <1>3, <2>1 DEF CopyOf
    <3>2. QED
      BY <1>1, <2>1, <3>1, Zenon DEF CopyStep
  <2>2. CASE copies'[v][m] = copies[v][m]
    BY <1>1, <2>2, Zenon DEF CopyStep
  <2>3. QED
    BY <1>3, <2>1, <2>2
<1>5. AllCopiesAgree'
  BY <1>1, <1>4, CopiesFollow
<1>6. ServiceTypes'
  BY <1>1, <1>3 DEF ServiceInv, ServiceTypes
<1>7. QED
  BY <1>1, <1>5, <1>6 DEF ServiceInv

\* The bindings change, and no copy.
LEMMA BindingStep ==
  ASSUME ServiceInv, UNCHANGED <<box, copies, now>>,
         token' \in [Users -> {Null} \cup Bindings],
         client' = [v \in Users |-> client'[v]], ClientsBound', BindingsStay
  PROVE  ServiceInv'
<1>1. \A v \in Users, n \in Msgs : CopyStep(v, n)
  BY DEF CopyStep
<1>2. AllCopiesAgree'
  BY <1>1, CopiesFollow
<1>3. QED
  BY <1>2 DEF ServiceInv, ServiceTypes

LEMMA OauthUrlStep ==
  ASSUME ServiceInv, NEW u \in Users, NEW f, OauthUrl(u, f)
  PROVE  ServiceInv'
<1>1. UNCHANGED <<box, copies, now>>
  BY DEF OauthUrl, mailbox
<1>2. CASE UNCHANGED <<token, client>>
  <2>1. ClientsBound' /\ BindingsStay
    BY <1>2 DEF ServiceInv, ClientsBound, BindingsStay
  <2>2. QED
    BY <1>1, <1>2, <2>1, BindingStep DEF ServiceInv, ServiceTypes
<1>3. CASE /\ token[u] # Null /\ LoadCredentials(u)
           /\ client' = [client EXCEPT ![u] = Null]
  <2> DEFINE r == [token[u] EXCEPT !.state = "valid"]
  <2>1. token[u] \in Bindings
    BY <1>3 DEF ServiceInv, ServiceTypes
  <2>2. r \in Bindings /\ r # Null /\ r.account = token[u].account /\ r.over = token[u].over
    BY <2>1, NullAssumption DEF Bindings
  <2>3. token' = [token EXCEPT ![u] = r]
    BY <1>3 DEF LoadCredentials
  <2> HIDE DEF r
  <2>4. /\ token' \in [Users -> {Null} \cup Bindings]
        /\ \A v \in Users : token'[v] = IF v = u THEN r ELSE token[v]
    BY <2>2, <2>3 DEF ServiceInv, ServiceTypes
  <2>5. /\ client' = [v \in Users |-> client'[v]]
        /\ \A v \in Users : client'[v] = IF v = u THEN Null ELSE client[v]
    BY <1>3 DEF ServiceInv, ServiceTypes
  <2>6. ClientsBound'
    BY <2>4, <2>5 DEF ServiceInv, ClientsBound
  <2>7. BindingsStay
    BY <2>2, <2>4 DEF BindingsStay
  <2>8. QED
    BY <1>1, <2>4, <2>5, <2>6, <2>7, BindingStep
<1>4. QED
  BY <1>2, <1>3 DEF OauthUrl

\* The user binds an account, over another one perhaps.
LEMMA ExchangeStep ==
  ASSUME ServiceInv, NEW f, NEW a \in Accounts, NEW succeeds \in BOOLEAN,
         ExchangeCode(f, a, succeeds)
  PROVE  ServiceInv'
<1>1. UNCHANGED <<box, copies, now>>
  BY DEF ExchangeCode, mailbox
<1>2. CASE ~succeeds
  <2>1. UNCHANGED <<token, client>>
    BY <1>2 DEF ExchangeCode
  <2>2. ClientsBound' /\ BindingsStay
    BY <2>1 DEF ServiceInv, ClientsBound, BindingsStay
  <2>3. QED
    BY <1>1, <2>1, <2>2, BindingStep DEF ServiceInv, ServiceTypes
<1>3. CASE succeeds
  <2> DEFINE u == pendingStates[f]
             over == token[u] # Null
             r == [account |-> a, state |-> "valid", over |-> over]
  <2>1. token' = [token EXCEPT ![u] = r] /\ client' = [client EXCEPT ![u] = Null]
    BY <1>3 DEF ExchangeCode, SaveCredentials
  <2>2. r \in Bindings /\ r # Null /\ r.over = over
    <3>1. over \in BOOLEAN
      BY Zenon
    <3> HIDE DEF over
    <3>2. QED
      BY <3>1, NullAssumption DEF Bindings
  <2> HIDE DEF u, r
  <2>3. /\ token' \in [Users -> {Null} \cup Bindings]
        /\ \A v \in Users : token'[v] = IF v = u THEN r ELSE token[v]
    BY <2>1, <2>2 DEF ServiceInv, ServiceTypes
  <2>4. /\ client' = [v \in Users |-> client'[v]]
        /\ \A v \in Users : client'[v] = IF v = u THEN Null ELSE client[v]
    BY <2>1 DEF ServiceInv, ServiceTypes
  <2>5. ClientsBound'
    BY <2>3, <2>4 DEF ServiceInv, ClientsBound
  <2>6. BindingsStay
    BY <2>2, <2>3 DEF BindingsStay
  <2>7. QED
    BY <1>1, <2>3, <2>4, <2>5, <2>6, BindingStep
<1>4. QED
  BY <1>2, <1>3

\* Nothing of the user is kept when the binding goes.
LEMMA ResetStep ==
  ASSUME ServiceInv, NEW u \in Users, ResetConnection(u)
  PROVE  ServiceInv'
<1>1. /\ UNCHANGED <<box, now>>
      /\ token' = [token EXCEPT ![u] = Null] /\ client' = [client EXCEPT ![u] = Null]
      /\ copies' = [copies EXCEPT ![u] = [m \in Msgs |-> Null]]
  BY DEF ResetConnection
<1>2. /\ token' \in [Users -> {Null} \cup Bindings]
      /\ \A v \in Users : token'[v] = IF v = u THEN Null ELSE token[v]
  BY <1>1 DEF ServiceInv, ServiceTypes
<1>3. /\ client' = [v \in Users |-> client'[v]]
      /\ \A v \in Users : client'[v] = IF v = u THEN Null ELSE client[v]
  BY <1>1 DEF ServiceInv, ServiceTypes
<1>4. /\ PerMessage(copies')
      /\ \A v \in Users, m \in Msgs : copies'[v][m] = IF v = u THEN Null ELSE copies[v][m]
  BY <1>1 DEF ServiceInv, ServiceTypes, PerMessage
<1>5. ClientsBound'
  BY <1>2, <1>3 DEF ServiceInv, ClientsBound
<1>6. ASSUME NEW v \in Users, NEW m \in Msgs, copies'[v][m] # Null
      PROVE  CopyAgrees(v, m, copies[v][m])'
  <2>1. v # u /\ copies'[v][m] = copies[v][m]
    BY <1>4, <1>6
  <2>2. CopyAgrees(v, m, copies[v][m])
    BY <1>6, <2>1 DEF ServiceInv, AllCopiesAgree
  <2>3. QED
    BY <1>1, <1>2, <2>1, <2>2 DEF CopyAgrees
<1>7. AllCopiesAgree'
  BY <1>6 DEF AllCopiesAgree
<1>8. QED
  BY <1>1, <1>2, <1>3, <1>4, <1>5, <1>7 DEF ServiceInv, ServiceTypes

LEMMA TokenEndsStep ==
  ASSUME ServiceInv, NEW u \in Users, NEW state \in {"expired", "revoked"}, TokenEnds(u, state)
  PROVE  ServiceInv'
<1> DEFINE r == [token[u] EXCEPT !.state = state]
<1>1. /\ UNCHANGED <<box, copies, now, client>> /\ token[u] # Null
      /\ token' = [token EXCEPT ![u] = r]
  BY DEF TokenEnds, mailbox
<1>2. token[u] \in Bindings
  BY <1>1 DEF ServiceInv, ServiceTypes
<1>3. r \in Bindings /\ r # Null /\ r.account = token[u].account /\ r.over = token[u].over
  BY <1>2, NullAssumption DEF Bindings
<1> HIDE DEF r
<1>4. /\ token' \in [Users -> {Null} \cup Bindings]
      /\ \A v \in Users : token'[v] = IF v = u THEN r ELSE token[v]
  BY <1>1, <1>3 DEF ServiceInv, ServiceTypes
<1>5. ClientsBound'
  BY <1>1, <1>3, <1>4 DEF ServiceInv, ClientsBound
<1>6. BindingsStay
  BY <1>3, <1>4 DEF BindingsStay
<1>7. QED
  BY <1>1, <1>4, <1>5, <1>6, BindingStep DEF ServiceInv, ServiceTypes

\* Time, and changes in Gmail itself.
LEMMA TickStep ==
  ASSUME ServiceInv, Tick
  PROVE  ServiceInv' /\ TrashKept
<1>1. UNCHANGED <<box, token, client>> /\ now' = now + 1 /\ copies' = Young(copies)
  BY DEF Tick, bindings
<1>2. /\ PerMessage(copies')
      /\ \A u \in Users, m \in Msgs :
           copies'[u][m] = IF copies[u][m] # Null /\ now + 1 - copies[u][m].at > Ttl THEN Null
                           ELSE copies[u][m]
  BY <1>1 DEF Young, PerMessage
<1>3. ASSUME NEW u \in Users, NEW m \in Msgs, copies'[u][m] # Null
      PROVE  copies[u][m] # Null /\ now + 1 - copies[u][m].at <= Ttl
             /\ copies'[u][m] = copies[u][m]
  <2>1. copies[u][m] # Null /\ copies'[u][m] = copies[u][m]
        /\ ~(now + 1 - copies[u][m].at > Ttl)
    BY <1>2, <1>3
  <2>2. copies[u][m].at \in Nat
    BY <2>1 DEF ServiceInv, AllCopiesAgree, CopyAgrees, MadeCopy
  <2>3. QED
    BY <2>1, <2>2, TimesAssumption DEF ServiceInv, ServiceTypes
<1>4. AllCopiesAgree'
  BY <1>1, <1>3, CopiesAge
<1>5. QED
  BY <1>1, <1>2, <1>4 DEF ServiceInv, ServiceTypes, ClientsBound, TrashKept, InTrash, Here

LEMMA ElsewhereStep ==
  ASSUME ServiceInv, NEW m \in Msgs, NEW labels \in SUBSET Labels, ChangeElsewhere(m, labels)
  PROVE  /\ ServiceInv'
         /\ \A n \in Msgs : n # m /\ InTrash(n) => InTrash(n)'
<1> DEFINE o == Outdated(m)
<1>1. /\ UNCHANGED <<token, client>> /\ now' = now + 1 /\ copies' = Young(o)
      /\ box' = [box EXCEPT ![m] = labels]
  BY DEF ChangeElsewhere, bindings
<1>2. \A n \in Msgs : box'[n] = IF n = m THEN labels ELSE box[n]
  BY <1>1 DEF ServiceInv, ServiceTypes
<1>3. \A u \in Users, n \in Msgs :
        o[u][n] = IF n = m /\ copies[u][n] # Null
                  THEN [copies[u][n] EXCEPT !.stale = TRUE] ELSE copies[u][n]
  BY OutdatedAt DEF ServiceInv
<1> HIDE DEF o
<1>4. /\ PerMessage(copies')
      /\ \A u \in Users, n \in Msgs :
           copies'[u][n] = IF o[u][n] # Null /\ now + 1 - o[u][n].at > Ttl THEN Null ELSE o[u][n]
  BY <1>1 DEF Young, PerMessage
<1>5. ASSUME NEW u \in Users, NEW n \in Msgs, copies'[u][n] # Null
      PROVE  /\ copies[u][n] # Null /\ now + 1 - copies[u][n].at <= Ttl
             /\ \/ copies'[u][n] = copies[u][n] /\ box'[n] = box[n]
                \/ copies'[u][n] = [copies[u][n] EXCEPT !.stale = TRUE]
  <2>1. /\ copies'[u][n] = o[u][n] /\ o[u][n] # Null
        /\ ~(now + 1 - o[u][n].at > Ttl)
    BY <1>4, <1>5
  <2>2. copies[u][n] # Null
    BY <1>3, <2>1
  <2>3. MadeCopy(copies[u][n])
    BY <2>2 DEF ServiceInv, AllCopiesAgree, CopyAgrees
  <2>4. o[u][n].at = copies[u][n].at
    <3>1. CASE n = m
      BY <1>3, <2>2, <2>3, <3>1, MarkedStale
    <3>2. CASE n # m
      BY <1>3, <3>2
    <3>3. QED
      BY <3>1, <3>2
  <2>5. now + 1 - copies[u][n].at <= Ttl
    BY <2>1, <2>3, <2>4, TimesAssumption DEF ServiceInv, ServiceTypes, MadeCopy
  <2>6. CASE n = m
    BY <1>3, <2>1, <2>2, <2>5, <2>6, Zenon
  <2>7. CASE n # m
    BY <1>2, <1>3, <2>1, <2>2, <2>5, <2>7, Zenon
  <2>8. QED
    BY <2>6, <2>7
<1>6. AllCopiesAgree'
  BY <1>1, <1>5, CopiesAge
<1>7. ServiceTypes' /\ ClientsBound'
  BY <1>1, <1>4 DEF ServiceInv, ServiceTypes, ClientsBound
<1>8. QED
  BY <1>2, <1>6, <1>7 DEF ServiceInv, InTrash, Here

\* The parts of the agent that concern no chat keep the agreement.
LEMMA ReadingKeeps ==
  ASSUME ServiceInv, topic \in Topics, Reading
  PROVE  ServiceInv'
<1>1. Actors \subseteq Users
  BY CaseAssumption DEF Actors
<1>2. ASSUME NEW u \in Actors, NEW m \in Msgs, NEW out, ReadPage(u, m, out)
      PROVE  ServiceInv'
  BY <1>1, <1>2, GetStep DEF ReadPage
<1>3. ASSUME NEW u \in Actors, NEW m \in Msgs, NEW out, NEW p, PatchPage(u, m, p, out)
      PROVE  ServiceInv'
  BY <1>1, <1>3, UpdateStep DEF PatchPage
<1>4. ASSUME NEW u \in Actors, NEW m \in Msgs, NEW out, TrashMessage(u, m, out)
      PROVE  ServiceInv'
  BY <1>1, <1>4, TrashStep
<1>5. ASSUME NEW u \in Actors, NEW f \in Flows, OauthUrl(u, f)
      PROVE  ServiceInv'
  BY <1>1, <1>5, OauthUrlStep
<1>6. ASSUME NEW u \in Actors, NEW f \in Flows, NotConnected(u, f)
      PROVE  ServiceInv'
  BY <1>6 DEF NotConnected, mailbox, ServiceInv, ServiceTypes, ClientsBound, AllCopiesAgree,
              CopyAgrees
<1>7. ASSUME NEW u \in Actors, OauthStatus(u)
      PROVE  ServiceInv'
  BY <1>1, <1>7, QuietStep DEF OauthStatus, Calls, mailbox
<1>8. ASSUME NEW u \in Actors, ResetConnection(u)
      PROVE  ServiceInv'
  BY <1>1, <1>8, ResetStep
<1>9. QED
  BY <1>1, <1>2, <1>3, <1>4, <1>5, <1>6, <1>7, <1>8, ExchangeStep, TokenEndsStep, ElsewhereStep,
     TickStep, LabellingsAssumption DEF Reading

LEMMA PagingKeeps ==
  ASSUME ServiceInv, topic \in Topics, Paging
  PROVE  ServiceInv'
<1>1. Actors \subseteq Users
  BY CaseAssumption DEF Actors
<1>2. ASSUME NEW u \in Actors, NEW q, NEW fails, ListMessages(u, q, fails)
      PROVE  ServiceInv'
  <2>1. u \in Users /\ Calls(u) /\ UNCHANGED <<box, copies>>
    BY <1>1, <1>2 DEF ListMessages
  <2>2. QED
    BY <2>1, QuietStep
<1>3. QED
  BY <1>2, ElsewhereStep, LabellingsAssumption DEF Paging

LEMMA ScanningKeeps ==
  ASSUME ServiceInv, topic \in Topics, Scanning
  PROVE  ServiceInv'
<1>1. Actors \subseteq Users
  BY CaseAssumption DEF Actors
<1>2. QED
  BY <1>1, ScanStep, ElsewhereStep, LabellingsAssumption DEF Scanning

(***************************************************************************)
(* Chat requests                                                           *)
(***************************************************************************)

Stages == {"none", "agent", "rules", "deleting", "answered"}
Asks == {"none", "send", "file", "delete", "confirm"}
WorkStates ==
  [stage: Stages, ask: Asks, user: Users \cup {Null}, of: Requests \cup {Null}, running: BOOLEAN,
   told: {"nothing", "sent", "failed"}, gone: SUBSET Msgs, sends: Nat, fault: BOOLEAN,
   byRules: BOOLEAN, erred: BOOLEAN]

ChatTypes ==
  /\ work \in [Requests -> WorkStates]
  /\ PerMessage(trashedAt)
  /\ batch = [r \in Requests |-> batch[r]]
  /\ \A r \in Requests : batch[r] # Null => batch[r] \in SUBSET Msgs
  /\ pending \in [Requests -> {Null} \cup Prompts]
  /\ confirmed = [r \in Requests |-> confirmed[r]]

\* A mail the model sent without a fault was reported so to it, and it will not
\* send another; the rules have their turn after an error of the agent.
SentOnce(w) ==
  /\ w.stage = "rules" => ~w.running /\ w.erred
  /\ w.sends > 0 /\ ~w.fault => w.sends = 1 /\ w.told = "sent"
  /\ w.byRules => w.erred

\* A request that deletes holds a confirmation that is closed and was not used.
Deletes(r, c) == work[r].stage = "deleting" /\ work[r].of = c

Holds(r) ==
  /\ work[r].user \in Users \/ (work[r].stage = "none" /\ ~work[r].running)
  /\ work[r].ask = "confirm" => work[r].of \in Requests /\ pending[work[r].of] \in Prompts
  /\ work[r].stage = "deleting" =>
       /\ work[r].ask = "confirm"
       /\ ~pending[work[r].of].open /\ pending[work[r].of].user = work[r].user
       /\ confirmed[work[r].of] = {}
       /\ \A q \in Requests : Deletes(q, work[r].of) => q = r

\* A confirmation that was used is closed, and was used once, as it was shown.
Used(c) ==
  /\ pending[c] # Null => work[c].stage = "answered"
  /\ confirmed[c] # {} =>
       /\ pending[c] \in Prompts /\ ~pending[c].open
       /\ \E d : /\ confirmed[c] = {d}
                 /\ d.mail = pending[c].mail
                 /\ d.by \in Requests /\ work[d.by].stage = "answered"
                 /\ work[d.by].user = pending[c].user

\* What was reported as deleted, or is remembered as such, is in the trash.
Excused(m) == InTrash(m) \/ m \in excused
GoneInv ==
  /\ \A r \in Requests : \A m \in work[r].gone : Excused(m)
  /\ \A u \in Users, m \in Msgs : trashedAt[u][m] # Null => Excused(m)

RequestsInv == \A r \in Requests : SentOnce(work[r]) /\ Holds(r) /\ Used(r)
ChatInv == ChatTypes /\ RequestsInv /\ GoneInv

\* It says what the run checks.
LEMMA ChatInvWritesOnce == ChatInv => ChatWritesOnce
<1> SUFFICES ASSUME ChatInv PROVE ChatWritesOnce
  OBVIOUS
<1>1. ASSUME NEW r \in Requests
      PROVE  (work[r].sends > 1 => work[r].fault) /\ (work[r].byRules => work[r].erred)
  <2>1. work[r] \in WorkStates /\ SentOnce(work[r])
    BY DEF ChatInv, ChatTypes, RequestsInv
  <2>2. work[r].sends \in Nat
    BY <2>1 DEF WorkStates
  <2>3. QED
    BY <2>1, <2>2 DEF SentOnce
<1>2. ASSUME NEW c \in Requests
      PROVE  /\ Cardinality(confirmed[c]) <= 1
             /\ \A d \in confirmed[c] : d.mail = pending[c].mail
                                        /\ work[d.by].user = pending[c].user
  <2>1. Used(c)
    BY DEF ChatInv, RequestsInv
  <2>2. CASE confirmed[c] = {}
    BY <2>2, FS_EmptySet
  <2>3. CASE confirmed[c] # {}
    BY <2>1, <2>3, FS_Singleton DEF Used
  <2>4. QED
    BY <2>2, <2>3
<1>3. ASSUME NEW r \in Requests, NEW m \in work[r].gone
      PROVE  "TRASH" \in box[m] \/ m \in excused
  BY DEF ChatInv, GoneInv, Excused, InTrash
<1>4. QED
  BY <1>1, <1>2, <1>3 DEF ChatWritesOnce

\* Who asks is known from when the request is taken.
LEMMA AskedBySomeone ==
  ASSUME RequestsInv, NEW r \in Requests, work[r].stage # "none" \/ work[r].running
  PROVE  work[r].user \in Users
BY DEF RequestsInv, Holds

\* A request goes on: its record changes, but not what it asks for whom, and it
\* stays where it is or ends or falls back on the rules.
GoesOn(r) ==
  /\ work' = [q \in Requests |-> work'[q]]
  /\ \A q \in Requests : q # r => work'[q] = work[q]
  /\ work'[r] \in WorkStates /\ SentOnce(work'[r])
  /\ work[r].user \in Users
  /\ work'[r].ask = work[r].ask /\ work'[r].of = work[r].of /\ work'[r].user = work[r].user
  /\ \/ work'[r].stage = work[r].stage
     \/ work[r].stage \in {"agent", "rules"} /\ work'[r].stage \in {"rules", "answered"}

LEMMA GoesOnStep ==
  ASSUME ChatTypes, RequestsInv, NEW r \in Requests, GoesOn(r), UNCHANGED <<pending, confirmed>>
  PROVE  work' \in [Requests -> WorkStates] /\ RequestsInv'
<1>1. \A q \in Requests : work'[q] \in WorkStates
  BY DEF GoesOn, ChatTypes
<1>2. work' \in [Requests -> WorkStates]
  BY <1>1 DEF GoesOn
<1>3. \A q \in Requests : SentOnce(work'[q])
  BY DEF GoesOn, RequestsInv
<1>4. \A q \in Requests :
        /\ work'[q].ask = work[q].ask /\ work'[q].of = work[q].of /\ work'[q].user = work[q].user
        /\ work[q].stage = "answered" => work'[q].stage = "answered"
        /\ (work'[q].stage = "deleting") = (work[q].stage = "deleting")
  BY Zenon DEF GoesOn
<1>5. ASSUME NEW q \in Requests
      PROVE  Holds(q)'
  <2>1. Holds(q)
    BY DEF RequestsInv
  <2>2. QED
    BY <2>1, <1>4 DEF Holds, Deletes, GoesOn
<1>6. ASSUME NEW c \in Requests
      PROVE  Used(c)'
  <2>1. Used(c)
    BY DEF RequestsInv
  <2>2. CASE confirmed[c] # {}
    <3>1. PICK d : /\ confirmed[c] = {d}
                   /\ d.mail = pending[c].mail
                   /\ d.by \in Requests /\ work[d.by].stage = "answered"
                   /\ work[d.by].user = pending[c].user
      BY <2>1, <2>2 DEF Used
    <3>2. work'[d.by].stage = "answered" /\ work'[d.by].user = pending[c].user
      BY <3>1, <1>4
    <3>3. QED
      BY <2>1, <2>2, <3>1, <3>2, <1>4 DEF Used
  <2>3. CASE confirmed[c] = {}
    BY <2>1, <2>3, <1>4 DEF Used
  <2>4. QED
    BY <2>2, <2>3
<1>7. QED
  BY <1>2, <1>3, <1>5, <1>6 DEF RequestsInv

\* What was reported as deleted stays so while nothing leaves the trash.
LEMMA GoneStep ==
  ASSUME ChatTypes, ChatTypes', GoneInv,
         \A m \in Msgs : Excused(m) => Excused(m)',
         \A r \in Requests : \A m \in work'[r].gone : m \in work[r].gone \/ Excused(m)',
         \A u \in Users, m \in Msgs :
           trashedAt'[u][m] # Null => trashedAt[u][m] # Null \/ Excused(m)'
  PROVE  GoneInv'
<1>1. ASSUME NEW r \in Requests, NEW m \in work'[r].gone
      PROVE  Excused(m)'
  <2>1. m \in Msgs
    BY DEF ChatTypes, WorkStates
  <2>2. QED
    BY <1>1, <2>1 DEF GoneInv
<1>2. QED
  BY <1>1 DEF GoneInv

LEMMA SameService ==
  ASSUME ServiceInv, UNCHANGED serviceVars
  PROVE  ServiceInv' /\ TrashKept
<1>1. UNCHANGED <<box, token, client, copies, now>>
  BY DEF serviceVars
<1>2. TrashKept
  BY <1>1 DEF TrashKept, InTrash, Here
<1>3. ServiceTypes'
  BY <1>1 DEF ServiceInv, ServiceTypes, PerMessage
<1>4. ClientsBound' /\ AllCopiesAgree'
  BY <1>1 DEF ServiceInv, ClientsBound, AllCopiesAgree, CopyAgrees, MadeCopy
<1>5. QED
  BY <1>2, <1>3, <1>4 DEF ServiceInv

\* A step of one request that deletes nothing and confirms nothing.
LEMMA PlainStep ==
  ASSUME ChatInv, TrashKept, NEW r \in Requests, GoesOn(r),
         work'[r].gone = work[r].gone,
         batch' = batch \/ batch' = [batch EXCEPT ![r] = Null],
         UNCHANGED <<trashedAt, pending, confirmed, excused>>
  PROVE  ChatInv'
<1>1. work' \in [Requests -> WorkStates] /\ RequestsInv'
  BY GoesOnStep DEF ChatInv
<1>2. /\ batch' = [q \in Requests |-> batch'[q]]
      /\ \A q \in Requests : batch'[q] # Null => batch'[q] \in SUBSET Msgs
  BY DEF ChatInv, ChatTypes
<1>3. ChatTypes'
  BY <1>1, <1>2 DEF ChatInv, ChatTypes, PerMessage
<1>4. \A m \in Msgs : Excused(m) => Excused(m)'
  BY DEF TrashKept, Excused
<1>5. \A q \in Requests : work'[q].gone = work[q].gone
  BY DEF GoesOn
<1>6. GoneInv'
  BY <1>3, <1>4, <1>5, GoneStep DEF ChatInv
<1>7. QED
  BY <1>1, <1>3, <1>6 DEF ChatInv

\* The change of a stage, and of nothing else.
LEMMA StageStep ==
  ASSUME ChatTypes, NEW r \in Requests, NEW s \in Stages, At(r, s)
  PROVE  /\ work' = [q \in Requests |-> work'[q]]
         /\ \A q \in Requests : q # r => work'[q] = work[q]
         /\ work'[r] = [work[r] EXCEPT !.stage = s]
         /\ work'[r] \in WorkStates
<1> DEFINE w == [work[r] EXCEPT !.stage = s]
<1>1. work' = [work EXCEPT ![r] = w]
  BY DEF At
<1>2. w \in WorkStates
  BY DEF ChatTypes, WorkStates
<1> HIDE DEF w
<1>3. /\ work' = [q \in Requests |-> work'[q]]
      /\ \A q \in Requests : q # r => work'[q] = work[q]
      /\ work'[r] = w
  BY <1>1 DEF ChatTypes
<1>4. QED
  BY <1>2, <1>3 DEF w

LEMMA AnsweredStep ==
  ASSUME ChatTypes, RequestsInv, NEW r \in Requests, work[r].stage \in {"agent", "rules"},
         At(r, "answered")
  PROVE  GoesOn(r) /\ work'[r].gone = work[r].gone
<1>1. /\ work' = [q \in Requests |-> work'[q]]
      /\ \A q \in Requests : q # r => work'[q] = work[q]
      /\ work'[r] = [work[r] EXCEPT !.stage = "answered"]
      /\ work'[r] \in WorkStates
  BY StageStep DEF Stages
<1>2. work[r] \in WorkStates /\ SentOnce(work[r])
  BY DEF ChatTypes, RequestsInv
<1>3. /\ work'[r].stage = "answered" /\ work'[r].ask = work[r].ask /\ work'[r].of = work[r].of
      /\ work'[r].user = work[r].user /\ work'[r].gone = work[r].gone
      /\ work'[r].sends = work[r].sends /\ work'[r].fault = work[r].fault
      /\ work'[r].byRules = work[r].byRules /\ work'[r].erred = work[r].erred
      /\ work'[r].told = work[r].told
  BY <1>1, <1>2 DEF WorkStates
<1>4. SentOnce(work'[r])
  BY <1>2, <1>3 DEF SentOnce
<1>5. QED
  BY <1>1, <1>3, <1>4, AskedBySomeone DEF GoesOn

\* The end of the agent's run; the rules have their turn only after its error.
LEMMA RunChatStep ==
  ASSUME ServiceInv, ChatInv, NEW r \in Requests, NEW fails \in BOOLEAN, RunChat(r, fails)
  PROVE  ServiceInv' /\ ChatInv'
<1> DEFINE b == work[r].erred \/ (fails /\ work[r].stage = "agent")
           s == IF work[r].stage # "agent" THEN work[r].stage
                ELSE IF fails THEN "rules" ELSE "answered"
           w == [work[r] EXCEPT !.running = FALSE, !.erred = b, !.stage = s]
<1>1. /\ work[r].running /\ UNCHANGED <<serviceVars, trashedAt, pending, confirmed, excused>>
      /\ batch' = [batch EXCEPT ![r] = Null]
  BY DEF RunChat
<1>2. work[r] \in WorkStates /\ SentOnce(work[r])
  BY DEF ChatInv, ChatTypes, RequestsInv
<1>3. work' = [work EXCEPT ![r] = w]
  BY DEF RunChat
<1>4. s \in Stages
  BY <1>2 DEF WorkStates, Stages
<1>5. b \in BOOLEAN
  BY Zenon
<1>6. SentOnce(w)
  BY <1>1, <1>2 DEF SentOnce, WorkStates
<1>7. /\ s = work[r].stage \/ (work[r].stage = "agent" /\ s \in {"rules", "answered"})
  OBVIOUS
<1> HIDE DEF b, s
<1>8. /\ w \in WorkStates
      /\ w.ask = work[r].ask /\ w.of = work[r].of /\ w.user = work[r].user
      /\ w.gone = work[r].gone /\ w.stage = s
  BY <1>2, <1>4, <1>5 DEF WorkStates
<1> HIDE DEF w
<1>9. /\ work' = [q \in Requests |-> work'[q]]
      /\ \A q \in Requests : q # r => work'[q] = work[q]
      /\ work'[r] = w
  BY <1>3 DEF ChatInv, ChatTypes
<1>10. GoesOn(r)
  BY <1>1, <1>6, <1>7, <1>8, <1>9, AskedBySomeone DEF GoesOn, ChatInv
<1>11. QED
  BY <1>1, <1>8, <1>9, <1>10, SameService, PlainStep

\* The model sends when it knows of no mail that was sent.
LEMMA ModelSends ==
  ASSUME ServiceInv, ChatInv, NEW r \in Requests, NEW m \in Msgs, NEW out \in Outcomes,
         SendMail(r, m, out)
  PROVE  ServiceInv' /\ ChatInv'
<1> DEFINE told == IF out = "done" THEN "sent" ELSE "failed"
           sends == IF out = "refused" THEN work[r].sends ELSE work[r].sends + 1
           b == work[r].fault \/ out \in {"unseen", "lost"}
           w == [work[r] EXCEPT !.told = told, !.sends = sends, !.fault = b]
<1>1. /\ work[r].running /\ work[r].told # "sent"
      /\ SendMessage(work[r].user, m, out) /\ Quiet
      /\ work' = [work EXCEPT ![r] = w]
  BY DEF SendMail
<1>2. work[r] \in WorkStates /\ SentOnce(work[r])
  BY DEF ChatInv, ChatTypes, RequestsInv
<1>3. b \in BOOLEAN
  BY Zenon
<1>4. work[r].sends \in Nat /\ told \in {"nothing", "sent", "failed"} /\ sends \in Nat
  BY <1>2 DEF WorkStates
<1>5. ASSUME sends > 0, ~b
      PROVE  sends = 1 /\ told = "sent"
  <2>1. ~work[r].fault /\ out \in {"done", "refused"}
    BY <1>5 DEF Outcomes
  <2>2. work[r].sends = 0
    BY <1>1, <1>2, <1>4, <2>1 DEF SentOnce
  <2>3. QED
    BY <2>1, <2>2, <1>5
<1> HIDE DEF told, sends, b
<1>6. /\ w \in WorkStates
      /\ w.ask = work[r].ask /\ w.of = work[r].of /\ w.user = work[r].user
      /\ w.gone = work[r].gone /\ w.stage = work[r].stage /\ w.running = work[r].running
      /\ w.told = told /\ w.sends = sends /\ w.fault = b
      /\ w.byRules = work[r].byRules /\ w.erred = work[r].erred
  BY <1>2, <1>3, <1>4 DEF WorkStates
<1> HIDE DEF w
<1>7. SentOnce(w)
  BY <1>2, <1>5, <1>6 DEF SentOnce
<1>8. /\ work' = [q \in Requests |-> work'[q]]
      /\ \A q \in Requests : q # r => work'[q] = work[q]
      /\ work'[r] = w
  BY <1>1 DEF ChatInv, ChatTypes
<1>9. GoesOn(r) /\ work'[r].gone = work[r].gone
  BY <1>1, <1>6, <1>7, <1>8, AskedBySomeone DEF GoesOn, ChatInv
<1>10. ServiceInv' /\ TrashKept
  BY <1>1, SendStep, AskedBySomeone DEF ChatInv
<1>11. QED
  BY <1>1, <1>9, <1>10, PlainStep DEF Quiet

\* The rules send, once, and are done.
LEMMA RulesSend ==
  ASSUME ServiceInv, ChatInv, NEW r \in Requests, NEW m \in Msgs, NEW out \in Outcomes,
         HandleSend(r, m, out)
  PROVE  ServiceInv' /\ ChatInv'
<1> DEFINE b == out # "refused"
           w == [work[r] EXCEPT !.stage = "answered", !.byRules = b]
<1>1. /\ work[r].stage = "rules"
      /\ SendMessage(work[r].user, m, out) /\ Quiet
      /\ work' = [work EXCEPT ![r] = w]
  BY DEF HandleSend
<1>2. work[r] \in WorkStates /\ SentOnce(work[r])
  BY DEF ChatInv, ChatTypes, RequestsInv
<1>3. b \in BOOLEAN
  OBVIOUS
<1> HIDE DEF b
<1>4. /\ w \in WorkStates
      /\ w.ask = work[r].ask /\ w.of = work[r].of /\ w.user = work[r].user
      /\ w.gone = work[r].gone /\ w.stage = "answered" /\ w.told = work[r].told
      /\ w.sends = work[r].sends /\ w.fault = work[r].fault /\ w.erred = work[r].erred
  BY <1>2, <1>3 DEF WorkStates, Stages
<1> HIDE DEF w
<1>5. SentOnce(w)
  BY <1>1, <1>2, <1>4 DEF SentOnce
<1>6. /\ work' = [q \in Requests |-> work'[q]]
      /\ \A q \in Requests : q # r => work'[q] = work[q]
      /\ work'[r] = w
  BY <1>1 DEF ChatInv, ChatTypes
<1>7. GoesOn(r) /\ work'[r].gone = work[r].gone
  BY <1>1, <1>4, <1>5, <1>6, AskedBySomeone DEF GoesOn, ChatInv
<1>8. ServiceInv' /\ TrashKept
  BY <1>1, SendStep, AskedBySomeone DEF ChatInv
<1>9. QED
  BY <1>1, <1>7, <1>8, PlainStep DEF Quiet

\* A call given up, and a request the rules cannot serve.
LEMMA GiveUpStep ==
  ASSUME ServiceInv, ChatInv, NEW r \in Requests, HandleAgentTimeout(r) \/ HandleNothing(r)
  PROVE  ServiceInv' /\ ChatInv'
<1>1. /\ work[r].stage \in {"agent", "rules"} /\ At(r, "answered")
      /\ Quiet /\ UNCHANGED serviceVars
  BY DEF HandleAgentTimeout, HandleNothing
<1>2. GoesOn(r) /\ work'[r].gone = work[r].gone
  BY <1>1, AnsweredStep DEF ChatInv
<1>3. QED
  BY <1>1, <1>2, SameService, PlainStep DEF Quiet

\* Filing a message.
LEMMA FileMailStep ==
  ASSUME ServiceInv, NEW u \in Users, NEW m \in Msgs, NEW out, FileMail(u, m, out)
  PROVE  ServiceInv' /\ TrashKept
BY UpdateStep, GetStep DEF FileMail, ArchiveMessage

LEMMA UseToolStep ==
  ASSUME ServiceInv, ChatInv, NEW r \in Requests, NEW m \in Msgs, NEW out, UseTool(r, m, out)
  PROVE  ServiceInv' /\ ChatInv'
<1>1. /\ work[r].running /\ FileMail(work[r].user, m, out) /\ UNCHANGED work /\ Quiet
  BY DEF UseTool
<1>2. work[r].user \in Users
  BY <1>1, AskedBySomeone DEF ChatInv
<1>3. ServiceInv' /\ TrashKept
  BY <1>1, <1>2, FileMailStep
<1>4. GoesOn(r) /\ work'[r].gone = work[r].gone
  BY <1>1, <1>2 DEF GoesOn, ChatInv, ChatTypes, RequestsInv
<1>5. QED
  BY <1>1, <1>3, <1>4, PlainStep DEF Quiet

LEMMA HandleFileStep ==
  ASSUME ServiceInv, ChatInv, NEW r \in Requests, NEW m \in Msgs, NEW out, HandleFile(r, m, out)
  PROVE  ServiceInv' /\ ChatInv'
<1> DEFINE u == work[r].user
<1>1. /\ work[r].stage = "rules" /\ At(r, "answered") /\ Quiet
      /\ FileMail(u, m, out) \/ \E read \in BOOLEAN : UpdateMessage(u, m, read, Null, Null, out)
  BY DEF HandleFile
<1>2. u \in Users
  BY <1>1, AskedBySomeone DEF ChatInv
<1> HIDE DEF u
<1>3. ServiceInv' /\ TrashKept
  BY <1>1, <1>2, FileMailStep, UpdateStep
<1>4. GoesOn(r) /\ work'[r].gone = work[r].gone
  BY <1>1, AnsweredStep DEF ChatInv
<1>5. QED
  BY <1>1, <1>3, <1>4, PlainStep DEF Quiet

\* What a request is told is deleted.
LEMMA ToldStep ==
  ASSUME ChatTypes, RequestsInv, NEW r \in Requests, NEW ms \in SUBSET Msgs, ToldGone(r, ms),
         work[r].running
  PROVE  GoesOn(r) /\ work'[r].gone = work[r].gone \cup ms
<1> DEFINE gone == work[r].gone \cup ms
           w == [work[r] EXCEPT !.gone = gone]
<1>1. work' = [work EXCEPT ![r] = w]
  BY DEF ToldGone
<1>2. work[r] \in WorkStates /\ SentOnce(work[r])
  BY DEF ChatTypes, RequestsInv
<1>3. gone \in SUBSET Msgs
  BY <1>2 DEF WorkStates
<1> HIDE DEF gone
<1>4. /\ w \in WorkStates
      /\ w.ask = work[r].ask /\ w.of = work[r].of /\ w.user = work[r].user
      /\ w.gone = gone /\ w.stage = work[r].stage /\ w.told = work[r].told
      /\ w.sends = work[r].sends /\ w.fault = work[r].fault /\ w.running = work[r].running
      /\ w.byRules = work[r].byRules /\ w.erred = work[r].erred
  BY <1>2, <1>3 DEF WorkStates
<1> HIDE DEF w
<1>5. SentOnce(w)
  BY <1>2, <1>4 DEF SentOnce
<1>6. /\ work' = [q \in Requests |-> work'[q]]
      /\ \A q \in Requests : q # r => work'[q] = work[q]
      /\ work'[r] = w
  BY <1>1 DEF ChatTypes
<1>7. QED
  BY <1>4, <1>5, <1>6, AskedBySomeone DEF GoesOn, gone

\* What is remembered as deleted.
LEMMA MarkStep ==
  ASSUME PerMessage(trashedAt), NEW u \in Users, NEW ms \in SUBSET Msgs, MarkTrashed(u, ms)
  PROVE  /\ PerMessage(trashedAt')
         /\ \A v \in Users, m \in Msgs :
              trashedAt'[v][m] = IF v = u /\ m \in ms THEN now ELSE trashedAt[v][m]
<1> DEFINE f == [m \in Msgs |-> IF m \in ms THEN now ELSE trashedAt[u][m]]
<1>1. trashedAt = [v \in Users |-> [m \in Msgs |-> trashedAt[v][m]]]
  BY DEF PerMessage
<1>2. trashedAt = [v \in Users |-> trashedAt[v]]
  BY <1>1
<1>3. trashedAt' = [trashedAt EXCEPT ![u] = f]
  BY DEF MarkTrashed
<1>4. /\ f = [m \in Msgs |-> f[m]]
      /\ \A m \in Msgs : f[m] = IF m \in ms THEN now ELSE trashedAt[u][m]
  OBVIOUS
<1> HIDE DEF f
<1>5. /\ trashedAt' = [v \in Users |-> trashedAt'[v]]
      /\ \A v \in Users : trashedAt'[v] = IF v = u THEN f ELSE trashedAt[v]
  BY <1>2, <1>3
<1>6. \A v \in Users : trashedAt'[v] = [m \in Msgs |-> trashedAt'[v][m]]
  BY <1>1, <1>4, <1>5
<1>7. trashedAt' = [v \in Users |-> [m \in Msgs |-> trashedAt'[v][m]]]
  BY <1>5, <1>6
<1>8. QED
  BY <1>4, <1>5, <1>7 DEF PerMessage

LEMMA DeletedStep ==
  ASSUME ServiceInv', ChatInv, TrashKept, NEW r \in Requests, work[r].running,
         NEW ms \in SUBSET Msgs, NEW failed \in SUBSET ms,
         \A m \in ms \ failed : Excused(m)',
         excused' = (excused \ ms) \cup failed \/ excused' = excused,
         failed \subseteq excused',
         ToldGone(r, ms),
         UNCHANGED trashedAt \/ MarkTrashed(work[r].user, ms),
         batch' = batch \/ batch' = [batch EXCEPT ![r] = Null],
         UNCHANGED <<pending, confirmed>>
  PROVE  ChatInv'
<1>1. GoesOn(r) /\ work'[r].gone = work[r].gone \cup ms
  BY ToldStep DEF ChatInv
<1>2. work' \in [Requests -> WorkStates] /\ RequestsInv'
  BY <1>1, GoesOnStep DEF ChatInv
<1>3. \A m \in ms : Excused(m)'
  BY DEF Excused
<1>4. /\ PerMessage(trashedAt')
      /\ \A v \in Users, m \in Msgs :
           trashedAt'[v][m] = trashedAt[v][m] \/ m \in ms
  BY <1>1, MarkStep DEF ChatInv, ChatTypes, GoesOn, PerMessage
<1>5. /\ batch' = [q \in Requests |-> batch'[q]]
      /\ \A q \in Requests : batch'[q] # Null => batch'[q] \in SUBSET Msgs
  BY DEF ChatInv, ChatTypes
<1>6. ChatTypes'
  BY <1>2, <1>4, <1>5 DEF ChatInv, ChatTypes
<1>7. ASSUME NEW m \in Msgs, Excused(m)
      PROVE  Excused(m)'
  <2>1. CASE m \in ms
    BY <1>3, <2>1
  <2>2. CASE m \notin ms
    BY <1>7, <2>2 DEF TrashKept, Excused
  <2>3. QED
    BY <2>1, <2>2
<1>8. \A q \in Requests : \A m \in work'[q].gone : m \in work[q].gone \/ Excused(m)'
  BY <1>1, <1>3 DEF GoesOn
<1>9. GoneInv'
  BY <1>3, <1>4, <1>6, <1>7, <1>8, GoneStep DEF ChatInv
<1>10. QED
  BY <1>2, <1>6, <1>9 DEF ChatInv

LEMMA DeleteMailStep ==
  ASSUME ServiceInv, ChatInv, NEW r \in Requests, NEW m \in Msgs, NEW out, DeleteMail(r, m, out)
  PROVE  ServiceInv' /\ ChatInv'
<1> DEFINE u == work[r].user
<1>1. work[r].running /\ UNCHANGED <<batch, pending, confirmed>>
  BY DEF DeleteMail
<1>2. u \in Users
  BY <1>1, AskedBySomeone DEF ChatInv
<1>3. CASE IsRecentlyTrashed(u, m)
  <2>1. ToldGone(r, {m}) /\ UNCHANGED <<serviceVars, trashedAt, excused>>
    BY <1>3 DEF DeleteMail
  <2>2. ServiceInv' /\ TrashKept
    BY <2>1, SameService
  <2>3. Excused(m)
    BY <1>2, <1>3 DEF IsRecentlyTrashed, ChatInv, GoneInv
  <2>4. Excused(m)'
    BY <2>1, <2>2, <2>3 DEF TrashKept, Excused
  <2>5. {} \subseteq excused' /\ {} \in SUBSET {m}
    OBVIOUS
  <2>6. ChatInv'
    BY <1>1, <2>1, <2>2, <2>4, <2>5, DeletedStep
  <2>7. QED
    BY <2>2, <2>6
<1>4. CASE ~IsRecentlyTrashed(u, m)
  <2>1. /\ TrashMessage(u, m, out) /\ MarkAfter(u, m, out)
        /\ IF out = "done" THEN ToldGone(r, {m}) /\ excused' = excused \ {m}
           ELSE UNCHANGED <<work, excused>>
    BY <1>4 DEF DeleteMail
  <2>2. ServiceInv' /\ TrashKept /\ (out = "done" => InTrash(m)')
    BY <1>2, <2>1, TrashStep
  <2>3. CASE out = "done"
    <3>1. /\ ToldGone(r, {m}) /\ MarkTrashed(u, {m})
          /\ excused' = (excused \ {m}) \cup {}
          /\ {} \subseteq excused' /\ {} \in SUBSET {m}
      BY <2>1, <2>3 DEF MarkAfter
    <3>2. Excused(m)'
      BY <2>2, <2>3 DEF Excused
    <3>3. QED
      BY <1>1, <2>2, <3>1, <3>2, DeletedStep
  <2>4. CASE out # "done"
    <3>1. UNCHANGED <<work, trashedAt, excused>>
      BY <2>1, <2>4 DEF MarkAfter
    <3>2. GoesOn(r) /\ work'[r].gone = work[r].gone
      BY <1>2, <3>1 DEF GoesOn, ChatInv, ChatTypes, RequestsInv
    <3>3. QED
      BY <1>1, <2>2, <3>1, <3>2, PlainStep
  <2>5. QED
    BY <2>3, <2>4
<1>5. QED
  BY <1>3, <1>4

\* A bulk deletion lists; when all of it was deleted just now, it says so.
LEMMA ListForBatchStep ==
  ASSUME ServiceInv, ChatInv, NEW r \in Requests, NEW ms \in SUBSET Msgs, ListForBatch(r, ms)
  PROVE  ServiceInv' /\ ChatInv'
<1> DEFINE u == work[r].user
           fresh == {m \in ms : ~IsRecentlyTrashed(u, m)}
<1>1. /\ work[r].running /\ Calls(u)
      /\ UNCHANGED <<mailbox, cursors, trashedAt, pending, confirmed, excused>>
  BY DEF ListForBatch
<1>2. u \in Users
  BY <1>1, AskedBySomeone DEF ChatInv
<1>3. ServiceInv' /\ TrashKept
  BY <1>1, <1>2, QuietStep DEF mailbox
<1>4. CASE fresh = {}
  <2>1. ToldGone(r, ms) /\ UNCHANGED batch
    BY <1>4 DEF ListForBatch
  <2>2. ASSUME NEW m \in ms
        PROVE  Excused(m)'
    <3>1. trashedAt[u][m] # Null
      BY <1>4 DEF IsRecentlyTrashed
    <3>2. Excused(m)
      BY <1>2, <3>1 DEF ChatInv, GoneInv
    <3>3. QED
      BY <1>1, <1>3, <3>2 DEF TrashKept, Excused
  <2>3. {} \subseteq excused' /\ {} \in SUBSET ms
    OBVIOUS
  <2>4. QED
    BY <1>1, <1>3, <2>1, <2>2, <2>3, DeletedStep
<1>5. CASE fresh # {}
  <2>1. batch' = [batch EXCEPT ![r] = fresh] /\ UNCHANGED work
    BY <1>5 DEF ListForBatch
  <2>2. fresh \in SUBSET Msgs
    OBVIOUS
  <2> HIDE DEF fresh
  <2>3. /\ batch' = [q \in Requests |-> batch'[q]]
        /\ \A q \in Requests : batch'[q] # Null => batch'[q] \in SUBSET Msgs
    BY <2>1, <2>2 DEF ChatInv, ChatTypes
  <2>4. ChatTypes'
    BY <1>1, <2>1, <2>3 DEF ChatInv, ChatTypes, PerMessage
  <2>5. RequestsInv'
    BY <1>1, <2>1 DEF ChatInv, RequestsInv, SentOnce, Holds, Used, Deletes
  <2>6. \A m \in Msgs : Excused(m) => Excused(m)'
    BY <1>1, <1>3 DEF TrashKept, Excused
  <2>7. GoneInv'
    BY <1>1, <2>1, <2>4, <2>6, GoneStep DEF ChatInv
  <2>8. QED
    BY <1>3, <2>4, <2>5, <2>7 DEF ChatInv
<1>6. QED
  BY <1>4, <1>5

\* An item that Gmail failed is excused: nobody looked.  A deletion that raised
\* is not reported, and nothing leaves the trash by it.
LEMMA DeleteMailBatchStep ==
  ASSUME ServiceInv, ChatInv, NEW r \in Requests, NEW answered, NEW moved,
         DeleteMailBatch(r, answered, moved)
  PROVE  ServiceInv' /\ ChatInv'
<1> DEFINE u == work[r].user
           ms == batch[r]
           failed == ms \ moved
<1>1. /\ work[r].running /\ ms # Null
      /\ TrashMessages(u, ms, answered, moved)
      /\ batch' = [batch EXCEPT ![r] = Null]
      /\ UNCHANGED <<pending, confirmed>>
  BY DEF DeleteMailBatch
<1>2. u \in Users /\ ms \in SUBSET Msgs
  BY <1>1, AskedBySomeone DEF ChatInv, ChatTypes
<1>3. ServiceInv' /\ TrashKept /\ \A m \in moved : InTrash(m)'
  BY <1>1, <1>2, BatchStep
<1>4. CASE answered = ms
  <2>1. /\ MarkTrashed(u, ms) /\ ToldGone(r, ms)
        /\ excused' = (excused \ ms) \cup failed
    BY <1>4 DEF DeleteMailBatch
  <2>2. \A m \in ms \ failed : Excused(m)'
    BY <1>3 DEF Excused
  <2>3. failed \in SUBSET ms /\ failed \subseteq excused'
    BY <2>1
  <2> HIDE DEF ms, failed
  <2>4. batch' = [batch EXCEPT ![r] = Null]
    BY <1>1
  <2>5. QED
    BY <1>1, <1>2, <1>3, <2>1, <2>2, <2>3, <2>4, DeletedStep
<1>5. CASE answered # ms
  <2>1. UNCHANGED <<trashedAt, work, excused>>
    BY <1>5 DEF DeleteMailBatch
  <2>2. GoesOn(r) /\ work'[r].gone = work[r].gone
    BY <1>2, <2>1 DEF GoesOn, ChatInv, ChatTypes, RequestsInv
  <2>3. QED
    BY <1>1, <1>3, <2>1, <2>2, PlainStep
<1>6. QED
  BY <1>4, <1>5

\* A deletion the rules ask a confirmation for.
LEMMA HandleDeleteStep ==
  ASSUME ServiceInv, ChatInv, NEW r \in Requests, NEW m \in Msgs, HandleDelete(r, m)
  PROVE  ServiceInv' /\ ChatInv'
<1> DEFINE p == [user |-> work[r].user, mail |-> m, open |-> TRUE]
<1>1. /\ work[r].stage = "rules" /\ work[r].ask = "delete" /\ Calls(work[r].user)
      /\ pending' = [pending EXCEPT ![r] = p] /\ At(r, "answered")
      /\ UNCHANGED <<mailbox, cursors, trashedAt, batch, confirmed, excused>>
  BY DEF HandleDelete
<1>2. work[r].user \in Users
  BY <1>1, AskedBySomeone DEF ChatInv
<1>3. ServiceInv' /\ TrashKept
  BY <1>1, <1>2, QuietStep DEF mailbox
<1>4. GoesOn(r) /\ work'[r].gone = work[r].gone
  BY <1>1, AnsweredStep DEF ChatInv
<1>5. /\ work' = [q \in Requests |-> work'[q]]
      /\ \A q \in Requests : q # r => work'[q] = work[q]
      /\ work'[r].stage = "answered" /\ work'[r].ask = "delete" /\ work'[r].user = work[r].user
  <2>1. work[r] \in WorkStates
    BY DEF ChatInv, ChatTypes
  <2>2. /\ work' = [q \in Requests |-> work'[q]]
        /\ \A q \in Requests : q # r => work'[q] = work[q]
        /\ work'[r] = [work[r] EXCEPT !.stage = "answered"]
    BY <1>1, StageStep DEF ChatInv, Stages
  <2>3. QED
    BY <1>1, <2>1, <2>2 DEF WorkStates
<1>6. p \in Prompts
  BY <1>2 DEF Prompts
<1>7. pending[r] = Null /\ confirmed[r] = {}
  <2>1. Used(r)
    BY DEF ChatInv, RequestsInv
  <2>2. pending[r] = Null
    BY <1>1, <2>1 DEF Used
  <2>3. QED
    BY <2>1, <2>2, RequestsAssumption DEF Used
<1>8. /\ \A c \in Requests : pending'[c] = IF c = r THEN p ELSE pending[c]
      /\ pending' \in [Requests -> {Null} \cup Prompts]
  BY <1>1, <1>6 DEF ChatInv, ChatTypes
<1>9. \A q \in Requests :
        /\ work'[q].ask = work[q].ask /\ work'[q].of = work[q].of /\ work'[q].user = work[q].user
        /\ work[q].stage = "answered" => work'[q].stage = "answered"
        /\ (work'[q].stage = "deleting") = (work[q].stage = "deleting")
  BY <1>4, <1>5, Zenon DEF GoesOn
<1>10. ASSUME NEW q \in Requests
       PROVE  SentOnce(work[q])' /\ Holds(q)'
  <2>1. SentOnce(work[q]) /\ Holds(q)
    BY DEF ChatInv, RequestsInv
  <2>2. SentOnce(work[q])'
    BY <1>4, <2>1 DEF GoesOn
  <2>3. work[q].ask = "confirm" => work[q].of # r
    BY <1>7, <2>1, RequestsAssumption DEF Holds
  <2>4. work'[q].user \in Users \/ (work'[q].stage = "none" /\ ~work'[q].running)
    BY <1>2, <1>4, <2>1 DEF GoesOn, Holds
  <2>5. QED
    BY <1>1, <1>8, <1>9, <2>1, <2>2, <2>3, <2>4 DEF Holds, Deletes
<1>11. ASSUME NEW c \in Requests
       PROVE  Used(c)'
  <2>1. Used(c)
    BY DEF ChatInv, RequestsInv
  <2>2. CASE c = r
    BY <1>1, <1>5, <1>7, <2>2 DEF Used
  <2>3. CASE c # r /\ confirmed[c] = {}
    BY <1>1, <1>8, <1>9, <2>1, <2>3 DEF Used
  <2>4. CASE c # r /\ confirmed[c] # {}
    <3>1. PICK d : /\ confirmed[c] = {d}
                   /\ d.mail = pending[c].mail
                   /\ d.by \in Requests /\ work[d.by].stage = "answered"
                   /\ work[d.by].user = pending[c].user
      BY <2>1, <2>4 DEF Used
    <3>2. QED
      BY <1>1, <1>8, <1>9, <2>1, <2>4, <3>1 DEF Used
  <2>5. QED
    BY <2>2, <2>3, <2>4
<1>12. ChatTypes' /\ RequestsInv'
  <2>1. work' \in [Requests -> WorkStates]
    BY <1>4, <1>5 DEF GoesOn, ChatInv, ChatTypes
  <2>2. ChatTypes'
    BY <1>1, <1>8, <2>1 DEF ChatInv, ChatTypes, PerMessage
  <2>3. QED
    BY <1>10, <1>11, <2>2 DEF RequestsInv
<1>13. GoneInv'
  <2>1. \A n \in Msgs : Excused(n) => Excused(n)'
    BY <1>1, <1>3 DEF TrashKept, Excused
  <2>2. \A q \in Requests : work'[q].gone = work[q].gone
    BY <1>4 DEF GoesOn
  <2>3. QED
    BY <1>1, <1>12, <2>1, <2>2, GoneStep DEF ChatInv
<1>14. QED
  BY <1>3, <1>12, <1>13 DEF ChatInv

\* The first who confirms closes the confirmation, and deletes if it is theirs.
LEMMA HandleDeleteConfirmStep ==
  ASSUME ServiceInv, ChatInv, NEW r \in Requests, HandleDeleteConfirm(r)
  PROVE  ServiceInv' /\ ChatInv'
<1> DEFINE c == work[r].of
           mine == pending[c].open /\ pending[c].user = work[r].user
           s == IF mine THEN "deleting" ELSE "answered"
<1>1. /\ work[r].stage = "rules" /\ work[r].ask = "confirm"
      /\ UNCHANGED <<serviceVars, trashedAt, batch, confirmed, excused>>
      /\ IF pending[c].open THEN Pop(c) ELSE UNCHANGED pending
      /\ At(r, s)
  BY DEF HandleDeleteConfirm
<1>2. ServiceInv' /\ TrashKept
  BY <1>1, SameService
<1>3. CASE ~pending[c].open
  <2>1. UNCHANGED pending /\ At(r, "answered")
    BY <1>1, <1>3
  <2>2. GoesOn(r) /\ work'[r].gone = work[r].gone
    BY <1>1, <2>1, AnsweredStep DEF ChatInv
  <2>3. QED
    BY <1>1, <1>2, <2>1, <2>2, PlainStep
<1>4. CASE pending[c].open
  <2>1. work[r] \in WorkStates /\ SentOnce(work[r]) /\ Holds(r)
    BY DEF ChatInv, ChatTypes, RequestsInv
  <2>2. c \in Requests /\ pending[c] \in Prompts /\ work[r].user \in Users
    BY <1>1, <2>1 DEF Holds
  <2>3. /\ confirmed[c] = {}
        /\ \A q \in Requests : ~Deletes(q, c)
        /\ work[c].stage = "answered"
    <3>1. Used(c) /\ \A q \in Requests : Holds(q)
      BY <2>2 DEF ChatInv, RequestsInv
    <3>2. QED
      BY <1>4, <2>2, <3>1, RequestsAssumption DEF Used, Holds, Deletes
  <2>4. s \in Stages /\ s \in {"deleting", "answered"}
    BY DEF Stages
  <2>5. (s = "deleting") => pending[c].user = work[r].user
    OBVIOUS
  <2> DEFINE p == [pending[c] EXCEPT !.open = FALSE]
  <2>6. pending' = [pending EXCEPT ![c] = p]
    BY <1>1, <1>4 DEF Pop
  <2>7. p \in Prompts /\ ~p.open /\ p.user = pending[c].user /\ p.mail = pending[c].mail
    BY <2>2 DEF Prompts
  <2> HIDE DEF s, p
  <2>8. /\ pending' \in [Requests -> {Null} \cup Prompts]
        /\ \A q \in Requests : pending'[q] = IF q = c THEN p ELSE pending[q]
    BY <2>2, <2>6, <2>7 DEF ChatInv, ChatTypes
  <2>9. /\ work' = [q \in Requests |-> work'[q]]
        /\ \A q \in Requests : q # r => work'[q] = work[q]
        /\ work'[r] = [work[r] EXCEPT !.stage = s]
        /\ work'[r] \in WorkStates
    BY <1>1, <2>4, StageStep DEF ChatInv
  <2>10. /\ work'[r].stage = s /\ work'[r].ask = "confirm" /\ work'[r].of = c
         /\ work'[r].user = work[r].user /\ work'[r].gone = work[r].gone
         /\ work'[r].sends = work[r].sends /\ work'[r].fault = work[r].fault
         /\ work'[r].byRules = work[r].byRules /\ work'[r].erred = work[r].erred
         /\ work'[r].told = work[r].told
    BY <1>1, <2>1, <2>9 DEF WorkStates
  <2> HIDE DEF c
  <2>11. SentOnce(work[r])'
    BY <2>1, <2>4, <2>10 DEF SentOnce
  <2>12. \A q \in Requests :
           /\ work'[q].ask = work[q].ask /\ work'[q].of = work[q].of /\ work'[q].user = work[q].user
           /\ work[q].stage = "answered" => work'[q].stage = "answered"
           /\ q # r => work'[q].stage = work[q].stage
    BY <1>1, <2>9, <2>10 DEF c
  <2>13. ASSUME NEW q \in Requests
         PROVE  Holds(q)'
    <3>1. Holds(q)
      BY DEF ChatInv, RequestsInv
    <3>2. CASE q = r
      BY <1>1, <2>2, <2>3, <2>4, <2>5, <2>7, <2>8, <2>10, <2>12, <3>2 DEF Holds, Deletes
    <3>3. CASE q # r
      <4>1. work[q].stage = "deleting" => work[q].of # c
        BY <2>3 DEF Deletes
      <4>2. work'[q] = work[q]
        BY <2>9, <3>3
      <4>3. ASSUME work[q].ask = "confirm"
            PROVE  work[q].of \in Requests /\ pending'[work[q].of] \in Prompts
        BY <2>7, <2>8, <3>1, <4>3 DEF Holds
      <4>4. ASSUME work[q].stage = "deleting"
            PROVE  /\ work[q].ask = "confirm"
                   /\ ~pending'[work[q].of].open /\ pending'[work[q].of].user = work[q].user
                   /\ confirmed'[work[q].of] = {}
                   /\ \A n \in Requests : Deletes(n, work[q].of)' => n = q
        BY <1>1, <2>8, <2>10, <2>12, <3>1, <4>1, <4>2, <4>4 DEF Holds, Deletes
      <4>5. QED
        BY <3>1, <4>2, <4>3, <4>4 DEF Holds
    <3>4. QED
      BY <3>2, <3>3
  <2>14. ASSUME NEW d \in Requests
         PROVE  Used(d)'
    <3>1. Used(d)
      BY DEF ChatInv, RequestsInv
    <3>2. CASE d = c
      BY <1>1, <2>3, <2>12, <3>2 DEF Used
    <3>3. CASE d # c /\ confirmed[d] = {}
      BY <1>1, <2>8, <2>12, <3>1, <3>3 DEF Used
    <3>4. CASE d # c /\ confirmed[d] # {}
      <4>1. PICK e : /\ confirmed[d] = {e}
                     /\ e.mail = pending[d].mail
                     /\ e.by \in Requests /\ work[e.by].stage = "answered"
                     /\ work[e.by].user = pending[d].user
        BY <3>1, <3>4 DEF Used
      <4>2. QED
        BY <1>1, <2>8, <2>12, <3>1, <3>4, <4>1 DEF Used
    <3>5. QED
      BY <3>2, <3>3, <3>4
  <2>15. ChatTypes'
    <3>1. work' \in [Requests -> WorkStates]
      BY <2>9 DEF ChatInv, ChatTypes
    <3>2. QED
      BY <1>1, <2>8, <3>1 DEF ChatInv, ChatTypes, PerMessage
  <2>16. RequestsInv'
    BY <2>9, <2>11, <2>13, <2>14 DEF ChatInv, RequestsInv
  <2>17. GoneInv'
    <3>1. \A m \in Msgs : Excused(m) => Excused(m)'
      BY <1>1, <1>2 DEF TrashKept, Excused
    <3>2. \A q \in Requests : work'[q].gone = work[q].gone
      BY <2>9, <2>10
    <3>3. QED
      BY <1>1, <2>15, <3>1, <3>2, GoneStep DEF ChatInv
  <2>18. QED
    BY <1>2, <2>15, <2>16, <2>17 DEF ChatInv
<1>5. QED
  BY <1>3, <1>4

\* A confirmation is used by the one request that holds it.
LEMMA DeleteConfirmedStep ==
  ASSUME ServiceInv, ChatInv, NEW r \in Requests, NEW out, DeleteConfirmed(r, out)
  PROVE  ServiceInv' /\ ChatInv'
<1> DEFINE c == work[r].of
           x == [by |-> r, mail |-> pending[c].mail]
<1>1. /\ work[r].stage = "deleting" /\ At(r, "answered")
      /\ TrashMessage(work[r].user, pending[c].mail, out)
      /\ confirmed' = [confirmed EXCEPT ![c] = @ \cup {x}]
      /\ UNCHANGED <<trashedAt, batch, pending, excused>>
  BY DEF DeleteConfirmed
<1>2. work[r] \in WorkStates /\ SentOnce(work[r]) /\ Holds(r)
  BY DEF ChatInv, ChatTypes, RequestsInv
<1>3. /\ c \in Requests /\ pending[c] \in Prompts /\ work[r].user \in Users
      /\ ~pending[c].open /\ pending[c].user = work[r].user /\ confirmed[c] = {}
      /\ \A q \in Requests : Deletes(q, c) => q = r
      /\ work[r].ask = "confirm"
  BY <1>1, <1>2 DEF Holds
<1>4. ServiceInv' /\ TrashKept
  BY <1>1, <1>3, TrashStep DEF Prompts
<1>5. x.by = r /\ x.mail = pending[c].mail
  OBVIOUS
<1> HIDE DEF x
<1>6. /\ confirmed' = [q \in Requests |-> confirmed'[q]]
      /\ \A q \in Requests : confirmed'[q] = IF q = c THEN {x} ELSE confirmed[q]
  BY <1>1, <1>3 DEF ChatInv, ChatTypes
<1>7. /\ work' = [q \in Requests |-> work'[q]]
      /\ \A q \in Requests : q # r => work'[q] = work[q]
      /\ work'[r] = [work[r] EXCEPT !.stage = "answered"]
      /\ work'[r] \in WorkStates
  BY <1>1, StageStep DEF ChatInv, Stages
<1>8. /\ work'[r].stage = "answered" /\ work'[r].ask = "confirm" /\ work'[r].of = c
      /\ work'[r].user = work[r].user /\ work'[r].gone = work[r].gone
      /\ work'[r].sends = work[r].sends /\ work'[r].fault = work[r].fault
      /\ work'[r].byRules = work[r].byRules /\ work'[r].erred = work[r].erred
      /\ work'[r].told = work[r].told
  BY <1>2, <1>3, <1>7 DEF WorkStates
<1> HIDE DEF c
<1>9. SentOnce(work[r])'
  BY <1>2, <1>8 DEF SentOnce
<1>10. \A q \in Requests :
         /\ work'[q].ask = work[q].ask /\ work'[q].of = work[q].of /\ work'[q].user = work[q].user
         /\ work[q].stage = "answered" => work'[q].stage = "answered"
         /\ q # r => work'[q].stage = work[q].stage
  BY <1>3, <1>7, <1>8 DEF c
<1>11. ASSUME NEW q \in Requests
       PROVE  Holds(q)'
  <2>1. Holds(q)
    BY DEF ChatInv, RequestsInv
  <2>2. CASE q = r
    BY <1>1, <1>3, <1>8, <2>2 DEF Holds
  <2>3. CASE q # r
    <3>1. work'[q] = work[q]
      BY <1>7, <2>3
    <3>2. work[q].stage = "deleting" => work[q].of # c
      BY <1>3, <2>3 DEF Deletes
    <3>3. ASSUME work[q].stage = "deleting"
          PROVE  /\ confirmed'[work[q].of] = {}
                 /\ \A n \in Requests : Deletes(n, work[q].of)' => n = q
      BY <1>6, <1>8, <1>10, <2>1, <3>2, <3>3 DEF Holds, Deletes
    <3>4. QED
      BY <1>1, <2>1, <3>1, <3>3 DEF Holds
  <2>4. QED
    BY <2>2, <2>3
<1>12. ASSUME NEW d \in Requests
       PROVE  Used(d)'
  <2>1. Used(d)
    BY DEF ChatInv, RequestsInv
  <2>2. CASE d = c
    <3>1. confirmed'[d] = {x} /\ x.by \in Requests /\ work'[x.by].stage = "answered"
      BY <1>5, <1>6, <1>8, <2>2
    <3>2. x.mail = pending[d].mail /\ work'[x.by].user = pending[d].user
      BY <1>3, <1>5, <1>8, <2>2
    <3>3. pending[d] # Null => work'[d].stage = "answered"
      BY <1>10, <2>1 DEF Used
    <3>4. QED
      BY <1>1, <1>3, <2>2, <3>1, <3>2, <3>3 DEF Used
  <2>3. CASE d # c /\ confirmed[d] = {}
    BY <1>1, <1>6, <1>10, <2>1, <2>3 DEF Used
  <2>4. CASE d # c /\ confirmed[d] # {}
    <3>1. PICK e : /\ confirmed[d] = {e}
                   /\ e.mail = pending[d].mail
                   /\ e.by \in Requests /\ work[e.by].stage = "answered"
                   /\ work[e.by].user = pending[d].user
      BY <2>1, <2>4 DEF Used
    <3>2. QED
      BY <1>1, <1>6, <1>10, <2>1, <2>4, <3>1 DEF Used
  <2>5. QED
    BY <2>2, <2>3, <2>4
<1>13. ChatTypes'
  <2>1. work' \in [Requests -> WorkStates]
    BY <1>7 DEF ChatInv, ChatTypes
  <2>2. QED
    BY <1>1, <1>6, <2>1 DEF ChatInv, ChatTypes, PerMessage
<1>14. RequestsInv'
  BY <1>7, <1>9, <1>11, <1>12 DEF ChatInv, RequestsInv
<1>15. GoneInv'
  <2>1. \A m \in Msgs : Excused(m) => Excused(m)'
    BY <1>1, <1>4 DEF TrashKept, Excused
  <2>2. \A q \in Requests : work'[q].gone = work[q].gone
    BY <1>7, <1>8
  <2>3. QED
    BY <1>1, <1>13, <2>1, <2>2, GoneStep DEF ChatInv
<1>16. QED
  BY <1>4, <1>13, <1>14, <1>15 DEF ChatInv

\* After a restart of the adapter no confirmation can be given, and nobody deletes.
LEMMA RestartStep ==
  ASSUME ServiceInv, ChatInv, AdapterRestarts
  PROVE  ServiceInv' /\ ChatInv'
<1>1. /\ pending' = [c \in Requests |-> IF pending[c] = Null THEN Null
                                        ELSE [pending[c] EXCEPT !.open = FALSE]]
      /\ work' = [r \in Requests |-> IF work[r].stage \in {"agent", "rules", "deleting"}
                                     THEN [work[r] EXCEPT !.stage = "answered"] ELSE work[r]]
      /\ UNCHANGED <<serviceVars, trashedAt, batch, confirmed, excused>>
  BY DEF AdapterRestarts
<1>2. ServiceInv' /\ TrashKept
  BY <1>1, SameService
<1>3. ASSUME NEW r \in Requests
      PROVE  /\ work'[r] \in WorkStates /\ SentOnce(work'[r])
             /\ work'[r].ask = work[r].ask /\ work'[r].of = work[r].of
             /\ work'[r].user = work[r].user /\ work'[r].gone = work[r].gone
             /\ work'[r].running = work[r].running
             /\ work[r].stage = "answered" => work'[r].stage = "answered"
             /\ work'[r].stage # "deleting"
             /\ work[r].stage = "none" => work'[r].stage = "none"
  <2>1. work[r] \in WorkStates /\ SentOnce(work[r])
    BY DEF ChatInv, ChatTypes, RequestsInv
  <2>2. CASE work[r].stage \in {"agent", "rules", "deleting"}
    <3> DEFINE w == [work[r] EXCEPT !.stage = "answered"]
    <3>1. work'[r] = w
      BY <1>1, <2>2
    <3>2. /\ w \in WorkStates /\ w.stage = "answered"
          /\ w.ask = work[r].ask /\ w.of = work[r].of /\ w.user = work[r].user
          /\ w.gone = work[r].gone /\ w.running = work[r].running
          /\ w.sends = work[r].sends /\ w.fault = work[r].fault /\ w.told = work[r].told
          /\ w.byRules = work[r].byRules /\ w.erred = work[r].erred
      BY <2>1 DEF WorkStates, Stages
    <3> HIDE DEF w
    <3>3. SentOnce(w)
      BY <2>1, <3>2 DEF SentOnce
    <3>4. QED
      BY <2>2, <3>1, <3>2, <3>3
  <2>3. CASE work[r].stage \notin {"agent", "rules", "deleting"}
    BY <1>1, <2>1, <2>3
  <2>4. QED
    BY <2>2, <2>3
<1>4. ASSUME NEW c \in Requests, pending[c] # Null
      PROVE  /\ pending'[c] \in Prompts /\ ~pending'[c].open
             /\ pending'[c].user = pending[c].user /\ pending'[c].mail = pending[c].mail
  <2>1. pending[c] \in Prompts /\ pending'[c] = [pending[c] EXCEPT !.open = FALSE]
    BY <1>1, <1>4 DEF ChatInv, ChatTypes
  <2>2. QED
    BY <2>1 DEF Prompts
<1>5. \A c \in Requests : pending[c] = Null => pending'[c] = Null
  BY <1>1
<1>6. work' \in [Requests -> WorkStates]
  BY <1>1, <1>3
<1>7. pending' \in [Requests -> {Null} \cup Prompts]
  <2>1. \A c \in Requests : pending'[c] \in {Null} \cup Prompts
    BY <1>4, <1>5
  <2>2. pending' = [c \in Requests |-> pending'[c]]
    BY <1>1
  <2>3. QED
    BY <2>1, <2>2
<1>8. ASSUME NEW r \in Requests
      PROVE  Holds(r)'
  <2>1. Holds(r)
    BY DEF ChatInv, RequestsInv
  <2>2. work[r].ask = "confirm" => work[r].of \in Requests /\ pending'[work[r].of] \in Prompts
    BY <1>4, <2>1, RequestsAssumption DEF Holds
  <2>3. QED
    BY <1>3, <2>1, <2>2 DEF Holds
<1>9. ASSUME NEW c \in Requests
      PROVE  Used(c)'
  <2>1. Used(c)
    BY DEF ChatInv, RequestsInv
  <2>2. CASE confirmed[c] = {}
    BY <1>1, <1>3, <1>5, <2>1, <2>2 DEF Used
  <2>3. CASE confirmed[c] # {}
    <3>1. PICK d : /\ confirmed[c] = {d}
                   /\ d.mail = pending[c].mail
                   /\ d.by \in Requests /\ work[d.by].stage = "answered"
                   /\ work[d.by].user = pending[c].user
      BY <2>1, <2>3 DEF Used
    <3>2. pending[c] # Null /\ work[c].stage = "answered"
      BY <2>1, <2>3, RequestsAssumption DEF Used
    <3>3. /\ pending'[c] \in Prompts /\ ~pending'[c].open
          /\ pending'[c].mail = pending[c].mail /\ pending'[c].user = pending[c].user
      BY <1>4, <3>2
    <3>4. work'[d.by].stage = "answered" /\ work'[d.by].user = pending'[c].user
      BY <1>3, <3>1, <3>3
    <3>5. work'[c].stage = "answered" /\ confirmed'[c] = {d} /\ d.mail = pending'[c].mail
      BY <1>1, <1>3, <3>1, <3>2, <3>3
    <3>6. QED
      BY <3>1, <3>3, <3>4, <3>5 DEF Used
  <2>4. QED
    BY <2>2, <2>3
<1>10. ChatTypes'
  BY <1>1, <1>6, <1>7 DEF ChatInv, ChatTypes, PerMessage
<1>11. RequestsInv'
  BY <1>3, <1>8, <1>9 DEF RequestsInv
<1>12. GoneInv'
  <2>1. \A m \in Msgs : Excused(m) => Excused(m)'
    BY <1>1, <1>2 DEF TrashKept, Excused
  <2>2. QED
    BY <1>1, <1>3, <1>10, <2>1, GoneStep DEF ChatInv
<1>13. QED
  BY <1>2, <1>10, <1>11, <1>12 DEF ChatInv

\* A request is taken.
LEMMA InvokeStep ==
  ASSUME ServiceInv, ChatInv, topic \in Topics, NEW r \in Requests, NEW u \in Users,
         NEW c \in Requests \cup {Null}, Invoke(r, u, c)
  PROVE  ServiceInv' /\ ChatInv'
<1> DEFINE ask == Case[topic].asks[r]
           w == [Idle EXCEPT !.stage = "agent", !.ask = ask, !.user = u, !.of = c, !.running = TRUE]
<1>1. /\ work[r].stage = "none" /\ (ask = "confirm") = (c # Null)
      /\ c # Null => pending[c] # Null
      /\ work' = [work EXCEPT ![r] = w]
      /\ UNCHANGED <<trashedAt, batch, pending, confirmed, excused>> /\ UNCHANGED serviceVars
  BY DEF Invoke, Quiet
<1>2. ServiceInv' /\ TrashKept
  BY <1>1, SameService
<1>3. ask \in Asks
  BY CaseAssumption DEF Asks
<1> HIDE DEF ask
<1>4. /\ w \in WorkStates /\ w.stage = "agent" /\ w.ask = ask /\ w.of = c /\ w.user = u
      /\ w.gone = {} /\ w.sends = 0 /\ ~w.byRules
  BY <1>3 DEF WorkStates, Stages, Idle
<1> HIDE DEF w
<1>5. /\ work' = [q \in Requests |-> work'[q]]
      /\ \A q \in Requests : work'[q] = IF q = r THEN w ELSE work[q]
  BY <1>1 DEF ChatInv, ChatTypes
<1>6. SentOnce(w)
  BY <1>4 DEF SentOnce
<1>7. ask = "confirm" => c \in Requests /\ pending[c] \in Prompts
  BY <1>1 DEF ChatInv, ChatTypes
<1>8. ASSUME NEW q \in Requests
      PROVE  Holds(q)'
  <2>1. Holds(q)
    BY DEF ChatInv, RequestsInv
  <2>2. \A n \in Requests : work'[n].stage = "deleting" => work'[n] = work[n]
    BY <1>4, <1>5
  <2>3. CASE q = r
    BY <1>1, <1>4, <1>5, <1>7, <2>3 DEF Holds
  <2>4. CASE q # r
    BY <1>1, <1>5, <2>1, <2>2, <2>4 DEF Holds, Deletes
  <2>5. QED
    BY <2>3, <2>4
<1>9. ASSUME NEW d \in Requests
      PROVE  Used(d)'
  <2>1. Used(d)
    BY DEF ChatInv, RequestsInv
  <2>2. pending[d] # Null => work'[d].stage = "answered"
    BY <1>1, <1>5, <2>1 DEF Used
  <2>3. CASE confirmed[d] = {}
    BY <1>1, <2>2, <2>3 DEF Used
  <2>4. CASE confirmed[d] # {}
    <3>1. PICK e : /\ confirmed[d] = {e}
                   /\ e.mail = pending[d].mail
                   /\ e.by \in Requests /\ work[e.by].stage = "answered"
                   /\ work[e.by].user = pending[d].user
      BY <2>1, <2>4 DEF Used
    <3>2. work'[e.by] = work[e.by]
      BY <1>1, <1>5, <3>1
    <3>3. QED
      BY <1>1, <2>1, <2>2, <2>4, <3>1, <3>2 DEF Used
  <2>5. QED
    BY <2>3, <2>4
<1>10. ChatTypes'
  <2>1. work' \in [Requests -> WorkStates]
    BY <1>4, <1>5 DEF ChatInv, ChatTypes
  <2>2. QED
    BY <1>1, <2>1 DEF ChatInv, ChatTypes, PerMessage
<1>11. RequestsInv'
  BY <1>5, <1>6, <1>8, <1>9 DEF ChatInv, RequestsInv
<1>12. GoneInv'
  <2>1. \A m \in Msgs : Excused(m) => Excused(m)'
    BY <1>1, <1>2 DEF TrashKept, Excused
  <2>2. \A q \in Requests : \A m \in work'[q].gone : m \in work[q].gone
    BY <1>4, <1>5
  <2>3. QED
    BY <1>1, <1>10, <2>1, <2>2, GoneStep DEF ChatInv
<1>13. QED
  BY <1>2, <1>10, <1>11, <1>12 DEF ChatInv

\* What happens outside the requests.
LEMMA OutsideStep ==
  ASSUME ChatInv, UNCHANGED <<work, trashedAt, batch, pending, confirmed>>,
         \A m \in Msgs : Excused(m) => Excused(m)'
  PROVE  ChatInv'
<1>1. ChatTypes'
  BY DEF ChatInv, ChatTypes, PerMessage
<1>2. RequestsInv'
  BY DEF ChatInv, RequestsInv, SentOnce, Holds, Used, Deletes
<1>3. GoneInv'
  BY <1>1, GoneStep DEF ChatInv
<1>4. QED
  BY <1>1, <1>2, <1>3 DEF ChatInv

LEMMA ChattingKeeps ==
  ASSUME ServiceInv, ChatInv, topic \in Topics, Chatting
  PROVE  ServiceInv' /\ ChatInv'
<1>1. Actors \subseteq Users
  BY CaseAssumption DEF Actors
<1>2. ASSUME NEW r \in Requests, NEW u \in Actors, NEW c \in Requests \cup {Null}, Invoke(r, u, c)
      PROVE  ServiceInv' /\ ChatInv'
  BY <1>1, <1>2, InvokeStep
<1>3. ASSUME NEW r \in Requests, NEW m \in Msgs, NEW out \in Outcomes,
             \/ SendMail(r, m, out)
             \/ HandleSend(r, m, out)
             \/ DeleteMail(r, m, out)
             \/ UseTool(r, m, out)
             \/ HandleFile(r, m, out)
      PROVE  ServiceInv' /\ ChatInv'
  BY <1>3, ModelSends, RulesSend, DeleteMailStep, UseToolStep, HandleFileStep
<1>4. ASSUME NEW r \in Requests,
             \/ \E ms \in SUBSET {m \in Msgs : Here(m)} : ListForBatch(r, ms)
             \/ \E answered, moved \in SUBSET batch[r] : DeleteMailBatch(r, answered, moved)
      PROVE  ServiceInv' /\ ChatInv'
  BY <1>4, ListForBatchStep, DeleteMailBatchStep
<1>5. ASSUME Tick, UNCHANGED chatVars
      PROVE  ServiceInv' /\ ChatInv'
  <2>1. ServiceInv' /\ TrashKept
    BY <1>5, TickStep
  <2>2. \A m \in Msgs : Excused(m) => Excused(m)'
    BY <1>5, <2>1 DEF TrashKept, Excused, chatVars
  <2>3. QED
    BY <1>5, <2>1, <2>2, OutsideStep DEF chatVars
<1>6. ASSUME NEW m \in Msgs, NEW labels \in Labellings, ChangeElsewhere(m, labels),
             excused' = excused \cup {m},
             UNCHANGED <<work, trashedAt, batch, pending, confirmed>>
      PROVE  ServiceInv' /\ ChatInv'
  <2>1. ServiceInv' /\ \A n \in Msgs : n # m /\ InTrash(n) => InTrash(n)'
    BY <1>6, ElsewhereStep, LabellingsAssumption
  <2>2. \A n \in Msgs : Excused(n) => Excused(n)'
    BY <1>6, <2>1 DEF Excused
  <2>3. QED
    BY <1>6, <2>1, <2>2, OutsideStep
<1>7. QED
  BY <1>2, <1>3, <1>4, <1>5, <1>6, RunChatStep, GiveUpStep, HandleDeleteStep,
     HandleDeleteConfirmStep, DeleteConfirmedStep, RestartStep DEF Chatting

\* Where nobody chats nothing was reported as deleted.
Chats == topic \in {"sending", "filing", "deleting", "confirming", "confirmed"}
NothingGone ==
  /\ \A r \in Requests : work[r].gone = {}
  /\ \A u \in Users, m \in Msgs : trashedAt[u][m] = Null

LEMMA SilentStep ==
  ASSUME ChatInv, UNCHANGED chatVars, NothingGone
  PROVE  ChatInv' /\ NothingGone'
<1>1. ChatTypes' /\ NothingGone'
  BY DEF ChatInv, ChatTypes, PerMessage, NothingGone, chatVars
<1>2. RequestsInv'
  BY DEF ChatInv, RequestsInv, SentOnce, Holds, Used, Deletes, chatVars
<1>3. GoneInv'
  BY <1>1 DEF GoneInv, NothingGone
<1>4. QED
  BY <1>1, <1>2, <1>3 DEF ChatInv

(***************************************************************************)
(* The agent                                                               *)
(***************************************************************************)

AgentInv == topic \in Topics /\ ServiceInv /\ ChatInv /\ (Chats \/ NothingGone)

LEMMA AgentInit == Init => AgentInv
<1> SUFFICES ASSUME Init
             PROVE  AgentInv
  OBVIOUS
<1>1. ServiceInv
  <2>1. /\ topic \in Topics
        /\ box = Case[topic].box /\ token = Case[topic].token /\ now = Case[topic].clock
        /\ client = [u \in Users |-> Null]
        /\ copies = [u \in Users |-> [m \in Msgs |-> Null]]
    BY DEF Init, ServiceInit
  <2>2. ServiceTypes
    BY <2>1, CaseAssumption DEF ServiceTypes, PerMessage
  <2>3. QED
    BY <2>1, <2>2 DEF ServiceInv, ClientsBound, AllCopiesAgree
<1>2. /\ work = [r \in Requests |-> Idle]
      /\ trashedAt = [u \in Users |-> [m \in Msgs |-> Null]]
      /\ batch = [r \in Requests |-> Null]
      /\ pending = [r \in Requests |-> Null]
      /\ confirmed = [r \in Requests |-> {}]
  BY DEF Init
<1>3. ChatTypes
  <2>1. Idle \in WorkStates
    BY DEF Idle, WorkStates, Stages, Asks
  <2>2. QED
    BY <1>2, <2>1 DEF ChatTypes, PerMessage
<1>4. RequestsInv
  BY <1>2 DEF RequestsInv, SentOnce, Holds, Used, Idle
<1>5. NothingGone
  BY <1>2 DEF NothingGone, Idle
<1>6. GoneInv
  BY <1>5 DEF GoneInv, NothingGone
<1>7. QED
  BY <1>1, <1>3, <1>4, <1>5, <1>6 DEF AgentInv, ChatInv, Init

LEMMA AgentStep == AgentInv /\ [Next]_vars => AgentInv'
<1> SUFFICES ASSUME AgentInv, [Next]_vars
             PROVE  AgentInv'
  OBVIOUS
<1>1. CASE Chatting /\ Chats /\ UNCHANGED topic
  BY <1>1, ChattingKeeps DEF AgentInv, Chats
<1>2. CASE (Reading \/ Paging \/ Scanning) /\ UNCHANGED topic /\ UNCHANGED chatVars /\ ~Chats
  BY <1>2, ReadingKeeps, PagingKeeps, ScanningKeeps, SilentStep DEF AgentInv, Chats
<1>3. CASE UNCHANGED topic /\ UNCHANGED serviceVars /\ UNCHANGED chatVars
  <2>1. ServiceInv' /\ TrashKept
    BY <1>3, SameService DEF AgentInv
  <2>2. \A m \in Msgs : Excused(m) => Excused(m)'
    BY <1>3, <2>1 DEF TrashKept, Excused, chatVars
  <2>3. ChatInv'
    BY <1>3, <2>2, OutsideStep DEF AgentInv, chatVars
  <2>4. QED
    BY <1>3, <2>1, <2>3 DEF AgentInv, Chats, NothingGone, chatVars
<1>4. QED
  BY <1>1, <1>2, <1>3 DEF Next, vars, Chats

\* What the service keeps of Gmail agrees with it, as far as it can know.
THEOREM CopiesAlwaysAgree == Spec => []CopiesAgree
<1>1. AgentInv => CopiesAgree
  BY ServiceInvAgrees DEF AgentInv
<1>2. QED
  BY AgentInit, AgentStep, <1>1, PTL DEF Spec

\* A chat request writes once as far as the code sees to it, and is told the truth
\* about it: whatever tools its model uses, in whatever order.
THEOREM ChatAlwaysWritesOnce == Spec => []ChatWritesOnce
<1>1. AgentInv => ChatWritesOnce
  BY ChatInvWritesOnce DEF AgentInv
<1>2. QED
  BY AgentInit, AgentStep, <1>1, PTL DEF Spec

(***************************************************************************)
(* The calendar                                                            *)
(***************************************************************************)

\* A day ends after every time of it.
LEMMA DayEnds ==
  ASSUME NEW h \in Nat \ {0}, NEW a \in Int
  PROVE  (a \div h + 1) * h >= a
<1>1. h \in Int /\ h > 0
  OBVIOUS
<1>2. a \div h \in Int /\ a % h \in 0..(h - 1)
  OBVIOUS
<1>3. a = h * (a \div h) + (a % h)
  OBVIOUS
<1>4. (a \div h + 1) * h = h * (a \div h) + h
  BY <1>1, <1>2
<1>5. QED
  BY <1>1, <1>2, <1>3, <1>4

\* What a model proposes ends no earlier than it starts.
Sound(p) == p.by = "rules" \/ (p.by = "model" /\ p.end >= p.start)

LEMMA ModelsAreSound ==
  ASSUME NEW ms, NEW items \in LlmItems, NEW today,
         NEW p \in ExtractWithLlm(ms, items, today)
  PROVE  Sound(p)
<1> DEFINE day(x) == x.start \div HoursPerDay
           end(x) == IF x.allDay THEN (day(x) + 1) * HoursPerDay
                     ELSE IF x.end = Missing \/ x.end <= x.start THEN x.start + 1 ELSE x.end
<1>1. PICK x \in items : /\ p.by = "model" /\ p.start = x.start /\ p.end = end(x)
  BY DEF ExtractWithLlm
<1>2. x.start \in Int /\ x.end \in Int \cup {Missing}
  BY LlmItemsAssumption
<1>3. CASE x.allDay
  BY <1>1, <1>2, <1>3, HoursAssumption, DayEnds DEF Sound
<1>4. CASE ~x.allDay /\ (x.end = Missing \/ x.end <= x.start)
  <2>1. p.end = x.start + 1
    BY <1>1, <1>4
  <2>2. QED
    BY <1>1, <1>2, <2>1 DEF Sound
<1>5. CASE ~x.allDay /\ ~(x.end = Missing \/ x.end <= x.start)
  <2>1. p.end = x.end /\ x.end \in Int /\ ~(x.end <= x.start)
    BY <1>1, <1>2, <1>5
  <2>2. QED
    BY <1>1, <1>2, <2>1 DEF Sound
<1>6. QED
  BY <1>3, <1>4, <1>5

LEMMA ExtractedAreSound ==
  ASSUME NEW ms, NEW mode, NEW answers, NEW items \in LlmItems, NEW today,
         NEW p \in ExtractSchedules(ms, mode, answers, items, today)
  PROVE  Sound(p)
<1>1. ASSUME p \in ExtractWithRules(ms, today)
      PROVE  Sound(p)
  <2>1. PICK i \in DOMAIN ms : p \in ParseSchedule(ms[i], today)
    BY <1>1 DEF ExtractWithRules
  <2>2. PICK n : p = ScheduleOf(ms[i], Lines[ms[i]][n])
    BY <2>1 DEF ParseSchedule
  <2>3. QED
    BY <2>2 DEF ScheduleOf, Sound
<1>2. p \in ExtractWithRules(ms, today) \/ p \in ExtractWithLlm(ms, items, today)
  BY DEF ExtractSchedules
<1>3. QED
  BY <1>1, <1>2, ModelsAreSound

\* An event of the calendar, its number and its times.
Entry(e) ==
  /\ e = [id |-> e.id, email |-> e.email, title |-> e.title, start |-> e.start, end |-> e.end,
          via |-> e.via, missed |-> e.missed, updated |-> e.updated, raced |-> e.raced]
  /\ e.id \in Nat /\ e.id <= made
  /\ e.end >= e.start \/ e.raced \/ (e.via = "rules" /\ ~e.updated)

\* The later event is the same schedule again.
Again(e, f) ==
  /\ e.id < f.id /\ f.via # "hand"
  /\ ~e.updated /\ ~f.updated
  /\ e.start = f.start /\ (e.title = f.title \/ e.email = f.email)

\* An import that is under way knows every event, or knows to have missed it.
ImportKnows(w) ==
  /\ w = [chosen |-> w.chosen, seen |-> w.seen, missed |-> w.missed]
  /\ DOMAIN w.chosen = 1..Len(w.chosen) /\ Len(w.chosen) \in Nat
  /\ \A n \in DOMAIN w.chosen : Sound(w.chosen[n])
  /\ \A e \in events : e \in w.seen \/ e.id \in w.missed \/ e.updated

\* An update that nobody overtook was checked against the event as it is.
UpdateKnows(w) ==
  /\ w = [id |-> w.id, patch |-> w.patch, overtaken |-> w.overtaken]
  /\ w.id \in Nat /\ w.id <= made
  /\ w.overtaken \/ \A e \in events : e.id = w.id => Checked(e, w.patch)

CalendarTypes ==
  /\ made \in Nat
  /\ imports = [i \in Importers |-> imports[i]]
  /\ updates = [k \in Editors |-> updates[k]]
  /\ \A p \in proposals : Sound(p)

EventsInv ==
  /\ \A e \in events : Entry(e)
  /\ \A e, f \in events : e.id = f.id => e = f
  /\ \A e, f \in events : Again(e, f) => e.id \in f.missed

UnderWay ==
  /\ \A i \in Importers : imports[i] # Missing => ImportKnows(imports[i])
  /\ \A k \in Editors : updates[k] # Missing => UpdateKnows(updates[k])

CalendarInv == CalendarTypes /\ EventsInv /\ UnderWay

\* It says what the run checks.
LEMMA CalendarInvKept == CalendarInv => CalendarKept
BY DEF CalendarInv, EventsInv, Entry, Again, CalendarKept

\* Events are added: what is under way misses them.
LEMMA AddedStep ==
  ASSUME CalendarInv, NEW news, NEW ids,
         events' = events \cup news,
         made' \in Nat, made <= made',
         \A e \in news : Entry(e)' /\ made < e.id /\ e.id \in ids,
         \A e, f \in news : e.id = f.id => e = f,
         \A e \in events, f \in news : Again(e, f) => e.id \in f.missed,
         \A e, f \in news : Again(e, f) => e.id \in f.missed,
         imports' = [i \in Importers |-> imports'[i]],
         \A i \in Importers : imports'[i] # Missing =>
           imports[i] # Missing /\ imports'[i] = [imports[i] EXCEPT !.missed = @ \cup ids],
         UNCHANGED <<proposals, updates>>
  PROVE  CalendarInv'
<1>1. made \in Nat /\ \A e \in events : Entry(e) /\ e.id \in Nat /\ e.id <= made
  BY DEF CalendarInv, CalendarTypes, EventsInv, Entry
<1>2. \A e \in news : e.id \in Nat /\ made < e.id
  BY DEF Entry
<1>3. ASSUME NEW e \in events
      PROVE  Entry(e)'
  BY <1>1, <1>3 DEF Entry
<1>4. ASSUME NEW e \in events', NEW f \in events', e.id = f.id
      PROVE  e = f
  <2>1. (e \in events) = (f \in events) \/ (e \in news /\ f \in news)
    BY <1>1, <1>2, <1>4
  <2>2. QED
    BY <1>4, <2>1 DEF CalendarInv, EventsInv
<1>5. ASSUME NEW e \in events', NEW f \in events', Again(e, f)
      PROVE  e.id \in f.missed
  <2>1. CASE f \in news
    BY <1>5, <2>1
  <2>2. CASE f \in events /\ e \in events
    BY <1>5, <2>2 DEF CalendarInv, EventsInv
  <2>3. CASE f \in events /\ e \in news
    BY <1>1, <1>2, <1>5, <2>3 DEF Again
  <2>4. QED
    BY <2>1, <2>2, <2>3
<1>6. EventsInv'
  BY <1>3, <1>4, <1>5 DEF EventsInv, Again
<1>7. ASSUME NEW i \in Importers, imports'[i] # Missing
      PROVE  ImportKnows(imports[i])'
  <2>1. ImportKnows(imports[i]) /\ imports'[i] = [imports[i] EXCEPT !.missed = @ \cup ids]
    BY <1>7 DEF CalendarInv, UnderWay
  <2>2. /\ imports'[i] = [chosen |-> imports[i].chosen, seen |-> imports[i].seen,
                          missed |-> imports[i].missed \cup ids]
    BY <2>1 DEF ImportKnows
  <2>3. /\ imports'[i].chosen = imports[i].chosen /\ imports'[i].seen = imports[i].seen
        /\ imports'[i].missed = imports[i].missed \cup ids
    BY <2>2
  <2>4. QED
    BY <2>1, <2>2, <2>3 DEF ImportKnows
<1>8. ASSUME NEW k \in Editors, updates'[k] # Missing
      PROVE  UpdateKnows(updates[k])'
  <2>1. updates'[k] = updates[k] /\ UpdateKnows(updates[k])
    BY <1>8 DEF CalendarInv, UnderWay
  <2>2. \A e \in news : e.id # updates[k].id
    BY <1>1, <1>2, <2>1 DEF UpdateKnows
  <2>3. updates[k].id <= made'
    BY <1>1, <2>1 DEF UpdateKnows
  <2>4. QED
    BY <2>1, <2>2, <2>3 DEF UpdateKnows, Checked, Given
<1>9. CalendarTypes'
  BY DEF CalendarInv, CalendarTypes, Sound
<1>10. QED
  BY <1>6, <1>7, <1>8, <1>9 DEF CalendarInv, UnderWay

LEMMA CreateStep ==
  ASSUME CalendarInv, NEW title, NEW start, NEW end, CreateEvent(title, start, end)
  PROVE  CalendarInv'
<1> DEFINE x == Event(made + 1, Missing, title, start, end, "hand", {})
<1>1. /\ end >= start /\ made' = made + 1 /\ events' = events \cup {x}
      /\ imports' = [i \in Importers |-> IF imports[i] = Missing THEN Missing
                                         ELSE [imports[i] EXCEPT !.missed = @ \cup {made + 1}]]
      /\ UNCHANGED <<proposals, updates>>
  BY DEF CreateEvent, Missed
<1>2. made \in Nat
  BY DEF CalendarInv, CalendarTypes
<1>3. /\ x = [id |-> made + 1, email |-> Missing, title |-> title, start |-> start, end |-> end,
              via |-> "hand", missed |-> {}, updated |-> FALSE, raced |-> FALSE]
      /\ x.id = made + 1 /\ x.via = "hand" /\ x.end >= x.start
  BY <1>1 DEF Event
<1> HIDE DEF x
<1>4. ASSUME NEW e, e = x
      PROVE  Entry(e)' /\ made < e.id /\ e.id \in {made + 1}
  BY <1>1, <1>2, <1>3, <1>4 DEF Entry
<1>5. \A e : ~Again(e, x)
  BY <1>3 DEF Again
<1>6. /\ imports' = [i \in Importers |-> imports'[i]]
      /\ \A i \in Importers : imports'[i] # Missing =>
           imports[i] # Missing /\ imports'[i] = [imports[i] EXCEPT !.missed = @ \cup {made + 1}]
  BY <1>1
<1> DEFINE news == {x}
           ids == {made + 1}
<1>7. /\ events' = events \cup news /\ made' \in Nat /\ made <= made'
      /\ \A e \in news : Entry(e)' /\ made < e.id /\ e.id \in ids
      /\ \A e, f \in news : e.id = f.id => e = f
      /\ \A e \in events, f \in news : Again(e, f) => e.id \in f.missed
      /\ \A e, f \in news : Again(e, f) => e.id \in f.missed
  BY <1>1, <1>2, <1>4, <1>5
<1>8. \A i \in Importers : imports'[i] # Missing =>
        imports[i] # Missing /\ imports'[i] = [imports[i] EXCEPT !.missed = @ \cup ids]
  BY <1>6
<1> HIDE DEF news, ids
<1>9. QED
  BY <1>1, <1>6, <1>7, <1>8, AddedStep

\* The step of a calendar's request that leaves the events.
LEMMA BeginUpdateStep ==
  ASSUME CalendarInv, NEW k \in Editors, NEW e \in events, NEW patch, BeginUpdate(k, e, patch)
  PROVE  CalendarInv'
<1> DEFINE w == [id |-> e.id, patch |-> patch, overtaken |-> FALSE]
<1>1. /\ Checked(e, patch) /\ updates' = [updates EXCEPT ![k] = w]
      /\ UNCHANGED <<events, proposals, imports, made>>
  BY DEF BeginUpdate
<1>2. /\ \A f \in events : f.id = e.id => f = e
      /\ e.id \in Nat /\ e.id <= made
  BY DEF CalendarInv, EventsInv, Entry
<1>3. UpdateKnows(w)
  BY <1>1, <1>2 DEF UpdateKnows
<1> HIDE DEF w
<1>4. /\ updates' = [j \in Editors |-> updates'[j]]
      /\ \A j \in Editors : updates'[j] = IF j = k THEN w ELSE updates[j]
  BY <1>1 DEF CalendarInv, CalendarTypes
<1>5. \A j \in Editors : updates'[j] # Missing => UpdateKnows(updates'[j])
  BY <1>3, <1>4 DEF CalendarInv, UnderWay
<1>6. \A j \in Editors : updates'[j] # Missing => UpdateKnows(updates[j])'
  BY <1>1, <1>5 DEF UpdateKnows, Checked, Given
<1>7. EventsInv'
  BY <1>1 DEF CalendarInv, EventsInv, Entry, Again
<1>8. \A i \in Importers : imports'[i] # Missing => ImportKnows(imports[i])'
  BY <1>1 DEF CalendarInv, UnderWay, ImportKnows, Sound
<1>9. CalendarTypes'
  BY <1>1, <1>4 DEF CalendarInv, CalendarTypes, Sound
<1>10. QED
  BY <1>6, <1>7, <1>8, <1>9 DEF CalendarInv, UnderWay

\* What the user is shown.
LEMMA ExtractStep ==
  ASSUME CalendarInv, NEW ms, NEW mode, NEW answers, NEW items \in LlmItems, NEW today,
         Extract(ms, mode, answers, items, today)
  PROVE  CalendarInv'
<1>1. /\ proposals' = ExtractSchedules(ms, mode, answers, items, today)
      /\ UNCHANGED <<events, imports, updates, made>>
  BY DEF Extract
<1>2. \A p \in proposals' : Sound(p)
  BY <1>1, ExtractedAreSound
<1>3. CalendarTypes'
  BY <1>1, <1>2 DEF CalendarInv, CalendarTypes, Sound
<1>4. EventsInv'
  BY <1>1 DEF CalendarInv, EventsInv, Entry, Again
<1>5. UnderWay'
  BY <1>1 DEF CalendarInv, UnderWay, ImportKnows, UpdateKnows, Sound, Checked, Given
<1>6. QED
  BY <1>3, <1>4, <1>5 DEF CalendarInv

\* An import reads the calendar; its user chose of what was shown.
LEMMA BeginImportStep ==
  ASSUME CalendarInv, NEW i \in Importers, NEW chosen, BeginImport(i, chosen),
         DOMAIN chosen = 1..Len(chosen), Len(chosen) \in Nat,
         \A n \in DOMAIN chosen : chosen[n] \in proposals
  PROVE  CalendarInv'
<1> DEFINE w == [chosen |-> chosen, seen |-> events, missed |-> {}]
<1>1. /\ imports' = [imports EXCEPT ![i] = w]
      /\ UNCHANGED <<events, proposals, updates, made>>
  BY DEF BeginImport
<1>2. ImportKnows(w)
  BY DEF ImportKnows, CalendarInv, CalendarTypes
<1> HIDE DEF w
<1>3. /\ imports' = [j \in Importers |-> imports'[j]]
      /\ \A j \in Importers : imports'[j] = IF j = i THEN w ELSE imports[j]
  BY <1>1 DEF CalendarInv, CalendarTypes
<1>4. \A j \in Importers : imports'[j] # Missing => ImportKnows(imports'[j])
  BY <1>2, <1>3 DEF CalendarInv, UnderWay
<1>5. \A j \in Importers : imports'[j] # Missing => ImportKnows(imports[j])'
  BY <1>1, <1>4 DEF ImportKnows, Sound
<1>6. EventsInv'
  BY <1>1 DEF CalendarInv, EventsInv, Entry, Again
<1>7. \A k \in Editors : updates'[k] # Missing => UpdateKnows(updates[k])'
  BY <1>1 DEF CalendarInv, UnderWay, UpdateKnows, Checked, Given
<1>8. CalendarTypes'
  BY <1>1, <1>3 DEF CalendarInv, CalendarTypes, Sound
<1>9. QED
  BY <1>5, <1>6, <1>7, <1>8 DEF CalendarInv, UnderWay

\* An event after an update of it, whatever came between.
Mended(e, w) ==
  [e EXCEPT !.title = Given(w.patch, "title", @),
            !.start = Given(w.patch, "start", @),
            !.end = Given(w.patch, "end", @),
            !.updated = TRUE,
            !.raced = @ \/ w.overtaken]

LEMMA MendedEntry ==
  ASSUME NEW e, Entry(e), NEW w, w.overtaken \/ Checked(e, w.patch)
  PROVE  /\ Entry(Mended(e, w))
         /\ Mended(e, w).id = e.id /\ Mended(e, w).missed = e.missed /\ Mended(e, w).updated
<1> DEFINE b == e.raced \/ w.overtaken
           start == Given(w.patch, "start", e.start)
           end == Given(w.patch, "end", e.end)
           x == Mended(e, w)
<1>1. b \in BOOLEAN /\ (w.overtaken => b)
  BY Zenon
<1>2. b \/ end >= start
  BY <1>1 DEF Checked
<1>3. x = [e EXCEPT !.title = Given(w.patch, "title", e.title), !.start = start, !.end = end,
                    !.updated = TRUE, !.raced = b]
  BY DEF Mended
<1> HIDE DEF b, start, end, x
<1>4. x = [id |-> e.id, email |-> e.email, title |-> Given(w.patch, "title", e.title),
           start |-> start, end |-> end, via |-> e.via, missed |-> e.missed,
           updated |-> TRUE, raced |-> b]
  BY <1>3 DEF Entry
<1>5. /\ x.id = e.id /\ x.missed = e.missed /\ x.updated = TRUE /\ x.raced = b
      /\ x.start = start /\ x.end = end
      /\ x = [id |-> x.id, email |-> x.email, title |-> x.title, start |-> x.start, end |-> x.end,
              via |-> x.via, missed |-> x.missed, updated |-> x.updated, raced |-> x.raced]
  BY <1>4
<1>6. Entry(x)
  BY <1>2, <1>5 DEF Entry
<1>7. QED
  BY <1>5, <1>6 DEF x

LEMMA EndUpdateStep ==
  ASSUME CalendarInv, NEW k \in Editors, EndUpdate(k)
  PROVE  CalendarInv'
<1> DEFINE w == updates[k]
           after(e) == IF e.id # w.id THEN e ELSE Mended(e, w)
<1>1. /\ w # Missing /\ events' = {after(e) : e \in events}
      /\ updates' = [j \in Editors |->
                       IF j = k THEN Missing
                       ELSE IF updates[j] # Missing /\ updates[j].id = w.id
                            THEN [updates[j] EXCEPT !.overtaken = TRUE] ELSE updates[j]]
      /\ UNCHANGED <<proposals, imports, made>>
  BY DEF EndUpdate, Mended
<1>2. UpdateKnows(w)
  BY <1>1 DEF CalendarInv, UnderWay
<1> HIDE DEF w
<1>3. ASSUME NEW e \in events
      PROVE  /\ Entry(after(e)) /\ after(e).id = e.id /\ after(e).missed = e.missed
             /\ e.id # w.id => after(e) = e
             /\ after(e) = e \/ after(e).updated
  <2>1. Entry(e)
    BY DEF CalendarInv, EventsInv
  <2>2. CASE e.id # w.id
    BY <2>1, <2>2
  <2>3. CASE e.id = w.id
    <3>1. w.overtaken \/ Checked(e, w.patch)
      BY <1>2, <2>3 DEF UpdateKnows
    <3>2. QED
      BY <2>1, <2>3, <3>1, MendedEntry
  <2>4. QED
    BY <2>2, <2>3
<1>4. \A x \in events' : \E e \in events : x = after(e)
  BY <1>1
<1> HIDE DEF after
<1>5. ASSUME NEW x \in events'
      PROVE  Entry(x)'
  <2>1. Entry(x)
    BY <1>3, <1>4
  <2>2. QED
    BY <1>1, <2>1 DEF Entry
<1>6. ASSUME NEW x \in events', NEW y \in events', x.id = y.id
      PROVE  x = y
  <2>1. PICK e \in events : x = after(e)
    BY <1>4
  <2>2. PICK f \in events : y = after(f)
    BY <1>4
  <2>3. e = f
    BY <1>3, <1>6, <2>1, <2>2 DEF CalendarInv, EventsInv
  <2>4. QED
    BY <2>1, <2>2, <2>3
<1>7. ASSUME NEW x \in events', NEW y \in events', Again(x, y)
      PROVE  x.id \in y.missed
  <2>1. PICK e \in events : x = after(e)
    BY <1>4
  <2>2. PICK f \in events : y = after(f)
    BY <1>4
  <2>3. x = e /\ y = f
    BY <1>3, <1>7, <2>1, <2>2 DEF Again
  <2>4. QED
    BY <1>7, <2>3 DEF CalendarInv, EventsInv
<1>8. EventsInv'
  BY <1>5, <1>6, <1>7 DEF EventsInv, Again
<1>9. ASSUME NEW i \in Importers, imports'[i] # Missing
      PROVE  ImportKnows(imports[i])'
  <2>1. ImportKnows(imports[i]) /\ imports'[i] = imports[i]
    BY <1>1, <1>9 DEF CalendarInv, UnderWay
  <2>2. \A x \in events' : x \in imports[i].seen \/ x.id \in imports[i].missed \/ x.updated
    BY <1>3, <1>4, <2>1 DEF ImportKnows
  <2>3. QED
    BY <2>1, <2>2 DEF ImportKnows, Sound
<1>10. ASSUME NEW j \in Editors, updates'[j] # Missing
       PROVE  UpdateKnows(updates[j])'
  <2>1. j # k /\ updates[j] # Missing /\ UpdateKnows(updates[j])
    BY <1>1, <1>10 DEF CalendarInv, UnderWay
  <2>2. CASE updates[j].id = w.id
    <3>1. updates'[j] = [updates[j] EXCEPT !.overtaken = TRUE]
      BY <1>1, <2>1, <2>2
    <3>2. updates'[j] = [id |-> updates[j].id, patch |-> updates[j].patch, overtaken |-> TRUE]
      BY <2>1, <3>1 DEF UpdateKnows
    <3>3. updates'[j].id = updates[j].id /\ updates'[j].patch = updates[j].patch
          /\ updates'[j].overtaken = TRUE
      BY <3>2
    <3>4. QED
      BY <1>1, <2>1, <3>2, <3>3 DEF UpdateKnows
  <2>3. CASE updates[j].id # w.id
    <3>1. updates'[j] = updates[j]
      BY <1>1, <2>1, <2>3
    <3>2. \A x \in events' : x.id = updates[j].id => x \in events
      BY <1>3, <1>4, <2>3
    <3>3. QED
      BY <1>1, <2>1, <3>1, <3>2 DEF UpdateKnows, Checked, Given
  <2>4. QED
    BY <2>2, <2>3
<1>11. CalendarTypes'
  BY <1>1 DEF CalendarInv, CalendarTypes, Sound
<1>12. QED
  BY <1>8, <1>9, <1>10, <1>11 DEF CalendarInv, UnderWay

LEMMA DeleteEventStep ==
  ASSUME CalendarInv, NEW e \in events, DeleteEvent(e)
  PROVE  CalendarInv'
<1>1. /\ events' = events \ {e}
      /\ updates' = [k \in Editors |-> IF updates[k] # Missing /\ updates[k].id = e.id
                                       THEN [updates[k] EXCEPT !.overtaken = TRUE] ELSE updates[k]]
      /\ UNCHANGED <<proposals, imports, made>>
  BY DEF DeleteEvent, Overtaken
<1>2. EventsInv'
  BY <1>1 DEF CalendarInv, EventsInv, Entry, Again
<1>3. \A i \in Importers : imports'[i] # Missing => ImportKnows(imports[i])'
  BY <1>1 DEF CalendarInv, UnderWay, ImportKnows, Sound
<1>4. ASSUME NEW j \in Editors, updates'[j] # Missing
      PROVE  UpdateKnows(updates[j])'
  <2>1. updates[j] # Missing /\ UpdateKnows(updates[j])
    BY <1>1, <1>4 DEF CalendarInv, UnderWay
  <2>2. CASE updates[j].id = e.id
    <3>1. updates'[j] = [updates[j] EXCEPT !.overtaken = TRUE]
      BY <1>1, <2>1, <2>2
    <3>2. updates'[j] = [id |-> updates[j].id, patch |-> updates[j].patch, overtaken |-> TRUE]
      BY <2>1, <3>1 DEF UpdateKnows
    <3>3. updates'[j].id = updates[j].id /\ updates'[j].patch = updates[j].patch
          /\ updates'[j].overtaken = TRUE
      BY <3>2
    <3>4. QED
      BY <1>1, <2>1, <3>2, <3>3 DEF UpdateKnows
  <2>3. CASE updates[j].id # e.id
    <3>1. updates'[j] = updates[j]
      BY <1>1, <2>3
    <3>2. QED
      BY <1>1, <2>1, <3>1 DEF UpdateKnows, Checked, Given
  <2>4. QED
    BY <2>2, <2>3
<1>5. CalendarTypes'
  BY <1>1 DEF CalendarInv, CalendarTypes, Sound
<1>6. QED
  BY <1>2, <1>3, <1>4, <1>5 DEF CalendarInv, UnderWay

\* What is inserted is in neither the calendar that was read nor the import.
LEMMA EndImportStep ==
  ASSUME CalendarInv, NEW i \in Importers, EndImport(i)
  PROVE  CalendarInv'
<1> DEFINE w == imports[i]
           before(n, kept) == w.seen \cup {w.chosen[j] : j \in {k \in kept : k < n}}
           inserted(n) == Event(made + n, w.chosen[n].email, w.chosen[n].title, w.chosen[n].start,
                                w.chosen[n].end, w.chosen[n].by, w.missed)
<1>1. w # Missing /\ UNCHANGED <<proposals, updates>>
  BY DEF EndImport
<1>2. PICK kept \in SUBSET DOMAIN w.chosen :
        /\ \A n \in DOMAIN w.chosen : n \in kept <=> ~Present(w.chosen[n], before(n, kept))
        /\ events' = events \cup {inserted(n) : n \in kept}
        /\ made' = made + Len(w.chosen)
        /\ imports' = [j \in Importers |->
                         IF j = i \/ imports[j] = Missing THEN (IF j = i THEN Missing ELSE imports[j])
                         ELSE [imports[j] EXCEPT !.missed = @ \cup {made + n : n \in kept}]]
  BY DEF EndImport
<1>3. ImportKnows(w)
  BY <1>1 DEF CalendarInv, UnderWay
<1>4. made \in Nat
  BY DEF CalendarInv, CalendarTypes
<1> DEFINE news == {inserted(n) : n \in kept}
           ids == {made + n : n \in kept}
<1> HIDE DEF w
<1>5. ASSUME NEW n \in kept
      PROVE  /\ n \in Nat /\ 1 <= n /\ n <= Len(w.chosen) /\ Sound(w.chosen[n])
             /\ ~Present(w.chosen[n], before(n, kept))
             /\ \A e \in w.seen : e \in before(n, kept)
             /\ \A j \in kept : j < n => w.chosen[j] \in before(n, kept)
  <2>1. n \in DOMAIN w.chosen
    OBVIOUS
  <2>2. n \in Nat /\ 1 <= n /\ n <= Len(w.chosen) /\ Sound(w.chosen[n])
    BY <1>3, <2>1 DEF ImportKnows
  <2>3. ~Present(w.chosen[n], before(n, kept))
    BY <1>2, <2>1, Zenon
  <2>4. QED
    BY <2>2, <2>3
<1>6. ASSUME NEW n \in kept
      PROVE  /\ inserted(n) = [id |-> made + n, email |-> w.chosen[n].email,
                               title |-> w.chosen[n].title, start |-> w.chosen[n].start,
                               end |-> w.chosen[n].end, via |-> w.chosen[n].by,
                               missed |-> w.missed, updated |-> FALSE, raced |-> FALSE]
             /\ inserted(n).id = made + n /\ inserted(n).missed = w.missed
             /\ inserted(n).email = w.chosen[n].email /\ inserted(n).title = w.chosen[n].title
             /\ inserted(n).start = w.chosen[n].start /\ inserted(n).end = w.chosen[n].end
             /\ inserted(n).via = w.chosen[n].by /\ inserted(n).updated = FALSE
  BY DEF Event
<1>7. \A x \in news : \E n \in kept : x = inserted(n)
  OBVIOUS
<1>8. events' = events \cup news
  BY <1>2
<1> HIDE DEF inserted, before
<1>9. Len(w.chosen) \in Nat /\ made' \in Nat /\ made <= made'
  BY <1>2, <1>3, <1>4 DEF ImportKnows
<1>10. ASSUME NEW x \in news
       PROVE  Entry(x)' /\ made < x.id /\ x.id \in ids
  <2>1. PICK n \in kept : x = inserted(n)
    BY <1>7
  <2>2. /\ x = [id |-> x.id, email |-> x.email, title |-> x.title, start |-> x.start, end |-> x.end,
                via |-> x.via, missed |-> x.missed, updated |-> x.updated, raced |-> x.raced]
    BY <1>6, <2>1
  <2>3. x.id \in Nat /\ x.id <= made' /\ made < x.id /\ x.id \in ids
    <3>1. x.id = made + n /\ made' = made + Len(w.chosen) /\ x.id \in ids
      BY <1>2, <1>6, <2>1
    <3>2. QED
      BY <1>4, <1>5, <1>9, <3>1
  <2>4. x.end >= x.start \/ (x.via = "rules" /\ ~x.updated)
    BY <1>5, <1>6, <2>1 DEF Sound
  <2>5. QED
    BY <2>2, <2>3, <2>4 DEF Entry
<1>11. ASSUME NEW x \in news, NEW y \in news, x.id = y.id
       PROVE  x = y
  <2>1. PICK n \in kept : x = inserted(n)
    BY <1>7
  <2>2. PICK j \in kept : y = inserted(j)
    BY <1>7
  <2>3. made + n = made + j /\ n \in Nat /\ j \in Nat
    BY <1>5, <1>6, <1>11, <2>1, <2>2
  <2>4. n = j
    BY <1>4, <2>3
  <2>5. QED
    BY <2>1, <2>2, <2>4
<1>12. ASSUME NEW e \in events, NEW y \in news, Again(e, y)
       PROVE  e.id \in y.missed
  <2>1. PICK n \in kept : y = inserted(n)
    BY <1>7
  <2>2. /\ e.start = w.chosen[n].start
        /\ e.email = w.chosen[n].email \/ e.title = w.chosen[n].title
    BY <1>6, <1>12, <2>1 DEF Again
  <2>3. e \notin w.seen /\ ~e.updated
    BY <1>5, <1>12, <2>2 DEF Again, Present
  <2>4. QED
    BY <1>3, <1>6, <2>1, <2>3 DEF ImportKnows
<1>13. ASSUME NEW x \in news, NEW y \in news
       PROVE  ~Again(x, y)
  <2>1. PICK j \in kept : x = inserted(j)
    BY <1>7
  <2>2. PICK n \in kept : y = inserted(n)
    BY <1>7
  <2>3. SUFFICES ASSUME Again(x, y) PROVE FALSE
    OBVIOUS
  <2>4. j < n
    <3>1. made + j < made + n /\ j \in Nat /\ n \in Nat
      BY <1>5, <1>6, <2>1, <2>2, <2>3 DEF Again
    <3>2. QED
      BY <1>4, <3>1
  <2>5. w.chosen[j] \in before(n, kept)
    BY <1>5, <2>4
  <2>6. /\ w.chosen[j].start = w.chosen[n].start
        /\ w.chosen[j].email = w.chosen[n].email \/ w.chosen[j].title = w.chosen[n].title
    BY <1>6, <2>1, <2>2, <2>3 DEF Again
  <2>7. Present(w.chosen[n], before(n, kept))
    BY <2>5, <2>6 DEF Present
  <2>8. QED
    BY <1>5, <2>7
<1>14. /\ imports' = [j \in Importers |-> imports'[j]]
       /\ \A j \in Importers : imports'[j] # Missing =>
            imports[j] # Missing /\ imports'[j] = [imports[j] EXCEPT !.missed = @ \cup ids]
  BY <1>2
<1> HIDE DEF news, ids
<1>15. QED
  BY <1>1, <1>8, <1>9, <1>10, <1>11, <1>12, <1>13, <1>14, AddedStep

LEMMA SchedulingKeeps ==
  ASSUME CalendarInv, Scheduling
  PROVE  CalendarInv'
<1>1. ASSUME NEW i \in Importers, NEW p \in proposals, NEW q \in proposals,
             BeginImport(i, <<p>>) \/ BeginImport(i, <<p, q>>)
      PROVE  CalendarInv'
  <2>1. CASE BeginImport(i, <<p>>)
    <3>1. /\ DOMAIN <<p>> = 1..Len(<<p>>) /\ Len(<<p>>) \in Nat
          /\ \A n \in DOMAIN <<p>> : <<p>>[n] \in proposals
      OBVIOUS
    <3>2. QED
      BY <2>1, <3>1, BeginImportStep
  <2>2. CASE BeginImport(i, <<p, q>>)
    <3>1. /\ DOMAIN <<p, q>> = 1..Len(<<p, q>>) /\ Len(<<p, q>>) \in Nat
          /\ \A n \in DOMAIN <<p, q>> : <<p, q>>[n] \in proposals
      OBVIOUS
    <3>2. QED
      BY <2>2, <3>1, BeginImportStep
  <2>3. QED
    BY <1>1, <2>1, <2>2
<1>2. QED
  BY <1>1, CreateStep, BeginUpdateStep, EndUpdateStep, DeleteEventStep, ExtractStep, EndImportStep
     DEF Scheduling

\* The calendar.  No schedule twice, and no event that ends before it starts.
THEOREM CalendarAlwaysKept == Spec => []CalendarKept
<1>1. Init => CalendarInv
  BY DEF Init, CalendarInit, CalendarInv, CalendarTypes, EventsInv, UnderWay
<1>2. CalendarInv /\ [Next]_vars => CalendarInv'
  <2> SUFFICES ASSUME CalendarInv, [Next]_vars
               PROVE  CalendarInv'
    OBVIOUS
  <2>1. CASE Scheduling
    BY <2>1, SchedulingKeeps
  <2>2. CASE UNCHANGED calendarVars
    <3>1. UNCHANGED <<events, proposals, imports, updates, made>>
      BY <2>2 DEF calendarVars
    <3>2. CalendarTypes' /\ EventsInv'
      BY <3>1 DEF CalendarInv, CalendarTypes, EventsInv, Entry, Again, Sound
    <3>3. UnderWay'
      BY <3>1 DEF CalendarInv, UnderWay, ImportKnows, UpdateKnows, Sound, Checked, Given
    <3>4. QED
      BY <3>2, <3>3 DEF CalendarInv
  <2>3. QED
    BY <2>1, <2>2 DEF Next, vars
<1>3. QED
  BY <1>1, <1>2, CalendarInvKept, PTL DEF Spec
=============================================================================
