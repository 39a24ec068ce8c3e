---------------------------- MODULE GmailService ----------------------------
(***************************************************************************)
(* The mail service's access to Gmail (mail_agent/gmail_service.py): the   *)
(* OAuth binding of each user, the copies of messages it keeps for a       *)
(* minute, the page tokens it keeps for every list, and the four ways a    *)
(* page of messages is made.  Every operation holds its user's lock, so it *)
(* is one step; Gmail itself (box, and what it does with a call) is        *)
(* outside, changes under the service's copies, and may refuse a call,     *)
(* lose its answer, or carry out a write and fail the read that follows.   *)
(***************************************************************************)
EXTENDS Integers, FiniteSets, SequencesExt

CONSTANTS
  Users,          \* users of CampusLink, by the identity of the bearer token
  Accounts,       \* Gmail accounts
  Msgs,           \* message ids: naturals, a later message has a larger one
  AccountOf,      \* the account a message belongs to
  DayOf,          \* the day a message is received (internalDate)
  SentDayOf,      \* the day its header says it was sent
  Fields,         \* what the query meets in each field (subject, sender, preview)
  QueryTokens,    \* the number of words of the query
  WordHits,       \* messages Gmail finds for the query
  AnyWordHits,    \* messages Gmail finds for any one word of the query
  Flows,          \* OAuth states
  Ttl,            \* seconds a copy is used (_MESSAGE_CACHE_TTL_SECONDS)
  MaxTime,        \* bound of the runs on time
  MaxCandidates,  \* messages a local filter looks at (_DATE_FILTER_MAX_CANDIDATES)
  MinCandidates,  \* and the calendar's at least (_DATE_PREFILTER_MIN_CANDIDATES)
  BatchSize,      \* messages in one request of a bulk deletion
  MaxKeys,        \* lists whose page tokens are kept
  PrefilterDays,  \* days the calendar's prefilter is widened by
  Null

ASSUME MessagesAreNumbered == Msgs \subseteq Nat /\ WordHits \subseteq AnyWordHits

VARIABLES
  box,            \* Gmail: the labels of a message, or Null
  token,          \* the token file of a user, or Null
  client,         \* the account of the cached Gmail client, or Null
  pendingStates,  \* the user a pending OAuth state belongs to, or Null
  copies,         \* _MESSAGE_CACHE
  cursors,        \* _PAGE_TOKEN_CACHE, in the order of insertion
  listed,         \* the last page made, or Null when the mailbox moved since
  now

bindings == <<token, client, pendingStates>>
mailbox == <<box, copies, listed>>
serviceVars == <<box, token, client, pendingStates, copies, cursors, listed, now>>

\* The labels the service looks at.
Labels == {"INBOX", "UNREAD", "STARRED", "SENT", "TRASH", "SPAM"}
Bindings == [account: Accounts, state: {"valid", "expired", "revoked"}, over: BOOLEAN]

ASSUME TimesAssumption == Ttl \in Nat /\ MaxTime \in Nat
ASSUME NullAssumption == Null \notin Bindings /\ \A l \in SUBSET Labels : l # Null

Here(m) == box[m] # Null
Outcomes == {"done", "unseen", "lost", "refused"}

FolderOf(labels) ==
  CASE "TRASH" \in labels -> "trash"
    [] "TRASH" \notin labels /\ "SENT" \in labels -> "sent"
    [] labels \cap {"TRASH", "SENT"} = {} /\ "INBOX" \in labels -> "inbox"
    [] labels \cap {"TRASH", "SENT", "INBOX"} = {} /\ "SPAM" \in labels -> "spam"
    [] OTHER -> "archived"

-----------------------------------------------------------------------------
(* The binding of a user to an account.  A token is valid, has expired and *)
(* can be refreshed, or is revoked, when every call for the user fails.    *)

ClientOf(u) ==
  IF token[u].state = "expired" \/ client[u] = Null THEN token[u].account ELSE client[u]

LoadCredentials(u) ==
  /\ token[u] # Null
  /\ token[u].state # "revoked"
  /\ token' = [token EXCEPT ![u].state = "valid"]

Service(u) == LoadCredentials(u) /\ client' = [client EXCEPT ![u] = ClientOf(u)]

AuthorizationUrl(u, f) ==
  /\ pendingStates[f] = Null
  /\ pendingStates' = [pendingStates EXCEPT ![f] = u]

\* Asking for the URL says too whether the user is connected, which refreshes.
OauthUrl(u, f) ==
  /\ AuthorizationUrl(u, f)
  /\ IF token[u] # Null /\ token[u].state = "expired"
     THEN /\ LoadCredentials(u)
          /\ client' = [client EXCEPT ![u] = Null]
     ELSE UNCHANGED <<token, client>>
  /\ UNCHANGED <<mailbox, cursors, now>>

\* The address of a connected user is read through the client.
OauthStatus(u) ==
  /\ Service(u)
  /\ UNCHANGED <<mailbox, pendingStates, cursors, now>>

\* A call for a user without a binding is answered with a URL to connect.
NotConnected(u, f) ==
  /\ token[u] = Null
  /\ AuthorizationUrl(u, f)
  /\ UNCHANGED <<mailbox, token, client, cursors, now>>

SaveCredentials(u, a) ==
  /\ token' = [token EXCEPT ![u] = [account |-> a, state |-> "valid",
                                    over |-> token[u] # Null]]
  /\ client' = [client EXCEPT ![u] = Null]

\* The state is popped before Google is asked; a failed exchange needs another.
ExchangeCode(f, a, succeeds) ==
  /\ pendingStates[f] # Null
  /\ pendingStates' = [pendingStates EXCEPT ![f] = Null]
  /\ IF succeeds THEN SaveCredentials(pendingStates[f], a) ELSE UNCHANGED <<token, client>>
  /\ UNCHANGED <<mailbox, cursors, now>>

ResetConnection(u) ==
  /\ token' = [token EXCEPT ![u] = Null]
  /\ client' = [client EXCEPT ![u] = Null]
  /\ copies' = [copies EXCEPT ![u] = [m \in Msgs |-> Null]]
  /\ cursors' = SelectSeq(cursors, LAMBDA c : c.key.user # u)
  /\ UNCHANGED <<box, pendingStates, listed, now>>

\* Outside: a token runs out, or the user withdraws it.
TokenEnds(u, state) ==
  /\ token[u] # Null /\ token[u].state = "valid" /\ state \in {"expired", "revoked"}
  /\ token' = [token EXCEPT ![u].state = state]
  /\ UNCHANGED <<mailbox, client, pendingStates, cursors, now>>

-----------------------------------------------------------------------------
(* The copies.  born is the time a copy was fetched at and stale says that *)
(* the message changed without the service's knowledge: neither is stored. *)

CopyOf(labels, a) ==
  [labels |-> labels, at |-> now, born |-> now, account |-> a, stale |-> FALSE]

CachedCopy(u, m) ==
  IF copies[u][m] # Null /\ now - copies[u][m].at <= Ttl THEN copies[u][m] ELSE Null

\* A copy too old to be served is popped when it is looked for next; here it
\* goes as time passes.
Young(cs) ==
  [u \in Users |-> [m \in Msgs |->
     IF cs[u][m] # Null /\ now + 1 - cs[u][m].at > Ttl THEN Null ELSE cs[u][m]]]

Outdated(m) ==
  [u \in Users |-> [copies[u] EXCEPT ![m] = IF @ = Null THEN Null ELSE [@ EXCEPT !.stale = TRUE]]]

Replaced(u, m, copy) == [Outdated(m) EXCEPT ![u][m] = copy]

Steady(c) == [c EXCEPT !.steady = FALSE]
MailboxMoves == listed' = Null /\ cursors' = [i \in DOMAIN cursors |-> Steady(cursors[i])]

\* Mutant: the copy is not dropped, so that reading back finds it.
WrittenKeepingCopy(u, m, labels, out) ==
  IF out = "refused" THEN UNCHANGED <<mailbox, cursors>>
  ELSE /\ box' = [box EXCEPT ![m] = labels]
       /\ MailboxMoves
       /\ copies' = IF out = "done" /\ CachedCopy(u, m) = Null
                    THEN Replaced(u, m, CopyOf(labels, ClientOf(u)))
                    ELSE IF out = "lost" THEN Outdated(m) ELSE copies

\* A write drops the copy and reads the message back into a new one, unless
\* the call fails before the drop, when the copy stays.
Written(u, m, labels, out) ==
  IF out = "refused" THEN UNCHANGED <<mailbox, cursors>>
  ELSE /\ box' = [box EXCEPT ![m] = labels]
       /\ MailboxMoves
       /\ copies' = IF out = "lost" THEN Outdated(m)
                    ELSE Replaced(u, m, IF out = "done" THEN CopyOf(labels, ClientOf(u)) ELSE Null)

Reachable(u, m) == Here(m) /\ AccountOf[m] = ClientOf(u)

Calls(u) == Service(u) /\ UNCHANGED <<pendingStates, now>>

\* Labels after a change of read, starred and folder; trash takes no other.
Trashed(labels) == (labels \ {"INBOX"}) \cup {"TRASH"}
Patched(labels, read, starred, folder) ==
  LET added   == {l \in {"UNREAD", "STARRED", "INBOX"} :
                    \/ l = "UNREAD" /\ read = FALSE
                    \/ l = "STARRED" /\ starred = TRUE
                    \/ l = "INBOX" /\ folder = "inbox"}
      removed == {l \in {"UNREAD", "STARRED", "INBOX"} :
                    \/ l = "UNREAD" /\ read = TRUE
                    \/ l = "STARRED" /\ starred = FALSE
                    \/ l = "INBOX" /\ folder = "archived"}
  IN IF folder = "trash" THEN Trashed(labels) ELSE (labels \ removed) \cup added

UpdateMessage(u, m, read, starred, folder, out) ==
  /\ Calls(u)
  /\ Reachable(u, m)
  /\ Written(u, m, Patched(box[m], read, starred, folder), out)

ArchiveMessage(u, m, out) == UpdateMessage(u, m, Null, Null, "archived", out)

TrashMessage(u, m, out) ==
  /\ Calls(u)
  /\ Reachable(u, m)
  /\ Written(u, m, Trashed(box[m]), out)

\* In batches, with no callback: Gmail moves some of the messages, and of those
\* answered it may fail any, which nobody looks at.  A batch that raises ends the
\* deletion: it was refused, or carried out without an answer, in part or whole,
\* and its copies stay.
TrashMessages(u, ms, answered, moved) ==
  /\ Calls(u)
  /\ \A m \in ms : Reachable(u, m)
  /\ answered \subseteq ms /\ moved \subseteq ms
  /\ answered # ms => /\ Cardinality(answered) % BatchSize = 0
                      /\ Cardinality(moved \ answered) <= BatchSize
  /\ box' = [m \in Msgs |-> IF m \in moved THEN Trashed(box[m]) ELSE box[m]]
  /\ MailboxMoves
  /\ copies' = [v \in Users |-> [m \in Msgs |->
                  IF v = u /\ m \in answered THEN Null
                  ELSE IF copies[v][m] # Null /\ m \in moved
                       THEN [copies[v][m] EXCEPT !.stale = TRUE] ELSE copies[v][m]]]

\* A message never opened, or whose copy is too old, is marked read and fetched
\* in one batch, in either order; when either fails nothing is kept.
FetchMarkedRead(u, m, out) ==
  /\ out # "lost"
  /\ Written(u, m, box[m] \ {"UNREAD"}, out)

\* A copy that is still unread is marked so, and kept for another minute.
MarkCopyRead(u, m, out) ==
  IF out = "refused" THEN UNCHANGED <<mailbox, cursors>>
  ELSE /\ box' = [box EXCEPT ![m] = @ \ {"UNREAD"}]
       /\ MailboxMoves
       /\ out # "unseen"
       /\ copies' = IF out = "lost" THEN Outdated(m)
                    ELSE Replaced(u, m, [copies[u][m] EXCEPT !.labels = @ \ {"UNREAD"}, !.at = now])

\* Opening a message; it stays unread only when it is read back after a write
\* or read for the calendar.
GetMessage(u, m, out) ==
  LET copy == CachedCopy(u, m) IN
  /\ Calls(u)
  /\ \/ /\ copy # Null /\ "UNREAD" \notin copy.labels
        /\ out = "done"
        /\ UNCHANGED <<mailbox, cursors>>
     \/ /\ copy # Null /\ "UNREAD" \in copy.labels
        /\ Reachable(u, m)
        /\ MarkCopyRead(u, m, out)
     \/ /\ copy = Null
        /\ Reachable(u, m)
        /\ FetchMarkedRead(u, m, out)

\* The message is sent, and then read back by its id.
SendMessage(u, m, out) ==
  /\ Calls(u)
  /\ ~Here(m) /\ AccountOf[m] = ClientOf(u)
  /\ \A n \in Msgs : Here(n) => n < m
  /\ Written(u, m, {"SENT"}, out)

\* Outside: a message arrives, is moved or marked in Gmail itself; time passes.
ChangeElsewhere(m, labels) ==
  /\ now < MaxTime
  /\ \/ Here(m)
     \/ \A n \in Msgs : Here(n) => n < m
  /\ box' = [box EXCEPT ![m] = labels]
  /\ copies' = Young(Outdated(m))
  /\ MailboxMoves
  /\ now' = now + 1
  /\ UNCHANGED bindings

Tick ==
  /\ now < MaxTime
  /\ now' = now + 1
  /\ copies' = Young(copies)
  /\ UNCHANGED <<bindings, box, listed, cursors>>

-----------------------------------------------------------------------------
(* Lists.  A query is [folder, words, unread, starred, after, before, page, size], *)
(* its words "none", "plain" or "operator" (with a colon, Gmail's own syntax).     *)

NewestFirst(S) == SetToSortSeq(S, >)
Chunk(s, q) == SubSeq(s, q.page * q.size + 1, IF (q.page + 1) * q.size < Len(s)
                                             THEN (q.page + 1) * q.size ELSE Len(s))
FirstOf(s, n) == SubSeq(s, 1, IF n < Len(s) THEN n ELSE Len(s))

InFolder(labels, folder) ==
  IF folder = "archived" THEN labels \cap {"INBOX", "SENT", "TRASH", "SPAM"} = {}
  ELSE (CASE folder = "inbox" -> "INBOX" [] folder = "sent" -> "SENT"
          [] folder = "trash" -> "TRASH" [] folder = "spam" -> "SPAM") \in labels

\* What Gmail finds for the query with the words it is given.
Found(u, q, words) ==
  {m \in Msgs : /\ Reachable(u, m)
                /\ InFolder(box[m], q.folder)
                /\ q.unread # Null => (("UNREAD" \in box[m]) = q.unread)
                /\ q.starred # Null => (("STARRED" \in box[m]) = q.starred)
                /\ words = "all words" => m \in WordHits
                /\ words = "any word" => m \in AnyWordHits}

FetchRecentIds(S, most) == FirstOf(NewestFirst(S), most)

\* after is the start of its day, and before the last minute of its day.
InDates(q, m) ==
  /\ q.after # Null => DayOf[m] >= q.after
  /\ q.before # Null => DayOf[m] <= q.before

\* Mutant: a list that ends with its page is said to go on.
PageMoreAtEnd(s, q) == [ids |-> Chunk(s, q), more |-> (q.page + 1) * q.size <= Len(s)]

\* A page cut out of a list that is made here.
Page(s, q) == [ids |-> Chunk(s, q), more |-> (q.page + 1) * q.size < Len(s)]

WordsGiven(q) == IF q.words = "none" THEN "none" ELSE "all words"

ListByReceivedDate(u, q) ==
  LET ids == FetchRecentIds(Found(u, q, WordsGiven(q)), MaxCandidates)
  IN Page(SelectSeq(ids, LAMBDA m : InDates(q, m)), q)

\* In hundredths: the whole query in a field, the share of its words in a
\* field, or, for a single word, how near it is to a word of the field.
FuzzyScore(m) ==
  LET score(f) == IF f.whole THEN 100
                  ELSE LET share == (f.words * 100) \div QueryTokens
                       IN IF QueryTokens = 1 /\ f.ratio >= 60 /\ f.ratio > share
                          THEN f.ratio ELSE share
  IN Max({0} \cup {score(f) : f \in Fields[m]})

FuzzyCandidateIds(u, q, orFails) ==
  LET hits == Found(u, q, "any word")
  IN FetchRecentIds(IF orFails \/ hits = {} THEN Found(u, q, "none") ELSE hits, MaxCandidates)

Better(m, n) == FuzzyScore(m) > FuzzyScore(n) \/ (FuzzyScore(m) = FuzzyScore(n) /\ m > n)

FuzzySearch(u, q, orFails) ==
  LET ids == FuzzyCandidateIds(u, q, orFails)
  IN Page(SetToSortSeq({m \in ToSet(ids) : FuzzyScore(m) >= 30}, Better), q)

\* Gmail's own pages: the newest after the token, which is the last id before.
ListPage(S, q, after) ==
  LET rest == NewestFirst({m \in S : after = Null \/ m < after})
      ids  == FirstOf(rest, q.size)
  IN [ids |-> ids, next |-> IF Len(rest) > q.size THEN ids[q.size] ELSE Null]

KeyOf(u, q) == [user |-> u, folder |-> q.folder, words |-> q.words,
                unread |-> q.unread, starred |-> q.starred, size |-> q.size]
Cursor(u, q) == SelectSeq(cursors, LAMBDA c : c.key = KeyOf(u, q))

\* The tokens of a list; a new one puts out the oldest when there are too many.
CachedTokens(u, q, rejected) ==
  LET kept == SelectSeq(cursors, LAMBDA c : ~rejected \/ c.key # KeyOf(u, q))
      room == IF Len(kept) >= MaxKeys THEN Tail(kept) ELSE kept
  IN IF \E i \in DOMAIN kept : kept[i].key = KeyOf(u, q) THEN kept
     ELSE Append(room, [key |-> KeyOf(u, q), tokens |-> <<>>, steady |-> TRUE])

\* The tokens walked up to the page before the one asked for.
Walked(S, q, tokens) ==
  FoldLeft(LAMBDA ts, i : IF Len(ts) # i - 1 \/ (ts # <<>> /\ Last(ts) = Null) THEN ts
                          ELSE Append(ts, ListPage(S, q, IF ts = <<>> THEN Null ELSE Last(ts)).next),
           tokens, [i \in 1..q.page |-> i])

FetchPageIds(S, q, tokens) ==
  LET ts  == Walked(S, q, tokens)
      end == q.page > 0 /\ (Len(ts) < q.page \/ ts[q.page] = Null)
      got == ListPage(S, q, IF q.page = 0 THEN Null ELSE ts[q.page])
  IN IF end THEN [ids |-> <<>>, more |-> FALSE, tokens |-> ts]
     ELSE [ids |-> got.ids, more |-> got.next # Null,
           tokens |-> IF Len(ts) = q.page THEN Append(ts, got.next) ELSE ts]

\* Gmail may reject a token that was kept; the list is then walked anew, once.
ListWithTokens(u, q, rejected) ==
  LET kept == CachedTokens(u, q, rejected)
      i    == CHOOSE n \in DOMAIN kept : kept[n].key = KeyOf(u, q)
      got  == FetchPageIds(Found(u, q, WordsGiven(q)), q, kept[i].tokens)
  IN /\ rejected => \E n \in DOMAIN cursors :
                      cursors[n].key = KeyOf(u, q) /\ q.page > 0 /\ cursors[n].tokens # <<>>
     /\ cursors' = [kept EXCEPT ![i].tokens = got.tokens]
     /\ listed' = [user |-> u, query |-> q, fails |-> rejected, steady |-> kept[i].steady,
                   ids |-> got.ids, more |-> got.more]

Answered(u, q, fails, page) ==
  /\ listed' = [user |-> u, query |-> q, fails |-> fails, steady |-> TRUE,
                ids |-> page.ids, more |-> page.more]
  /\ UNCHANGED cursors

ListMessages(u, q, fails) ==
  /\ Calls(u)
  /\ IF q.after # Null \/ q.before # Null
     THEN ~fails /\ Answered(u, q, fails, ListByReceivedDate(u, q))
     ELSE IF q.words = "plain" THEN Answered(u, q, fails, FuzzySearch(u, q, fails))
     ELSE ListWithTokens(u, q, fails)
  /\ UNCHANGED <<box, copies>>

\* Mutant: Gmail is asked for the days themselves, not for days before them too.
RecentUnwidened(u, today, days, most) ==
  LET ids  == FetchRecentIds({m \in Msgs : /\ Reachable(u, m)
                                           /\ "INBOX" \in box[m]
                                           /\ SentDayOf[m] >= today - days},
                             Max({most * 3, MinCandidates}))
  IN FirstOf(SelectSeq(ids, LAMBDA m : DayOf[m] \in (today - days)..today), most)

\* The inbox of the last days, for the calendar: prefiltered by the day of the
\* header, which is widened, and then by the day of receipt.
RecentMessages(u, today, days, most) ==
  LET wide == today - days - Max({days, PrefilterDays})
      ids  == FetchRecentIds({m \in Msgs : /\ Reachable(u, m)
                                           /\ "INBOX" \in box[m]
                                           /\ SentDayOf[m] >= wide},
                             Max({most * 3, MinCandidates}))
  IN FirstOf(SelectSeq(ids, LAMBDA m : DayOf[m] \in (today - days)..today), most)

ListRecentMessages(u, today, days, most, failed) ==
  LET ids == RecentMessages(u, today, days, most) IN
  /\ Calls(u)
  /\ copies' = [copies EXCEPT ![u] = [m \in Msgs |->
                  IF m \in ToSet(ids) \ failed /\ CachedCopy(u, m) = Null
                  THEN CopyOf(box[m], ClientOf(u)) ELSE copies[u][m]]]
  /\ listed' = [user |-> u, days |-> (today - days)..today, most |-> most, ids |-> ids]
  /\ UNCHANGED <<box, cursors>>

-----------------------------------------------------------------------------
ServiceInit(start, bound, clock) ==
  /\ box = start
  /\ token = bound
  /\ client = [u \in Users |-> Null]
  /\ pendingStates = [f \in Flows |-> Null]
  /\ copies = [u \in Users |-> [m \in Msgs |-> Null]]
  /\ cursors = <<>>
  /\ listed = Null
  /\ now = clock

-----------------------------------------------------------------------------
\* A copy that may be served agrees with Gmail in its labels, unless the
\* message changed where the service could not see it; it was fetched at most
\* two lifetimes ago, since marking it read renews it once; it was fetched from
\* the account the user is bound to, unless he bound another one over it; and
\* the client that makes the calls is the one of that account.
CopiesAgree ==
  \A u \in Users :
    /\ client[u] # Null => token[u] # Null /\ client[u] = token[u].account
    /\ \A m \in Msgs :
         LET copy == CachedCopy(u, m) IN
         copy # Null =>
           /\ copy.stale \/ copy.labels = box[m]
           /\ now - copy.born <= 2 * Ttl
           /\ token[u] # Null
           /\ copy.account = token[u].account \/ token[u].over

\* What a list is made of, and what of it it should show, read off the mailbox.
Candidates(u, q, fails) ==
  LET hits == Found(u, q, "any word") IN
  IF q.words # "plain" \/ q.after # Null \/ q.before # Null THEN Found(u, q, WordsGiven(q))
  ELSE IF fails \/ hits = {} THEN Found(u, q, "none") ELSE hits

Wanted(u, q, fails) ==
  {m \in Candidates(u, q, fails) :
     IF q.after # Null \/ q.before # Null THEN InDates(q, m)
     ELSE q.words = "plain" => FuzzyScore(m) >= 30}

Precedes(q, m, n) ==
  IF q.words = "plain" /\ q.after = Null /\ q.before = Null THEN Better(m, n) ELSE m > n

\* What a scan of days should show: mail received on them, unless its header
\* says it was sent long before.
Received(u, days) ==
  LET first == CHOOSE d \in days : \A e \in days : d <= e
      reach == Max({PrefilterDays, Cardinality(days) - 1})
  IN {m \in Msgs : /\ Reachable(u, m) /\ "INBOX" \in box[m]
                   /\ DayOf[m] \in days /\ first - SentDayOf[m] <= reach}

\* A page shows, of all the messages that fit its query, exactly those whose
\* rank falls on it, in their order, and says that there are more exactly when
\* there are; so a walk over the pages shows each of them once.  It needs a
\* mailbox that did not move since the list's tokens were taken and, for a list
\* cut here, no more candidates than are looked at.  A scan for the calendar shows
\* the newest of all messages received on its days, however many candidates Gmail
\* lists, but those whose header puts them days before the window's first (a week,
\* or the window's own length): the code says that the list's order guarantees
\* every message of the window, and Gmail, asked by the header's day, leaves these
\* out before any order counts.
ListedAsAsked ==
  LET l == listed IN
  l # Null =>
    IF "days" \in DOMAIN l
    THEN l.ids = FirstOf(NewestFirst(Received(l.user, l.days)), l.most)
    ELSE LET q    == l.query
             all  == Wanted(l.user, q, l.fails)
             rank == [m \in all |-> Cardinality({n \in all : Precedes(q, n, m)})]
             page == {m \in all : rank[m] \in (q.page * q.size)..((q.page + 1) * q.size - 1)}
             cut  == q.words = "plain" \/ q.after # Null \/ q.before # Null
         IN (l.steady /\ (cut => Cardinality(Candidates(l.user, q, l.fails)) <= MaxCandidates))
            => /\ ToSet(l.ids) = page /\ Len(l.ids) = Cardinality(page)
               /\ \A i, j \in DOMAIN l.ids : i < j => Precedes(q, l.ids[i], l.ids[j])
               /\ l.more = (Cardinality(all) > (q.page + 1) * q.size)
=============================================================================
