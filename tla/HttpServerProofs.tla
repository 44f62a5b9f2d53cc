-------------------------- MODULE HttpServerProofs --------------------------
(***************************************************************************)
(* Theorems about the HTTP server: HttpSessions and ResourcePoller, for    *)
(* any targets, lists, session ids, requests, limits, and any number of    *)
(* changes and faults; and AuthTokens, for any lifetime, grace period,     *)
(* interval of checks and number of tokens, outages, failed reads, edits   *)
(* and restarts.  The two share no state: a bearer token is checked before *)
(* a request reaches a session.                                            *)
(***************************************************************************)
EXTENDS HttpSessions, AuthTokens, SequenceTheorems, FiniteSetTheorems, TLAPS

-----------------------------------------------------------------------------
\* The poller.  A content it knows and that has not changed since it read it
\* is the content the target has; in a cycle it reads the target whose hashes
\* it keeps.
HashesFit ==
    \A u \in Uris : hashes[u] # None /\ <<hashedSession, u>> \notin news =>
                       hashedSession \in Targets /\ hashes[u] = content[hashedSession][u]

CycleFits ==
    /\ poll.place = "call" => poll.todo # <<>> /\ poll.session \in Targets /\ poll.session = hashedSession
    /\ poll.place = "notify" => poll.session \in Targets

PollerInv == PollerTypeOK /\ HashesFit /\ CycleFits

LEMMA NoHashesTyped == NoHashes \in [Uris -> Contents \union {None}] /\ \A u \in Uris : NoHashes[u] = None
BY DEF NoHashes

LEMMA RestingTyped ==
    ASSUME NEW place \in {"armed", "call", "notify", "off"}
    PROVE  Resting(place) \in [place: {"armed", "call", "notify", "off"}, session: Targets \union {None},
                               todo: Seq(Uris), changedUris: SUBSET Uris]
BY DEF Resting

LEMMA InitPoller == PollerInit => PollerInv
<1> SUFFICES ASSUME PollerInit PROVE PollerInv OBVIOUS
<1>1. PollerTypeOK BY NoHashesTyped, RestingTyped, PollerAssumption DEF PollerInit, PollerTypeOK, Contents
<1>2. HashesFit /\ CycleFits BY NoHashesTyped DEF PollerInit, HashesFit, CycleFits, Resting
<1> QED BY <1>1, <1>2 DEF PollerInv

LEMMA PollStartsKeeps == ASSUME PollerInv, NEW s \in Targets, PollStarts(s) PROVE PollerInv'
<1>1. /\ poll' = [place |-> "call", session |-> s, todo |-> Pollable, changedUris |-> {}]
      /\ hashes' = (IF hashedSession = s THEN hashes ELSE NoHashes) /\ hashedSession' = s
      /\ UNCHANGED <<content, changes, faults, timer, news>>
  BY DEF PollStarts, Resting, Baseline
<1>2. PollerTypeOK' BY <1>1, NoHashesTyped, PollerAssumption DEF PollerInv, PollerTypeOK
<1>3. HashesFit' BY <1>1, NoHashesTyped DEF PollerInv, HashesFit
<1>4. CycleFits' BY <1>1, PollerAssumption DEF CycleFits
<1> QED BY <1>2, <1>3, <1>4 DEF PollerInv

LEMMA OnwardFits ==
    ASSUME PollerInv, poll.place = "call", NEW changed \in SUBSET Uris, NEW destroyed \in BOOLEAN,
           poll' = Onward(changed, destroyed), hashedSession' = hashedSession
    PROVE  /\ poll' \in [place: {"armed", "call", "notify", "off"}, session: Targets \union {None},
                         todo: Seq(Uris), changedUris: SUBSET Uris]
           /\ CycleFits'
           /\ poll'.changedUris \subseteq changed
<1> DEFINE todo == poll.todo
           n == Len(todo)
           P == [place: {"armed", "call", "notify", "off"}, session: Targets \union {None},
                 todo: Seq(Uris), changedUris: SUBSET Uris]
<1>1. poll \in P /\ todo \in Seq(Uris) /\ todo # <<>> /\ poll.session \in Targets /\ poll.session = hashedSession
  BY DEF PollerInv, PollerTypeOK, CycleFits
<1>2. Tail(todo) \in Seq(Uris) /\ Len(Tail(todo)) = n - 1 /\ n \in Nat BY <1>1, HeadTailProperties
<1>3. CASE n > 1 /\ ~destroyed
  <2> DEFINE rest == Tail(todo)
  <2>1. poll' = [poll EXCEPT !.todo = rest, !.changedUris = changed] BY <1>3 DEF Onward
  <2>2. Len(rest) = n - 1 /\ n > 1 /\ n \in Nat /\ rest \in Seq(Uris) BY <1>2, <1>3
  <2> HIDE DEF n, todo, rest
  <2>3. Len(rest) # 0 BY <2>2
  <2>4. rest # <<>> BY <2>3
  <2>5. poll' \in P /\ poll'.place = poll.place /\ poll'.session = poll.session /\ poll'.todo = rest
        /\ poll'.changedUris = changed
    BY <1>1, <2>1, <2>2
  <2> QED BY <1>1, <2>4, <2>5 DEF CycleFits
<1>4. CASE ~(n > 1 /\ ~destroyed) /\ changed # {}
  <2>1. poll' = [poll EXCEPT !.place = "notify", !.todo = <<>>, !.changedUris = changed] BY <1>4 DEF Onward
  <2>2. <<>> \in Seq(Uris) OBVIOUS
  <2> HIDE DEF n, todo
  <2>3. poll' \in P /\ poll'.place = "notify" /\ poll'.session = poll.session /\ poll'.changedUris = changed
    BY <1>1, <2>1, <2>2
  <2> QED BY <1>1, <2>3 DEF CycleFits
<1>5. CASE ~(n > 1 /\ ~destroyed) /\ changed = {}
  <2>1. poll' = Resting(Rearms) /\ Rearms \in {"armed", "off"} BY <1>5 DEF Onward, Rearms
  <2>2. poll' \in P BY <2>1, RestingTyped
  <2> QED BY <2>1, <2>2 DEF CycleFits, Resting
<1> QED BY <1>3, <1>4, <1>5

LEMMA FetchedKeeps ==
    ASSUME PollerInv, NEW destroyed \in BOOLEAN, Fetched(destroyed)
    PROVE  /\ PollerInv'
           /\ \A u \in poll'.changedUris \ poll.changedUris : <<poll.session, u>> \in news
<1> DEFINE u == Head(poll.todo)
           hash == content[poll.session][u]
           changed == poll.changedUris \union (IF Changed(hashes[u], hash) THEN {u} ELSE {})
<1>1. /\ poll.place = "call" /\ poll.todo # <<>> /\ poll.todo \in Seq(Uris)
      /\ poll.session \in Targets /\ poll.session = hashedSession /\ poll.changedUris \subseteq Uris
  BY DEF Fetched, PollerInv, PollerTypeOK, CycleFits
<1>2. u \in Uris BY <1>1, HeadTailProperties
<1>3. hash \in Contents BY <1>1, <1>2 DEF PollerInv, PollerTypeOK
<1>4. /\ hashes' = [hashes EXCEPT ![u] = hash] /\ poll' = Onward(changed, destroyed)
      /\ news' = news \ {<<poll.session, u>>}
      /\ UNCHANGED <<content, changes, faults, hashedSession, timer>>
  BY DEF Fetched
<1>5. changed \subseteq Uris BY <1>1, <1>2
<1>6. changed \ poll.changedUris \subseteq {u}
      /\ (changed \ poll.changedUris # {} => hashes[u] # None /\ hashes[u] # hash)
  BY DEF Changed
<1>7. hashes[u] # None /\ hashes[u] # hash => <<poll.session, u>> \in news
  BY <1>1, <1>2 DEF PollerInv, HashesFit
<1> HIDE DEF u, changed
<1>8. /\ poll' \in [place: {"armed", "call", "notify", "off"}, session: Targets \union {None},
                    todo: Seq(Uris), changedUris: SUBSET Uris]
      /\ CycleFits' /\ poll'.changedUris \subseteq changed
  BY <1>1, <1>4, <1>5, OnwardFits
<1>9. PollerTypeOK' BY <1>2, <1>3, <1>4, <1>8 DEF PollerInv, PollerTypeOK
<1>10. HashesFit'
  <2> SUFFICES ASSUME NEW v \in Uris, hashes'[v] # None, <<hashedSession', v>> \notin news'
               PROVE  hashedSession \in Targets /\ hashes'[v] = content[hashedSession][v]
    BY <1>4 DEF HashesFit
  <2>1. CASE v = u BY <1>1, <1>2, <1>4, <2>1 DEF PollerInv, PollerTypeOK
  <2>2. CASE v # u
    <3>1. hashes'[v] = hashes[v] /\ <<hashedSession, v>> \notin news
      BY <1>2, <1>4, <2>2 DEF PollerInv, PollerTypeOK
    <3> QED BY <3>1 DEF PollerInv, HashesFit
  <2> QED BY <2>1, <2>2
<1> QED BY <1>6, <1>7, <1>8, <1>9, <1>10 DEF PollerInv

LEMMA FetchFailsKeeps ==
    ASSUME PollerInv, NEW destroyed \in BOOLEAN, FetchFails(destroyed)
    PROVE  PollerInv' /\ poll'.changedUris \subseteq poll.changedUris
<1>1. /\ poll.place = "call" /\ poll' = Onward(poll.changedUris, destroyed)
      /\ UNCHANGED <<content, changes, hashes, hashedSession, timer, news>>
  BY DEF FetchFails
<1>2. poll.changedUris \in SUBSET Uris BY DEF PollerInv, PollerTypeOK
<1>3. /\ poll' \in [place: {"armed", "call", "notify", "off"}, session: Targets \union {None},
                    todo: Seq(Uris), changedUris: SUBSET Uris]
      /\ CycleFits' /\ poll'.changedUris \subseteq poll.changedUris
  BY <1>1, <1>2, OnwardFits
<1>4. faults' \in 0 .. MaxFaults BY PollerAssumption DEF FetchFails, PollerInv, PollerTypeOK
<1>5. PollerTypeOK' BY <1>1, <1>3, <1>4 DEF PollerInv, PollerTypeOK
<1>6. HashesFit' BY <1>1 DEF PollerInv, HashesFit
<1> QED BY <1>3, <1>5, <1>6 DEF PollerInv

LEMMA RestsKeeps ==
    ASSUME PollerInv, NEW place \in {"armed", "off"}, poll' = Resting(place) \/ UNCHANGED poll, timer' \in BOOLEAN,
           UNCHANGED <<content, changes, faults, hashes, hashedSession, news>>
    PROVE  PollerInv' /\ poll'.changedUris \subseteq poll.changedUris
<1>1. PollerTypeOK' BY RestingTyped DEF PollerInv, PollerTypeOK
<1>2. HashesFit' BY DEF PollerInv, HashesFit
<1>3. CycleFits' BY DEF PollerInv, CycleFits, Resting
<1>4. poll'.changedUris \subseteq poll.changedUris BY DEF Resting
<1> QED BY <1>1, <1>2, <1>3, <1>4 DEF PollerInv

LEMMA PollerGoneKeeps == ASSUME PollerInv, PollerGone PROVE PollerInv' /\ poll'.changedUris = {}
<1>1. /\ timer' = FALSE /\ poll' = Resting("off") /\ hashes' = NoHashes /\ hashedSession' = None
      /\ news' = {} /\ UNCHANGED <<content, changes, faults>>
  BY DEF PollerGone
<1>2. PollerTypeOK' BY <1>1, NoHashesTyped, RestingTyped DEF PollerInv, PollerTypeOK
<1>3. HashesFit' /\ CycleFits' BY <1>1, NoHashesTyped DEF HashesFit, CycleFits, Resting
<1> QED BY <1>1, <1>2, <1>3 DEF PollerInv, Resting

LEMMA CcuChangesKeeps ==
    ASSUME PollerInv, NEW t \in Targets, NEW u \in Uris, NEW c \in Contents, CcuChanges(t, u, c)
    PROVE  PollerInv'
<1>1. /\ changes < MaxChanges /\ changes' = changes + 1 /\ content' = [content EXCEPT ![t][u] = c]
      /\ news' = news \union {<<t, u>>} /\ UNCHANGED <<faults, hashes, hashedSession, timer, poll>>
  BY DEF CcuChanges
<1>2. changes' \in 0 .. MaxChanges BY <1>1, PollerAssumption DEF PollerInv, PollerTypeOK
<1>3. content' \in [Targets -> [Uris -> Contents]] BY <1>1 DEF PollerInv, PollerTypeOK
<1>4. PollerTypeOK' BY <1>1, <1>2, <1>3 DEF PollerInv, PollerTypeOK
<1>5. HashesFit'
  <2> SUFFICES ASSUME NEW v \in Uris, hashes[v] # None, <<hashedSession, v>> \notin news'
               PROVE  hashedSession \in Targets /\ hashes[v] = content'[hashedSession][v]
    BY <1>1 DEF HashesFit
  <2>1. hashedSession \in Targets /\ hashes[v] = content[hashedSession][v] BY <1>1 DEF PollerInv, HashesFit
  <2>2. hashedSession # t \/ v # u BY <1>1
  <2>3. content'[hashedSession][v] = content[hashedSession][v] BY <1>1, <2>1, <2>2 DEF PollerInv, PollerTypeOK
  <2> QED BY <2>1, <2>3
<1>6. CycleFits' BY <1>1 DEF PollerInv, CycleFits
<1> QED BY <1>4, <1>5, <1>6 DEF PollerInv

\* What the steps of HttpSessions do to the poller.
LEMMA PollerKept ==
    ASSUME PollerInv, active \in Targets, [Next]_vars
    PROVE  /\ PollerInv'
           /\ \A u \in poll'.changedUris \ poll.changedUris : <<poll.session, u>> \in news
<1> DEFINE Honest == \A u \in poll'.changedUris \ poll.changedUris : <<poll.session, u>> \in news
<1>1. ASSUME UNCHANGED pollerVars PROVE PollerInv' /\ Honest
  BY <1>1 DEF pollerVars, PollerInv, PollerTypeOK, HashesFit, CycleFits
<1>2. CASE PollStep
  <2>1. SessionOf \in Targets BY PollerAssumption DEF SessionOf
  <2>2. CASE PollStarts(SessionOf)
    <3>1. poll'.changedUris = {} BY <2>2 DEF PollStarts, Resting
    <3> QED BY <2>1, <2>2, <3>1, PollStartsKeeps
  <2>3. CASE Fetched(phase # "up") BY <2>3, FetchedKeeps
  <2>4. CASE FetchFails(phase # "up") BY <2>4, FetchFailsKeeps
  <2> QED BY <1>2, <2>2, <2>3, <2>4 DEF PollStep
<1>3. CASE notifyChanged
  <2>1. poll' = Resting(Rearms) /\ Rearms \in {"armed", "off"}
        /\ UNCHANGED <<content, changes, faults, hashes, hashedSession, timer, news>>
    BY <1>3 DEF notifyChanged, Notified, Rearms
  <2>2. timer' \in BOOLEAN BY <2>1 DEF PollerInv, PollerTypeOK
  <2> QED BY <2>1, <2>2, RestsKeeps
<1>4. CASE CcuStep
  <2>1. PICK t \in Targets, u \in Uris, c \in Contents : CcuChanges(t, u, c)
    BY <1>4, PollerAssumption DEF CcuStep
  <2>2. UNCHANGED poll BY <2>1 DEF CcuChanges
  <2> QED BY <2>1, <2>2, CcuChangesKeeps
<1>5. CASE Shutdown
  <2>1. poll' = Resting("off") \/ UNCHANGED poll BY <1>5 DEF Shutdown, Stop
  <2>2. timer' \in BOOLEAN /\ UNCHANGED <<content, changes, faults, hashes, hashedSession, news>>
    BY <1>5 DEF Shutdown, Stop
  <2> QED BY <2>1, <2>2, RestsKeeps
<1>6. CASE TransportsClosed BY <1>6, PollerGoneKeeps DEF TransportsClosed
<1>7. ASSUME NEW r \in Requests, Arrives(r) \/ Answered(r) \/ StreamCloses(r) PROVE UNCHANGED pollerVars
  BY <1>7 DEF Arrives, Answered, StreamCloses, Known, New, PostAnswered, DeleteAnswered, NotInitialized,
              onsessioninitialized
<1>8. evictIdleSessions \/ Tick \/ StdioRequest \/ UNCHANGED vars => UNCHANGED pollerVars
  BY DEF evictIdleSessions, Tick, StdioRequest, vars
<1> QED BY <1>1, <1>2, <1>3, <1>4, <1>5, <1>6, <1>7, <1>8 DEF Next

\* The poller reports a resource only if its content changed since it last
\* read it from the same target: never because of a use_ccu switch, an
\* outage or a restart of the cycle.
THEOREM NothingSpurious == Spec => NoSpuriousUpdate
<1> DEFINE I == PollerInv /\ active \in Targets
           Honest == \A u \in poll'.changedUris \ poll.changedUris : <<poll.session, u>> \in news
<1>1. Init => I BY InitPoller, PollerAssumption DEF Init
<1>2. I /\ [Next]_vars => I'
  <2> SUFFICES ASSUME I, [Next]_vars PROVE active' \in Targets BY PollerKept
  <2> QED
    BY DEF Next, vars, sessionVars, Arrives, Answered, StreamCloses, Known, New, PostAnswered, DeleteAnswered,
           NotInitialized, onsessioninitialized, evictIdleSessions, Tick, PollStep, notifyChanged, StdioRequest,
           CcuStep, Shutdown, TransportsClosed
<1>3. I /\ [Next]_vars => [Honest]_pollerVars BY PollerKept
<1> QED BY <1>1, <1>2, <1>3, PTL DEF Spec, NoSpuriousUpdate

-----------------------------------------------------------------------------
\* The sessions.  A session counts its streams; without one, it is as old
\* as its client's last contact; and it is never older than a request that
\* is under way.
Counted(s) == IsFiniteSet(Streams(s)) /\ sessions[s].openStreams = Cardinality(Streams(s))
InTouch(s) == Streams(s) = {} => contact[s] = sessions[s].lastSeen

RequestFits(r) ==
    /\ req[r].place \in {"free", "connect"} => req[r].sid = None
    /\ req[r].place \notin {"free", "connect"} => req[r].sid \in Table
    /\ req[r].place \in {"post", "delete"} => sessions[req[r].sid].lastSeen <= req[r].age

Accounts ==
    /\ IsFiniteSet(Table)
    /\ \A s \in Table : Counted(s) /\ InTouch(s)
    /\ \A r \in Requests : RequestFits(r)

SessionsTyped ==
    /\ transport \in {"stdio", "http"} /\ phase \in {"up", "closing", "exited"}
    /\ sessions \in [Sids -> SessionEntry \union {None}] /\ req \in [Requests -> Request]
    /\ subs \in [Sids -> SUBSET Uris] /\ active \in Targets /\ raced \in BOOLEAN
    /\ contact \in [Sids -> 0 .. Long] /\ known \in [Sids -> [Uris -> Contents \union {None}]]

SessionInv == PollerInv /\ SessionsTyped /\ (phase = "up" => Accounts)

LEMMA LongNat == Long \in Nat /\ 0 \in 0 .. Long /\ \A n \in 0 .. Long : Longer(n) \in 0 .. Long /\ Longer(n) <= n + 1
BY SessionsAssumption DEF Long, Longer

LEMMA EntryIsSome == \A e \in SessionEntry : e # None
<1>1. SessionEntry \subseteq [lastSeen: Nat, openStreams: Int] BY LongNat DEF SessionEntry
<1> QED BY <1>1, SessionsAssumption

LEMMA TableEntries ==
    ASSUME SessionsTyped, NEW s \in Table
    PROVE  s \in Sids /\ sessions[s] \in SessionEntry /\ s # None
BY SessionsAssumption DEF SessionsTyped, Table

LEMMA FreeTyped ==
    /\ Free \in Request
    /\ \A place \in {"connect", "post", "delete", "stream", "conflict"}, s \in Sids \union {None} :
          Under(place, s) \in Request
<1>1. 0 \in 0 .. MaxCall BY SessionsAssumption
<1> QED BY <1>1 DEF Free, Under, Request

\* Sessions end: those of S, with their requests.
LEMMA ClosedTyped ==
    ASSUME SessionsTyped, NEW S, Closed(S)
    PROVE  /\ sessions' \in [Sids -> SessionEntry \union {None}] /\ subs' \in [Sids -> SUBSET Uris]
           /\ known' \in [Sids -> [Uris -> Contents \union {None}]] /\ contact' \in [Sids -> 0 .. Long]
           /\ Without(S) \in [Requests -> Request]
BY FreeTyped, NoHashesTyped, LongNat DEF SessionsTyped, Closed, Without

LEMMA ClosedAccounts ==
    ASSUME SessionsTyped, Accounts, NEW S, Closed(S),
           \A q \in Requests : \/ req'[q] = IF req[q].sid \in S THEN Free ELSE req[q]
                               \/ req[q] = Free /\ req'[q] \in {Free, Under("connect", None)}
    PROVE  Accounts' /\ Table' = Table \ S
<1>1. Table' = Table \ S BY DEF Table, Closed, SessionsTyped
<1>2. IsFiniteSet(Table') BY <1>1, FS_Subset DEF Accounts
<1>3. ASSUME NEW s \in Table' PROVE Counted(s)' /\ InTouch(s)'
  <2>1. s \in Table /\ s \notin S /\ s \in Sids /\ s # None BY <1>1, <1>3, TableEntries
  <2>2. sessions'[s] = sessions[s] /\ contact'[s] = contact[s] BY <2>1 DEF Closed
  <2>3. Streams(s)' = Streams(s) BY <2>1 DEF Streams, On, Free, Under
  <2> QED BY <2>1, <2>2, <2>3 DEF Accounts, Counted, InTouch
<1>4. ASSUME NEW r \in Requests PROVE RequestFits(r)'
  <2>1. CASE req'[r] \in {Free, Under("connect", None)} BY <2>1 DEF RequestFits, Free, Under
  <2>2. CASE req'[r] = req[r] /\ req[r].sid \notin S
    <3>1. RequestFits(r) BY DEF Accounts
    <3>2. req[r].sid \in Table => req[r].sid \in Table' /\ sessions'[req[r].sid] = sessions[req[r].sid]
      BY <1>1, <2>2, TableEntries DEF Closed
    <3> QED BY <2>2, <3>1, <3>2 DEF RequestFits
  <2> QED BY <2>1, <2>2
<1> QED BY <1>1, <1>2, <1>3, <1>4 DEF Accounts

\* Nothing but the age and the kind of requests without a stream.
LEMMA StreamsSame ==
    ASSUME \A q \in Requests : \/ req'[q].sid = req[q].sid /\ req'[q].place = req[q].place
                               \/ /\ req[q].place \notin {"stream", "conflict"}
                                  /\ req'[q].place \notin {"stream", "conflict"}
    PROVE  \A s : Streams(s)' = Streams(s)
BY DEF Streams, On

LEMMA SameSessions ==
    ASSUME SessionsTyped, Accounts, UNCHANGED <<sessions, contact>>,
           \A q \in Requests : \/ req'[q] = req[q]
                               \/ req[q].place \notin {"stream", "conflict"} /\ req'[q] = Free
    PROVE  Accounts' /\ Table' = Table
<1>1. Table' = Table BY DEF Table
<1>2. \A s : Streams(s)' = Streams(s) BY StreamsSame DEF Free
<1>3. \A s \in Table : Counted(s)' /\ InTouch(s)' BY <1>2 DEF Accounts, Counted, InTouch
<1>4. \A r \in Requests : RequestFits(r)' BY <1>1 DEF Accounts, RequestFits, Free
<1> QED BY <1>1, <1>3, <1>4 DEF Accounts

-----------------------------------------------------------------------------
\* Requests of a session.
LEMMA KnownKeeps ==
    ASSUME SessionInv, NEW r \in Requests, NEW in \in Reaching, Known(r, in)
    PROVE  SessionsTyped' /\ Accounts' /\ Table' = Table
<1> DEFINE s == in.sid
           place == PlaceOf(in.method, s)
           k == IF in.method = "GET" THEN 1 ELSE 0
           e == [lastSeen |-> 0, openStreams |-> sessions[s].openStreams + k]
<1>1. /\ phase = "up" /\ req[r] = Free /\ s \in Table
      /\ sessions' = [sessions EXCEPT ![s] = e] /\ req' = [req EXCEPT ![r] = Under(place, s)]
      /\ contact' = [contact EXCEPT ![s] = 0]
      /\ UNCHANGED <<transport, subs, active, phase, known, raced>>
  BY DEF Known, Listening, Seen, Contacted
<1>2. SessionsTyped /\ Accounts BY <1>1 DEF SessionInv
<1>3. s \in Sids /\ sessions[s] \in SessionEntry /\ s # None BY <1>1, <1>2, TableEntries
<1>4. in.method \in {"GET", "POST", "DELETE"} BY DEF Reaching, Reaches, Incoming
<1>5. place \in {"post", "delete", "stream", "conflict"}
      /\ (in.method = "GET" <=> place \in {"stream", "conflict"})
  BY <1>4 DEF PlaceOf
<1>6. e \in SessionEntry BY <1>3, LongNat DEF SessionEntry
<1>7. Under(place, s) \in Request BY <1>3, <1>5, FreeTyped
<1>8. k \in {0, 1} /\ (k = 1 <=> place \in {"stream", "conflict"}) BY <1>5
<1>9. e.lastSeen = 0 /\ e.openStreams = sessions[s].openStreams + k OBVIOUS
<1> HIDE DEF place, k, e, s
<1>10. SessionsTyped' BY <1>1, <1>2, <1>3, <1>6, <1>7, LongNat DEF SessionsTyped
<1>11. Table' = Table BY <1>1, <1>2, <1>3, <1>6, EntryIsSome DEF Table, SessionsTyped
<1>12. req'[r] = Under(place, s) /\ \A q \in Requests \ {r} : req'[q] = req[q] BY <1>1, <1>2 DEF SessionsTyped
<1>13. sessions'[s] = e /\ contact'[s] = 0 /\ \A t \in Sids \ {s} : sessions'[t] = sessions[t] /\ contact'[t] = contact[t]
  BY <1>1, <1>2, <1>3 DEF SessionsTyped
<1>14. r \notin Streams(s) /\ \A t \in Sids \ {s} : Streams(t)' = Streams(t)
  BY <1>1, <1>3, <1>12, SessionsAssumption DEF Streams, On, Free, Under
<1>15. Streams(s)' = IF k = 1 THEN Streams(s) \union {r} ELSE Streams(s)
  BY <1>1, <1>5, <1>8, <1>12 DEF Streams, On, Free, Under
<1>16. Counted(s)' /\ InTouch(s)'
  <2>1. IsFiniteSet(Streams(s)) /\ sessions[s].openStreams = Cardinality(Streams(s)) BY <1>1, <1>2 DEF Accounts, Counted
  <2>2. Cardinality(Streams(s)) \in Nat BY <2>1, FS_CardinalityType
  <2>3. IsFiniteSet(Streams(s) \union {r}) /\ Cardinality(Streams(s) \union {r}) = Cardinality(Streams(s)) + 1
    BY <1>14, <2>1, FS_AddElement
  <2>4. Counted(s)' BY <1>8, <1>9, <1>13, <1>15, <2>1, <2>2, <2>3 DEF Counted
  <2>5. InTouch(s)' BY <1>9, <1>13 DEF InTouch
  <2> QED BY <2>4, <2>5
<1>17. ASSUME NEW t \in Table, t # s PROVE Counted(t)' /\ InTouch(t)'
  <2>1. t \in Sids BY DEF Table
  <2> QED BY <1>2, <1>13, <1>14, <1>17, <2>1 DEF Accounts, Counted, InTouch
<1>18. ASSUME NEW q \in Requests PROVE RequestFits(q)'
  <2>1. CASE q = r BY <1>1, <1>5, <1>9, <1>11, <1>12, <1>13, <2>1 DEF RequestFits, Under
  <2>2. CASE q # r
    <3>1. RequestFits(q) /\ req'[q] = req[q] /\ req[q].age \in Nat
      BY <1>2, <1>12, <2>2, SessionsAssumption DEF Accounts, SessionsTyped, Request
    <3>2. CASE req[q].sid = s BY <1>9, <1>11, <1>13, <3>1, <3>2 DEF RequestFits
    <3>3. CASE req[q].sid # s
      <4>1. req[q].sid \in Table => sessions'[req[q].sid] = sessions[req[q].sid]
        BY <1>13, <3>3 DEF Table
      <4> QED BY <1>11, <3>1, <4>1 DEF RequestFits
    <3> QED BY <3>2, <3>3
  <2> QED BY <2>1, <2>2
<1> QED BY <1>2, <1>10, <1>11, <1>16, <1>17, <1>18 DEF Accounts

LEMMA PostAnsweredKeeps ==
    ASSUME SessionInv, NEW r \in Requests, PostAnswered(r)
    PROVE  SessionsTyped' /\ Accounts' /\ Table' = Table
<1> DEFINE s == req[r].sid
<1>1. /\ phase = "up" /\ req[r].place = "post" /\ req' = [req EXCEPT ![r] = Free]
      /\ UNCHANGED <<transport, sessions, active, phase, contact, raced>>
  BY DEF PostAnswered, Listening
<1>2. SessionsTyped /\ Accounts BY <1>1 DEF SessionInv
<1>3. s \in Sids BY <1>1, <1>2 DEF Accounts, RequestFits, Table
<1>4. subs' \in [Sids -> SUBSET Uris] /\ known' \in [Sids -> [Uris -> Contents \union {None}]]
  <2>1. \A u \in Uris : content[Default][u] \in Contents
    BY PollerAssumption DEF SessionInv, PollerInv, PollerTypeOK
  <2>2. CASE UNCHANGED <<subs, known>> BY <1>2, <2>2 DEF SessionsTyped
  <2>3. ASSUME NEW u \in Uris, subs' = [subs EXCEPT ![s] = @ \union {u}],
               known' = [known EXCEPT ![s][u] = content[Default][u]]
        PROVE  subs' \in [Sids -> SUBSET Uris] /\ known' \in [Sids -> [Uris -> Contents \union {None}]]
    BY <1>2, <1>3, <2>1, <2>3 DEF SessionsTyped
  <2>4. ASSUME NEW u \in subs[s], subs' = [subs EXCEPT ![s] = @ \ {u}], known' = [known EXCEPT ![s][u] = None]
        PROVE  subs' \in [Sids -> SUBSET Uris] /\ known' \in [Sids -> [Uris -> Contents \union {None}]]
    <3>1. u \in Uris BY <1>2, <1>3, <2>4 DEF SessionsTyped
    <3> QED BY <1>2, <1>3, <2>4, <3>1 DEF SessionsTyped
  <2> QED BY <2>2, <2>3, <2>4 DEF PostAnswered
<1>5. SessionsTyped' BY <1>1, <1>2, <1>4, FreeTyped DEF SessionsTyped
<1>6. \A q \in Requests : \/ req'[q] = req[q]
                          \/ req[q].place \notin {"stream", "conflict"} /\ req'[q] = Free
  BY <1>1, <1>2 DEF SessionsTyped
<1> QED BY <1>1, <1>2, <1>5, <1>6, SameSessions

LEMMA DeleteAnsweredKeeps ==
    ASSUME SessionInv, NEW r \in Requests, DeleteAnswered(r)
    PROVE  SessionsTyped' /\ Accounts' /\ Table' \subseteq Table
<1> DEFINE S == {req[r].sid}
<1>1. /\ phase = "up" /\ Closed(S) /\ req' = Without(S) /\ UNCHANGED <<transport, active, phase, raced>>
  BY DEF DeleteAnswered, Listening
<1>2. SessionsTyped /\ Accounts BY <1>1 DEF SessionInv
<1> HIDE DEF S
<1>3. SessionsTyped' BY <1>1, <1>2, ClosedTyped DEF SessionsTyped
<1>4. \A q \in Requests : req'[q] = IF req[q].sid \in S THEN Free ELSE req[q] BY <1>1 DEF Without
<1> QED BY <1>1, <1>2, <1>3, <1>4, ClosedAccounts

LEMMA StreamClosesKeeps ==
    ASSUME SessionInv, NEW r \in Requests, StreamCloses(r)
    PROVE  SessionsTyped' /\ Accounts' /\ Table' = Table
<1>0. SessionsTyped /\ Accounts /\ req[r].sid \in Table
  BY DEF StreamCloses, Listening, SessionInv, Accounts, RequestFits
<1>s. PICK s \in Table : s = req[r].sid BY <1>0
<1> DEFINE e == [lastSeen |-> 0, openStreams |-> sessions[s].openStreams + (-1)]
<1>1. /\ phase = "up" /\ req[r].place \in {"stream", "conflict"}
      /\ sessions' = [sessions EXCEPT ![s] = e] /\ req' = [req EXCEPT ![r] = Free]
      /\ contact' = [contact EXCEPT ![s] = 0]
      /\ UNCHANGED <<transport, subs, active, phase, known, raced>>
  BY <1>s DEF StreamCloses, Listening, Released, Seen, Contacted
<1>2. SessionsTyped /\ Accounts BY <1>0
<1>3. s \in Table OBVIOUS
<1>4. s \in Sids /\ sessions[s] \in SessionEntry /\ s # None BY <1>2, <1>3, TableEntries
<1>5. e \in SessionEntry BY <1>4, LongNat DEF SessionEntry
<1>6. e.lastSeen = 0 /\ e.openStreams = sessions[s].openStreams - 1 BY <1>4 DEF SessionEntry
<1>7. r \in Streams(s) BY <1>1, <1>s DEF Streams, On
<1> HIDE DEF e
<1>8. SessionsTyped' BY <1>1, <1>2, <1>4, <1>5, FreeTyped, LongNat DEF SessionsTyped
<1>9. Table' = Table BY <1>1, <1>2, <1>4, <1>5, EntryIsSome DEF Table, SessionsTyped
<1>10. req'[r] = Free /\ \A q \in Requests \ {r} : req'[q] = req[q] BY <1>1, <1>2 DEF SessionsTyped
<1>11. sessions'[s] = e /\ contact'[s] = 0 /\ \A t \in Sids \ {s} : sessions'[t] = sessions[t] /\ contact'[t] = contact[t]
  BY <1>1, <1>2, <1>4 DEF SessionsTyped
<1>12. Streams(s)' = Streams(s) \ {r} BY <1>10 DEF Streams, On, Free
<1>13. \A t \in Sids \ {s} : Streams(t)' = Streams(t) BY <1>10, <1>s DEF Streams, On, Free
<1>14. Counted(s)' /\ InTouch(s)'
  <2>1. IsFiniteSet(Streams(s)) /\ sessions[s].openStreams = Cardinality(Streams(s)) BY <1>2, <1>3 DEF Accounts, Counted
  <2>2. IsFiniteSet(Streams(s) \ {r}) /\ Cardinality(Streams(s) \ {r}) = Cardinality(Streams(s)) - 1
    BY <1>7, <2>1, FS_RemoveElement
  <2>3. Counted(s)' BY <1>6, <1>11, <1>12, <2>1, <2>2 DEF Counted
  <2>4. InTouch(s)' BY <1>6, <1>11 DEF InTouch
  <2> QED BY <2>3, <2>4
<1>15. ASSUME NEW t \in Table, t # s PROVE Counted(t)' /\ InTouch(t)'
  <2>1. t \in Sids BY DEF Table
  <2> QED BY <1>2, <1>11, <1>13, <1>15, <2>1 DEF Accounts, Counted, InTouch
<1>16. ASSUME NEW q \in Requests PROVE RequestFits(q)'
  <2>1. CASE q = r BY <1>10, <2>1 DEF RequestFits, Free
  <2>2. CASE q # r
    <3>1. RequestFits(q) /\ req'[q] = req[q] /\ req[q].age \in Nat
      BY <1>2, <1>10, <2>2, SessionsAssumption DEF Accounts, SessionsTyped, Request
    <3>2. CASE req[q].sid = s BY <1>6, <1>9, <1>11, <3>1, <3>2 DEF RequestFits
    <3>3. CASE req[q].sid # s
      <4>1. req[q].sid \in Table => sessions'[req[q].sid] = sessions[req[q].sid] BY <1>11, <3>3 DEF Table
      <4> QED BY <1>9, <3>1, <4>1 DEF RequestFits
    <3> QED BY <3>2, <3>3
  <2> QED BY <2>1, <2>2
<1> QED BY <1>2, <1>8, <1>9, <1>14, <1>15, <1>16 DEF Accounts

-----------------------------------------------------------------------------
\* Requests without a session, sweeps, and the passing of time.
LEMMA NewKeeps ==
    ASSUME SessionInv, NEW r \in Requests, NEW in \in Reaching, New(r, in)
    PROVE  /\ SessionsTyped' /\ Accounts' /\ Table' \subseteq Table
           /\ req'[r] \in {Free, Under("connect", None)}
           /\ \A q \in Requests \ {r} : req'[q] \in {Free, req[q]}
           /\ \/ req'[r] = Free /\ raced' = raced
              \/ Cardinality(Table') < MAX_SESSIONS /\ raced' = (raced \/ Connecting(r) # {})
<1> DEFINE gone == IF Full({}) THEN {s \in Sids : Idle(s)} ELSE {}
           x == IF Full(gone) THEN Free ELSE Under("connect", None)
<1>1. /\ phase = "up" /\ req[r] = Free /\ Closed(gone) /\ req' = [Without(gone) EXCEPT ![r] = x]
      /\ raced' = (raced \/ (Connecting(r) # {} /\ ~Full(gone)))
      /\ UNCHANGED <<transport, active, phase>>
  BY DEF New, Listening
<1>2. SessionsTyped /\ Accounts BY <1>1 DEF SessionInv
<1>3. /\ x \in {Free, Under("connect", None)} /\ x \in Request
      /\ Full(gone) => x = Free
      /\ ~Full(gone) => Cardinality(Table \ gone) < MAX_SESSIONS
  <2>1. Full(gone) => x = Free OBVIOUS
  <2>2. x \in {Free, Under("connect", None)} OBVIOUS
  <2>3. Under("connect", None) \in Request /\ Free \in Request BY FreeTyped
  <2>4. ~Full(gone) => Cardinality(Table \ gone) < MAX_SESSIONS
    <3> HIDE DEF gone
    <3>1. Cardinality(Table \ gone) \in Nat BY <1>2, FS_Subset, FS_CardinalityType DEF Accounts
    <3> QED BY <3>1, SessionsAssumption DEF Full
  <2> QED BY <2>1, <2>2, <2>3, <2>4
<1> HIDE DEF gone, x
<1>4. Without(gone) \in [Requests -> Request] BY <1>1, <1>2, ClosedTyped
<1>5. req' \in [Requests -> Request] /\ raced' \in BOOLEAN BY <1>1, <1>2, <1>3, <1>4 DEF SessionsTyped
<1>6. SessionsTyped' BY <1>1, <1>2, <1>5, ClosedTyped DEF SessionsTyped
<1>7. req'[r] = x /\ \A q \in Requests \ {r} : req'[q] = IF req[q].sid \in gone THEN Free ELSE req[q]
  BY <1>1, <1>4 DEF Without
<1>8. Accounts' /\ Table' = Table \ gone BY <1>1, <1>2, <1>3, <1>7, ClosedAccounts
<1>9. \/ req'[r] = Free /\ raced' = raced
      \/ Cardinality(Table') < MAX_SESSIONS /\ raced' = (raced \/ Connecting(r) # {})
  <2>1. CASE Full(gone) BY <1>1, <1>2, <1>3, <1>7, <2>1 DEF SessionsTyped
  <2>2. CASE ~Full(gone) BY <1>1, <1>3, <1>8, <2>2
  <2> QED BY <2>1, <2>2
<1> QED BY <1>3, <1>6, <1>7, <1>8, <1>9

LEMMA InitializedKeeps ==
    ASSUME SessionInv, NEW r \in Requests, NEW s \in Sids, onsessioninitialized(r, s)
    PROVE  SessionsTyped' /\ Accounts' /\ Table' = Table \union {s} /\ s \notin Table
<1> DEFINE e == [lastSeen |-> 0, openStreams |-> 0]
<1>1. /\ phase = "up" /\ req[r].place = "connect" /\ s \notin Table /\ sessions' = [sessions EXCEPT ![s] = e]
      /\ req' = [req EXCEPT ![r] = Free] /\ contact' = [contact EXCEPT ![s] = 0]
      /\ raced' \in BOOLEAN /\ UNCHANGED <<transport, subs, active, phase, known>>
  BY DEF onsessioninitialized, Listening, Contacted, StillRaced, SessionInv, SessionsTyped
<1>2. SessionsTyped /\ Accounts BY <1>1 DEF SessionInv
<1>3. e \in SessionEntry /\ e.lastSeen = 0 /\ e.openStreams = 0 BY LongNat DEF SessionEntry
<1>4. s # None BY SessionsAssumption
<1> HIDE DEF e
<1>5. SessionsTyped' BY <1>1, <1>2, <1>3, FreeTyped, LongNat DEF SessionsTyped
<1>6. Table' = Table \union {s} BY <1>1, <1>2, <1>3, EntryIsSome DEF Table, SessionsTyped
<1>7. IsFiniteSet(Table') BY <1>2, <1>6, FS_AddElement DEF Accounts
<1>8. req'[r] = Free /\ \A q \in Requests \ {r} : req'[q] = req[q] BY <1>1, <1>2 DEF SessionsTyped
<1>9. sessions'[s] = e /\ contact'[s] = 0 /\ \A t \in Sids \ {s} : sessions'[t] = sessions[t] /\ contact'[t] = contact[t]
  BY <1>1, <1>2 DEF SessionsTyped
<1>10. \A t : Streams(t)' = Streams(t)
  <2>1. \A q \in Requests : \/ req'[q].sid = req[q].sid /\ req'[q].place = req[q].place
                            \/ /\ req[q].place \notin {"stream", "conflict"}
                               /\ req'[q].place \notin {"stream", "conflict"}
    BY <1>1, <1>8 DEF Free
  <2> QED BY <2>1, StreamsSame
<1>11. Streams(s) = {} BY <1>1, <1>2 DEF Accounts, RequestFits, Streams, On
<1>12. Counted(s)' /\ InTouch(s)' BY <1>3, <1>9, <1>10, <1>11, FS_EmptySet DEF Counted, InTouch
<1>13. ASSUME NEW t \in Table PROVE Counted(t)' /\ InTouch(t)'
  <2>1. t \in Sids /\ t # s BY <1>1 DEF Table
  <2> QED BY <1>2, <1>9, <1>10, <2>1 DEF Accounts, Counted, InTouch
<1>14. ASSUME NEW q \in Requests PROVE RequestFits(q)'
  <2>1. CASE q = r BY <1>8, <2>1 DEF RequestFits, Free
  <2>2. CASE q # r
    <3>1. RequestFits(q) /\ req'[q] = req[q] BY <1>2, <1>8, <2>2 DEF Accounts
    <3>2. req[q].sid \in Table => req[q].sid \in Table' /\ sessions'[req[q].sid] = sessions[req[q].sid]
      BY <1>1, <1>6, <1>9 DEF Table
    <3> QED BY <3>1, <3>2 DEF RequestFits
  <2> QED BY <2>1, <2>2
<1> QED BY <1>1, <1>5, <1>6, <1>7, <1>12, <1>13, <1>14 DEF Accounts

LEMMA NotInitializedKeeps ==
    ASSUME SessionInv, NEW r \in Requests, NotInitialized(r)
    PROVE  SessionsTyped' /\ Accounts' /\ Table' = Table
<1>1. /\ phase = "up" /\ req[r].place = "connect" /\ req' = [req EXCEPT ![r] = Free] /\ raced' \in BOOLEAN
      /\ UNCHANGED <<transport, sessions, subs, active, phase, contact, known>>
  BY DEF NotInitialized, Listening, StillRaced, SessionInv, SessionsTyped
<1>2. SessionsTyped /\ Accounts BY <1>1 DEF SessionInv
<1>3. SessionsTyped' BY <1>1, <1>2, FreeTyped DEF SessionsTyped
<1>4. \A q \in Requests : \/ req'[q] = req[q]
                          \/ req[q].place \notin {"stream", "conflict"} /\ req'[q] = Free
  BY <1>1, <1>2 DEF SessionsTyped
<1> QED BY <1>1, <1>2, <1>3, <1>4, SameSessions

LEMMA EvictKeeps ==
    ASSUME SessionInv, evictIdleSessions
    PROVE  SessionsTyped' /\ Accounts' /\ Table' \subseteq Table
<1> DEFINE S == {s \in Sids : Idle(s)}
<1>1. /\ phase = "up" /\ Closed(S) /\ req' = Without(S) /\ UNCHANGED <<transport, active, phase, raced>>
  BY DEF evictIdleSessions, Listening
<1>2. SessionsTyped /\ Accounts BY <1>1 DEF SessionInv
<1> HIDE DEF S
<1>3. SessionsTyped' BY <1>1, <1>2, ClosedTyped DEF SessionsTyped
<1>4. \A q \in Requests : req'[q] = IF req[q].sid \in S THEN Free ELSE req[q] BY <1>1 DEF Without
<1> QED BY <1>1, <1>2, <1>3, <1>4, ClosedAccounts

LEMMA TickKeeps ==
    ASSUME SessionInv, Tick
    PROVE  SessionsTyped' /\ Accounts' /\ Table' = Table
<1>1. /\ phase = "up" /\ \A r \in Requests : req[r].place \in {"post", "delete"} => req[r].age < MaxCall
      /\ sessions' = [s \in Sids |-> IF s \in Table THEN [sessions[s] EXCEPT !.lastSeen = Longer(@)] ELSE None]
      /\ req' = [r \in Requests |-> IF req[r].place \in {"post", "delete"} THEN [req[r] EXCEPT !.age = @ + 1] ELSE req[r]]
      /\ contact' = [s \in Sids |-> IF Streams(s) # {} \/ s \notin Table THEN 0 ELSE Longer(contact[s])]
      /\ UNCHANGED <<transport, subs, active, phase, known, raced>>
  BY DEF Tick, Listening
<1>2. SessionsTyped /\ Accounts BY <1>1 DEF SessionInv
<1>3. ASSUME NEW s \in Table
      PROVE  /\ s \in Sids /\ sessions'[s] \in SessionEntry /\ sessions[s].lastSeen \in 0 .. Long
             /\ sessions'[s].lastSeen = Longer(sessions[s].lastSeen)
             /\ sessions'[s].openStreams = sessions[s].openStreams
  <2>1. s \in Sids /\ sessions[s] \in SessionEntry BY <1>2, <1>3, TableEntries
  <2>2. Longer(sessions[s].lastSeen) \in 0 .. Long BY <2>1, LongNat DEF SessionEntry
  <2>3. sessions'[s] = [sessions[s] EXCEPT !.lastSeen = Longer(@)] BY <1>1, <2>1
  <2> QED BY <2>1, <2>2, <2>3 DEF SessionEntry
<1>4. ASSUME NEW r \in Requests
      PROVE  /\ req'[r] \in Request /\ req'[r].place = req[r].place /\ req'[r].sid = req[r].sid
             /\ req[r].place \in {"post", "delete"} => req'[r].age = req[r].age + 1 /\ req[r].age \in Nat
  <2>1. req[r] \in Request /\ req[r].age \in 0 .. MaxCall BY <1>2 DEF SessionsTyped, Request
  <2>2. CASE req[r].place \in {"post", "delete"}
    <3>1. req'[r] = [req[r] EXCEPT !.age = @ + 1] BY <1>1, <2>2
    <3>2. req[r].age + 1 \in 0 .. MaxCall BY <1>1, <2>1, <2>2, SessionsAssumption
    <3> QED BY <2>1, <3>1, <3>2 DEF Request
  <2>3. CASE req[r].place \notin {"post", "delete"}
    <3>1. req'[r] = req[r] BY <1>1, <2>3
    <3> QED BY <2>1, <2>3, <3>1
  <2> QED BY <2>2, <2>3
<1>5. SessionsTyped'
  <2>1. sessions' \in [Sids -> SessionEntry \union {None}] BY <1>1, <1>3
  <2>2. req' \in [Requests -> Request] BY <1>1, <1>4
  <2>3. contact' \in [Sids -> 0 .. Long]
    <3>1. \A s \in Sids : Longer(contact[s]) \in 0 .. Long BY <1>2, LongNat DEF SessionsTyped
    <3> QED BY <1>1, <3>1, LongNat
  <2> QED BY <1>1, <1>2, <2>1, <2>2, <2>3 DEF SessionsTyped
<1>6. Table' = Table
  <2>1. \A s \in Table : s \in Table' BY <1>3, EntryIsSome DEF Table
  <2>2. \A s \in Table' : s \in Table BY <1>1 DEF Table
  <2> QED BY <2>1, <2>2
<1>7. \A s : Streams(s)' = Streams(s) BY <1>4, StreamsSame
<1>8. ASSUME NEW s \in Table PROVE Counted(s)' /\ InTouch(s)'
  <2>1. Counted(s)' BY <1>2, <1>3, <1>7 DEF Accounts, Counted
  <2>2. InTouch(s)' BY <1>1, <1>2, <1>3, <1>7 DEF Accounts, InTouch
  <2> QED BY <2>1, <2>2
<1>9. ASSUME NEW r \in Requests PROVE RequestFits(r)'
  <2>1. RequestFits(r) BY <1>2 DEF Accounts
  <2>2. ASSUME req[r].place \in {"post", "delete"}
        PROVE  sessions'[req[r].sid].lastSeen <= req'[r].age
    <3>1. req[r].sid \in Table /\ sessions[req[r].sid].lastSeen <= req[r].age BY <2>1, <2>2 DEF RequestFits
    <3>2. Longer(sessions[req[r].sid].lastSeen) <= sessions[req[r].sid].lastSeen + 1
          /\ sessions[req[r].sid].lastSeen \in 0 .. Long
      BY <1>3, <3>1, LongNat
    <3>3. Longer(sessions[req[r].sid].lastSeen) \in 0 .. Long BY <3>2, LongNat
    <3>4. sessions'[req[r].sid].lastSeen = Longer(sessions[req[r].sid].lastSeen) BY <1>3, <3>1
    <3>5. req'[r].age = req[r].age + 1 /\ req[r].age \in Nat BY <1>4, <2>2
    <3> QED BY <3>1, <3>2, <3>3, <3>4, <3>5, LongNat
  <2> QED BY <1>4, <1>6, <2>1, <2>2 DEF RequestFits
<1> QED BY <1>2, <1>5, <1>6, <1>8, <1>9 DEF Accounts

-----------------------------------------------------------------------------
\* Steps that leave the session map alone, and the end of the process.
LEMMA ElsewhereKeeps ==
    ASSUME SessionInv, SessionsTyped', UNCHANGED <<sessions, req, contact, phase>>
    PROVE  (phase' = "up" => Accounts') /\ Table' = Table
<1>1. Table' = Table BY DEF Table
<1>2. \A s : Streams(s)' = Streams(s) BY DEF Streams, On
<1> QED BY <1>1, <1>2 DEF SessionInv, Accounts, Counted, InTouch, RequestFits

LEMMA PollerStepsKeep ==
    ASSUME SessionInv, PollStep \/ notifyChanged \/ StdioRequest \/ CcuStep
    PROVE  SessionsTyped' /\ UNCHANGED <<sessions, req, contact, phase, raced>>
<1>1. SessionsTyped /\ content \in [Targets -> [Uris -> Contents]] BY DEF SessionInv, PollerInv, PollerTypeOK
<1>2. CASE PollStep \/ CcuStep
  <2>1. UNCHANGED sessionVars BY <1>2 DEF PollStep, CcuStep
  <2> QED BY <1>1, <2>1 DEF sessionVars, SessionsTyped
<1>3. CASE notifyChanged
  <2>1. /\ UNCHANGED <<transport, sessions, req, subs, active, phase, contact, raced>>
        /\ known' = [s \in Sids |-> [u \in Uris |-> IF Told(s, u) THEN content[poll.session][u] ELSE known[s][u]]]
        /\ poll.session \in Targets
    BY <1>3 DEF notifyChanged, Notified, SessionInv, PollerInv, CycleFits
  <2>2. known' \in [Sids -> [Uris -> Contents \union {None}]] BY <1>1, <2>1 DEF SessionsTyped
  <2> QED BY <1>1, <2>1, <2>2 DEF SessionsTyped
<1>4. CASE StdioRequest
  <2>1. UNCHANGED <<transport, sessions, req, phase, contact, known, raced>> BY <1>4 DEF StdioRequest
  <2>2. subs' \in [Sids -> SUBSET Uris] /\ active' \in Targets
    BY <1>1, <1>4, SessionsAssumption DEF StdioRequest, SessionsTyped
  <2> QED BY <1>1, <2>1, <2>2 DEF SessionsTyped
<1> QED BY <1>2, <1>3, <1>4

LEMMA ShutdownKeeps ==
    ASSUME SessionInv, Shutdown \/ TransportsClosed
    PROVE  SessionsTyped' /\ phase' # "up"
<1>1. SessionsTyped BY DEF SessionInv
<1>2. CASE Shutdown
  <2>1. /\ phase' = "closing" /\ UNCHANGED <<transport, sessions, req, subs, active>> /\ raced' = FALSE
        /\ contact' = [s \in Sids |-> 0] /\ known' = [s \in Sids |-> NoHashes]
    BY <1>2 DEF Shutdown, HistoryEnds
  <2> QED BY <1>1, <2>1, NoHashesTyped, LongNat DEF SessionsTyped
<1>3. CASE TransportsClosed
  <2>1. /\ phase' = "exited" /\ Closed(Table) /\ req' = [r \in Requests |-> Free]
        /\ UNCHANGED <<transport, active, raced>>
    BY <1>3 DEF TransportsClosed
  <2>2. req' \in [Requests -> Request] BY <2>1, FreeTyped
  <2> QED BY <1>1, <2>1, <2>2, ClosedTyped DEF SessionsTyped
<1> QED BY <1>2, <1>3

LEMMA InitSession == Init => SessionInv
<1> SUFFICES ASSUME Init PROVE SessionInv OBVIOUS
<1>1. PollerInv BY InitPoller DEF Init
<1>2. SessionsTyped BY FreeTyped, NoHashesTyped, LongNat, PollerAssumption DEF Init, SessionsTyped
<1>3. Table = {} BY DEF Init, Table
<1>4. Accounts BY <1>3, FS_EmptySet DEF Init, Accounts, RequestFits, Free
<1> QED BY <1>1, <1>2, <1>4 DEF SessionInv

LEMMA SessionKept == SessionInv /\ [Next]_vars => SessionInv'
<1> SUFFICES ASSUME SessionInv, [Next]_vars PROVE SessionInv' OBVIOUS
<1>1. PollerInv' BY PollerKept DEF SessionInv, SessionsTyped
<1>2. SessionsTyped' /\ (phase' = "up" => Accounts')
  <2>1. CASE UNCHANGED vars
    <3>1. SessionsTyped' /\ UNCHANGED <<sessions, req, contact, phase>>
      BY <2>1 DEF vars, sessionVars, SessionInv, SessionsTyped
    <3> QED BY <3>1, ElsewhereKeeps
  <2>2. CASE PollStep \/ notifyChanged \/ StdioRequest \/ CcuStep
    BY <2>2, PollerStepsKeep, ElsewhereKeeps
  <2>3. ASSUME NEW r \in Requests, Arrives(r) PROVE SessionsTyped' /\ Accounts'
    BY <2>3, KnownKeeps, NewKeeps DEF Arrives
  <2>4. ASSUME NEW r \in Requests, Answered(r) PROVE SessionsTyped' /\ Accounts'
    BY <2>4, PostAnsweredKeeps, DeleteAnsweredKeeps, NotInitializedKeeps, InitializedKeeps DEF Answered
  <2>5. ASSUME NEW r \in Requests, StreamCloses(r) PROVE SessionsTyped' /\ Accounts' BY <2>5, StreamClosesKeeps
  <2>6. CASE evictIdleSessions BY <2>6, EvictKeeps
  <2>7. CASE Tick BY <2>7, TickKeeps
  <2>8. CASE Shutdown \/ TransportsClosed BY <2>8, ShutdownKeeps
  <2> QED BY <2>1, <2>2, <2>3, <2>4, <2>5, <2>6, <2>7, <2>8 DEF Next
<1> QED BY <1>1, <1>2 DEF SessionInv

\* The inductive invariant of the session map: every session counts its
\* streams, and is no older than its client's last contact.
THEOREM SpecSessions == Spec => []SessionInv
BY InitSession, SessionKept, PTL DEF Spec

\* Sessions, requests, streams and the poller's cycle keep their shape.
THEOREM TypesKept == Spec => []TypeOK
<1>1. SessionInv => TypeOK BY DEF SessionInv, SessionsTyped, PollerInv, TypeOK
<1> QED BY <1>1, SpecSessions, PTL

-----------------------------------------------------------------------------
\* Evictions.
LEMMA IdleIsAlone ==
    ASSUME SessionInv, phase = "up", NEW s \in Sids, Idle(s)
    PROVE  On(s) = {} /\ contact[s] > SESSION_IDLE
<1>1. SessionsTyped /\ Accounts /\ s \in Table BY DEF SessionInv, Idle
<1>2. sessions[s].lastSeen > SESSION_IDLE /\ sessions[s].openStreams = 0 BY DEF Idle
<1>3. Streams(s) = {} /\ contact[s] = sessions[s].lastSeen
  BY <1>1, <1>2, FS_EmptySet DEF Accounts, Counted, InTouch
<1>4. ASSUME NEW r \in On(s) PROVE FALSE
  <2>1. r \in Requests /\ req[r].sid = s /\ RequestFits(r) /\ req[r] \in Request
    BY <1>1, <1>4 DEF On, Accounts, SessionsTyped
  <2>2. s # None BY SessionsAssumption
  <2>3. req[r].place \in {"post", "delete"} BY <1>3, <2>1, <2>2 DEF RequestFits, Streams, On, Request
  <2>4. sessions[s].lastSeen <= req[r].age /\ req[r].age \in 0 .. MaxCall
    BY <2>1, <2>3 DEF RequestFits, Request
  <2>5. sessions[s].lastSeen \in 0 .. Long BY <1>1, TableEntries DEF SessionEntry
  <2> QED BY <1>2, <2>4, <2>5, SessionsAssumption, LongNat
<1> QED BY <1>2, <1>3, <1>4

\* A sweep, and an initialize request that finds the map full, end only
\* sessions without stream and request, whose client has been away for
\* longer than the idle time, for any limits and any number of sessions.
THEOREM SweepsSpareTheUsed == Spec => EvictedOnlyIdle
<1> DEFINE Fair == \A s \in Sids : s \in Table /\ sessions'[s] = None /\ phase' = "up"
                     /\ (\A r \in On(s) : req[r].place # "delete")
                     => On(s) = {} /\ contact[s] > SESSION_IDLE
<1>1. ASSUME SessionInv, [Next]_vars PROVE Fair
  <2> SUFFICES ASSUME NEW s \in Sids, s \in Table, sessions'[s] = None, phase' = "up",
                      \A r \in On(s) : req[r].place # "delete"
               PROVE  On(s) = {} /\ contact[s] > SESSION_IDLE
    OBVIOUS
  <2>1. s \notin Table' BY DEF Table
  <2>2. CASE evictIdleSessions
    <3>1. Idle(s) /\ phase = "up"
      BY <2>2 DEF evictIdleSessions, Listening, Closed, Table
    <3> QED BY <1>1, <3>1, IdleIsAlone
  <2>3. ASSUME NEW r \in Requests, NEW in \in Reaching, New(r, in)
        PROVE  On(s) = {} /\ contact[s] > SESSION_IDLE
    <3>1. Idle(s) /\ phase = "up" BY <2>3 DEF New, Listening, Closed, Table
    <3> QED BY <1>1, <3>1, IdleIsAlone
  <2>4. ASSUME NEW r \in Requests, DeleteAnswered(r) PROVE FALSE
    <3>1. req[r].place = "delete" /\ req[r].sid = s BY <2>4 DEF DeleteAnswered, Closed, Table
    <3> QED BY <3>1 DEF On
  <2>5. ASSUME NEW r \in Requests, NEW in \in Reaching, Known(r, in) PROVE FALSE
    BY <1>1, <2>1, <2>5, KnownKeeps
  <2>6. ASSUME NEW r \in Requests, PostAnswered(r) \/ NotInitialized(r) PROVE FALSE
    BY <1>1, <2>1, <2>6, PostAnsweredKeeps, NotInitializedKeeps
  <2>7. ASSUME NEW r \in Requests, NEW t \in Sids, onsessioninitialized(r, t) PROVE FALSE
    BY <1>1, <2>1, <2>7, InitializedKeeps
  <2>8. ASSUME NEW r \in Requests, StreamCloses(r) PROVE FALSE BY <1>1, <2>1, <2>8, StreamClosesKeeps
  <2>9. ~Tick BY <1>1, <2>1, TickKeeps
  <2>10. ~(PollStep \/ notifyChanged \/ StdioRequest \/ CcuStep)
    BY <1>1, <2>1, PollerStepsKeep DEF Table
  <2>11. ~(Shutdown \/ TransportsClosed) BY <1>1, ShutdownKeeps
  <2>12. ~UNCHANGED vars BY <2>1 DEF vars, sessionVars, Table
  <2> QED BY <1>1, <2>2, <2>3, <2>4, <2>5, <2>6, <2>7, <2>8, <2>9, <2>10, <2>11, <2>12 DEF Next, Arrives, Answered
<1>2. SessionInv /\ [Next]_vars => [Fair]_vars BY <1>1
<1> QED BY <1>2, SpecSessions, PTL DEF Spec, EvictedOnlyIdle

-----------------------------------------------------------------------------
\* The limit.  Unless requests have raced, there is room for the one that
\* has passed the check, and no other one has.
Room ==
    phase = "up" /\ ~raced =>
        /\ Cardinality(Table) <= MAX_SESSIONS
        /\ \A r \in Requests : req[r].place = "connect" =>
              Cardinality(Table) < MAX_SESSIONS /\ Connecting(r) = {}

LEMMA TableSize == ASSUME SessionInv, phase = "up" PROVE IsFiniteSet(Table) /\ Cardinality(Table) \in Nat
BY FS_CardinalityType DEF SessionInv, Accounts

\* No more sessions, and nobody new who connects.
LEMMA RoomStays ==
    ASSUME SessionInv, Room, phase = "up", Table' \subseteq Table, UNCHANGED raced,
           \A q \in Requests : req'[q].place = "connect" => req[q].place = "connect"
    PROVE  Room'
<1>1. IsFiniteSet(Table) /\ Cardinality(Table) \in Nat BY TableSize
<1>2. Cardinality(Table') <= Cardinality(Table) /\ Cardinality(Table') \in Nat
  BY <1>1, FS_Subset, FS_CardinalityType
<1>3. \A q \in Requests : Connecting(q)' \subseteq Connecting(q) BY DEF Connecting
<1> QED BY <1>1, <1>2, <1>3, SessionsAssumption DEF Room

LEMMA RoomForNew ==
    ASSUME SessionInv, Room, NEW r \in Requests, NEW in \in Reaching, New(r, in) PROVE Room'
<1>1. phase = "up" /\ req[r] = Free /\ Free.place # "connect" BY DEF New, Listening, Free
<1>2. /\ Table' \subseteq Table /\ Accounts'
      /\ \A q \in Requests \ {r} : req'[q] \in {Free, req[q]}
      /\ \/ req'[r] = Free /\ raced' = raced
         \/ Cardinality(Table') < MAX_SESSIONS /\ raced' = (raced \/ Connecting(r) # {})
  BY NewKeeps
<1>3. CASE req'[r] = Free /\ raced' = raced BY <1>1, <1>2, <1>3, RoomStays
<1>4. CASE Cardinality(Table') < MAX_SESSIONS /\ raced' = (raced \/ Connecting(r) # {})
  <2> SUFFICES ASSUME ~raced, Connecting(r) = {}
               PROVE  /\ Cardinality(Table') <= MAX_SESSIONS
                      /\ \A q \in Requests : req'[q].place = "connect" =>
                            Cardinality(Table') < MAX_SESSIONS /\ Connecting(q)' = {}
    BY <1>4 DEF Room
  <2>1. \A q \in Requests : req'[q].place = "connect" => q = r BY <1>1, <1>2 DEF Connecting
  <2>2. \A q \in Requests : req'[q].place = "connect" => Connecting(q)' = {} BY <2>1 DEF Connecting
  <2>3. Cardinality(Table') \in Nat BY <1>2, FS_CardinalityType DEF Accounts
  <2> QED BY <1>4, <2>2, <2>3, SessionsAssumption
<1> QED BY <1>2, <1>3, <1>4

LEMMA RoomOnceInitialized ==
    ASSUME SessionInv, Room, NEW r \in Requests, NEW s \in Sids, onsessioninitialized(r, s) PROVE Room'
<1> SUFFICES ASSUME ~raced'
             PROVE  /\ Cardinality(Table') <= MAX_SESSIONS
                    /\ \A q \in Requests : req'[q].place # "connect"
  BY DEF Room
<1>1. /\ phase = "up" /\ req[r].place = "connect" /\ req' = [req EXCEPT ![r] = Free]
      /\ raced' = (raced /\ (Connecting(r) # {} \/ Cardinality(Table) + 1 > MAX_SESSIONS))
  BY DEF onsessioninitialized, Listening, StillRaced
<1>2. IsFiniteSet(Table) /\ Cardinality(Table) \in Nat BY <1>1, TableSize
<1>3. Table' = Table \union {s} /\ s \notin Table BY InitializedKeeps
<1>4. Cardinality(Table') = Cardinality(Table) + 1 BY <1>2, <1>3, FS_AddElement
<1>5. Connecting(r) = {} /\ Cardinality(Table) + 1 <= MAX_SESSIONS
  <2>1. CASE raced
    <3>1. Connecting(r) = {} /\ ~(Cardinality(Table) + 1 > MAX_SESSIONS) BY <1>1, <2>1, Zenon
    <3> QED BY <1>2, <3>1, SessionsAssumption
  <2>2. CASE ~raced BY <1>1, <1>2, <2>2, SessionsAssumption DEF Room
  <2> QED BY <2>1, <2>2
<1>6. \A q \in Requests : req'[q].place # "connect"
  BY <1>1, <1>5 DEF Connecting, Free, SessionInv, SessionsTyped
<1> QED BY <1>4, <1>5, <1>6

LEMMA RoomWithoutSession ==
    ASSUME SessionInv, Room, NEW r \in Requests, NotInitialized(r) PROVE Room'
<1> SUFFICES ASSUME ~raced'
             PROVE  /\ Cardinality(Table') <= MAX_SESSIONS
                    /\ \A q \in Requests : req'[q].place # "connect"
  BY DEF Room
<1>1. /\ phase = "up" /\ req[r].place = "connect" /\ req' = [req EXCEPT ![r] = Free]
      /\ raced' = (raced /\ (Connecting(r) # {} \/ Cardinality(Table) > MAX_SESSIONS))
  BY DEF NotInitialized, Listening, StillRaced
<1>2. Cardinality(Table) \in Nat BY <1>1, TableSize
<1>3. Table' = Table BY NotInitializedKeeps
<1>4. Connecting(r) = {} /\ Cardinality(Table) <= MAX_SESSIONS
  <2>1. CASE raced
    <3>1. Connecting(r) = {} /\ ~(Cardinality(Table) > MAX_SESSIONS) BY <1>1, <2>1, Zenon
    <3> QED BY <1>2, <3>1, SessionsAssumption
  <2>2. CASE ~raced BY <1>1, <1>2, <2>2, SessionsAssumption DEF Room
  <2> QED BY <2>1, <2>2
<1>5. \A q \in Requests : req'[q].place # "connect"
  BY <1>1, <1>4 DEF Connecting, Free, SessionInv, SessionsTyped
<1> QED BY <1>3, <1>4, <1>5

LEMMA RoomKept == SessionInv /\ Room /\ [Next]_vars => Room'
<1> SUFFICES ASSUME SessionInv, Room, [Next]_vars PROVE Room' OBVIOUS
<1> DEFINE NoneNew == \A q \in Requests : req'[q].place = "connect" => req[q].place = "connect"
<1>0. SessionsTyped BY DEF SessionInv
<1>1. CASE PollStep \/ notifyChanged \/ StdioRequest \/ CcuStep \/ UNCHANGED vars
  <2>1. UNCHANGED <<sessions, req, phase, raced>> BY <1>1, PollerStepsKeep DEF vars, sessionVars
  <2> QED BY <2>1 DEF Room, Table, Connecting
<1>2. CASE evictIdleSessions
  <2>1. phase = "up" /\ UNCHANGED raced /\ NoneNew BY <1>2 DEF evictIdleSessions, Listening, Without, Free
  <2> QED BY <1>2, <2>1, EvictKeeps, RoomStays
<1>3. CASE Tick
  <2>1. phase = "up" /\ UNCHANGED raced BY <1>3 DEF Tick, Listening
  <2>2. NoneNew
    <3> SUFFICES ASSUME NEW q \in Requests, req[q].place # "connect" PROVE req'[q].place # "connect" OBVIOUS
    <3>1. req'[q] = IF req[q].place \in {"post", "delete"} THEN [req[q] EXCEPT !.age = @ + 1] ELSE req[q]
      BY <1>3 DEF Tick
    <3> QED BY <1>0, <3>1 DEF SessionsTyped, Request
  <2> QED BY <1>3, <2>1, <2>2, TickKeeps, RoomStays
<1>4. ASSUME NEW r \in Requests, StreamCloses(r) \/ PostAnswered(r) PROVE Room'
  <2>1. phase = "up" /\ UNCHANGED raced /\ req' = [req EXCEPT ![r] = Free]
    BY <1>4 DEF StreamCloses, PostAnswered, Listening
  <2>2. NoneNew BY <1>0, <2>1 DEF SessionsTyped, Free
  <2> QED BY <1>4, <2>1, <2>2, StreamClosesKeeps, PostAnsweredKeeps, RoomStays
<1>5. ASSUME NEW r \in Requests, DeleteAnswered(r) PROVE Room'
  <2>1. phase = "up" /\ UNCHANGED raced /\ NoneNew BY <1>5 DEF DeleteAnswered, Listening, Without, Free
  <2> QED BY <1>5, <2>1, DeleteAnsweredKeeps, RoomStays
<1>6. ASSUME NEW r \in Requests, NEW in \in Reaching, Known(r, in) PROVE Room'
  <2>1. phase = "up" /\ UNCHANGED raced /\ req' = [req EXCEPT ![r] = Under(PlaceOf(in.method, in.sid), in.sid)]
    BY <1>6 DEF Known, Listening
  <2>2. PlaceOf(in.method, in.sid) # "connect"
    <3>1. in.method \in {"GET", "POST", "DELETE"} BY DEF Reaching, Reaches, Incoming
    <3> QED BY <3>1 DEF PlaceOf
  <2>3. NoneNew BY <1>0, <2>1, <2>2 DEF SessionsTyped, Under
  <2> QED BY <1>6, <2>1, <2>3, KnownKeeps, RoomStays
<1>7. CASE Shutdown \/ TransportsClosed BY <1>7, ShutdownKeeps DEF Room
<1> QED BY <1>1, <1>2, <1>3, <1>4, <1>5, <1>6, <1>7, RoomForNew, RoomOnceInitialized, RoomWithoutSession
    DEF Next, Arrives, Answered

\* Only initialize requests that overlap, each past the capacity check
\* before another has made its entry, can overfill the session map.
THEOREM LimitHoldsButForRaces == Spec => []OverrunOnlyByRaces
<1>1. Init => Room
  <2>1. ASSUME Init PROVE Room
    <3>1. Table = {} /\ \A r \in Requests : req[r].place = "free" BY <2>1 DEF Init, Table, Free
    <3> QED BY <3>1, FS_EmptySet, SessionsAssumption DEF Room
  <2> QED BY <2>1
<1>2. SessionInv /\ Room => OverrunOnlyByRaces
  <2> SUFFICES ASSUME SessionInv, Room, phase = "up", ~raced PROVE ~(Cardinality(Table) > MAX_SESSIONS)
    BY DEF OverrunOnlyByRaces
  <2> QED BY TableSize, SessionsAssumption DEF Room
<1> QED BY <1>1, <1>2, RoomKept, SpecSessions, PTL DEF Spec

-----------------------------------------------------------------------------
(* The tokens.  What a decision of resolveAuthTokens() can be: a token      *)
(* generated, the clock of an old one started, a rotation, or the token as  *)
(* it is; in all but the rotation, a previous one may have been dropped.    *)

Lookahead(d) == IF d.boot THEN 0 ELSE Interval

Drops(d) ==
    \/ d.state.previous = d.before.previous /\ d.state.until = d.before.until
    \/ d.state.previous = NoToken /\ d.state.until = Never
         /\ d.before.previous # NoToken /\ d.before.until # Never /\ d.before.until < now

Generates(d) ==
    /\ d.before.token = NoToken /\ d.minted /\ ~d.rotated
    /\ d.state = [token |-> d.state.token, issued |-> now, previous |-> NoToken, until |-> Never]

Stamps(d) ==
    /\ d.before.token # NoToken /\ d.before.issued = Never /\ ~d.minted /\ ~d.rotated
    /\ d.state.token = d.before.token /\ d.state.issued = now /\ Drops(d)

Rotates(d) ==
    /\ d.before.token # NoToken /\ d.before.issued # Never /\ d.minted /\ d.rotated
    /\ now + Lookahead(d) >= d.before.issued + TTL
    /\ d.state = [token |-> d.state.token, issued |-> now, previous |-> d.before.token,
                  until |-> Larger(now + Grace, d.before.issued + TTL)]

Stays(d) ==
    /\ d.before.token # NoToken /\ d.before.issued # Never /\ ~d.minted /\ ~d.rotated
    /\ now + Lookahead(d) < d.before.issued + TTL
    /\ d.state.token = d.before.token /\ d.state.issued = d.before.issued /\ Drops(d)

\* A token minted is one that nobody has, and that nobody may rely on.
Strange(t, s) == t \in Tokens /\ Unused(t) /\ t \notin {s.token, s.previous}

Resolved(s) == s.token \in Tokens /\ s.issued \in Times

Sensible(d) ==
    /\ d \in Decision /\ Resolved(d.state)
    /\ Generates(d) \/ Stamps(d) \/ Rotates(d) \/ Stays(d)
    /\ d.minted => Strange(d.state.token, d.before)

\* A state is its four fields.
LEMMA StateFields ==
    ASSUME NEW s \in State
    PROVE  /\ s = [token |-> s.token, issued |-> s.issued, previous |-> s.previous, until |-> s.until]
           /\ s.token \in Tokens \union {NoToken} /\ s.issued \in Times \union {Never}
           /\ s.previous \in Tokens \union {NoToken} /\ s.until \in Ends
BY DEF State

\* Dropping a previous token leaves the rest.
LEMMA PrunedFields ==
    ASSUME NEW s \in State
    PROVE  /\ Pruned(s) \in State /\ Pruned(s).token = s.token /\ Pruned(s).issued = s.issued
           /\ \/ Pruned(s) = s /\ (s.previous = NoToken \/ s.until = Never \/ ~(now > s.until))
              \/ /\ Pruned(s).previous = NoToken /\ Pruned(s).until = Never
                 /\ s.previous # NoToken /\ s.until # Never /\ now > s.until
<1>1. Never \in Ends BY AuthAssumption DEF Ends, Never
<1>2. [s EXCEPT !.previous = NoToken, !.until = Never] \in State BY <1>1 DEF State
<1>3. CASE s.previous # NoToken /\ s.until # Never /\ now > s.until
  <2>1. Pruned(s) = [s EXCEPT !.previous = NoToken, !.until = Never] BY <1>3 DEF Pruned
  <2>2. /\ [s EXCEPT !.previous = NoToken, !.until = Never].token = s.token
        /\ [s EXCEPT !.previous = NoToken, !.until = Never].issued = s.issued
        /\ [s EXCEPT !.previous = NoToken, !.until = Never].previous = NoToken
        /\ [s EXCEPT !.previous = NoToken, !.until = Never].until = Never
    BY DEF State
  <2> QED BY <1>2, <1>3, <2>1, <2>2
<1>4. CASE ~(s.previous # NoToken /\ s.until # Never /\ now > s.until)
  <2>1. Pruned(s) = s BY <1>4 DEF Pruned
  <2> QED BY <1>4, <2>1
<1> QED BY <1>3, <1>4

LEMMA RenewedTyped ==
    ASSUME now \in Times, NEW s \in State, NEW fresh \in Tokens, NEW lookahead
    PROVE  Renewed(s, fresh, lookahead) \in State
<1> USE AuthAssumption
<1>1. Never \in Ends /\ now \in Nat /\ now <= MaxTime BY DEF Ends, Never, Times
<1>2. CASE s.token = NoToken BY <1>1, <1>2 DEF Renewed, Blank, Stamp, State
<1>3. CASE s.token # NoToken /\ s.issued = Never BY <1>3 DEF Renewed, Stamp, State
<1>4. CASE s.token # NoToken /\ s.issued # Never /\ Expiring(s, lookahead)
  <2>1. s.issued \in Nat /\ s.issued <= MaxTime BY <1>4, StateFields DEF Times
  <2>2. OutgoingUntil(s) \in Ends BY <1>1, <2>1 DEF OutgoingUntil, Larger, Ends, Never
  <2>3. Renewed(s, fresh, lookahead) =
          [token |-> fresh, issued |-> now, previous |-> s.token, until |-> OutgoingUntil(s)]
    BY <1>4 DEF Renewed, Stamp
  <2> QED BY <2>2, <2>3, StateFields DEF State
<1>5. CASE s.token # NoToken /\ s.issued # Never /\ ~Expiring(s, lookahead) BY <1>5 DEF Renewed
<1> QED BY <1>2, <1>3, <1>4, <1>5

LEMMA DecidedTyped ==
    ASSUME now \in Times, NEW s \in State, NEW fresh \in Tokens, NEW lookahead, NEW boot \in BOOLEAN
    PROVE  Decided(s, fresh, lookahead, boot) \in Decision
<1>1. Pruned(Renewed(s, fresh, lookahead)) \in State BY RenewedTyped, PrunedFields
<1> QED BY <1>1 DEF Decided, Decision

LEMMA DecidedFits ==
    ASSUME now \in Times, NEW s \in State, NEW fresh, Strange(fresh, s), NEW boot \in BOOLEAN,
           NEW d, d = Decided(s, fresh, IF boot THEN 0 ELSE Interval, boot)
    PROVE  /\ d \in Decision /\ d.before = s /\ d.boot = boot /\ Resolved(d.state)
           /\ d.changed <=> d.state # d.before
           /\ d.minted => d.state.token = fresh
           /\ Generates(d) \/ Stamps(d) \/ Rotates(d) \/ Stays(d)
<1> DEFINE l == IF boot THEN 0 ELSE Interval
           r == Renewed(s, fresh, l)
<1> USE AuthAssumption
<1>1. fresh \in Tokens /\ fresh # s.token /\ fresh # NoToken /\ now \in Nat BY DEF Strange, Times
<1>2. /\ d.before = s /\ d.boot = boot /\ d.state = Pruned(r) /\ (d.changed <=> d.state # s)
      /\ d.minted <=> d.state.token # s.token
      /\ d.rotated <=> s.token # NoToken /\ d.state.token # s.token
  BY DEF Decided
<1>3. d \in Decision BY <1>1, DecidedTyped
<1>4. r \in State BY <1>1, RenewedTyped
<1>5. Lookahead(d) = l BY <1>2 DEF Lookahead
<1>6. l \in Nat BY DEF l
<1> HIDE DEF l
<1>7. CASE s.token = NoToken
  <2>1. r = [token |-> fresh, issued |-> now, previous |-> NoToken, until |-> Never]
    BY <1>7 DEF Renewed, Blank, Stamp
  <2>5. r.previous = NoToken BY <2>1
  <2> HIDE DEF r
  <2>2. Pruned(r) = r BY <2>5, <1>4, PrunedFields
  <2>3. d.state = [token |-> fresh, issued |-> now, previous |-> NoToken, until |-> Never]
        /\ d.state.token = fresh /\ d.state.issued = now /\ d.minted /\ ~d.rotated
    BY <1>1, <1>2, <1>7, <2>1, <2>2
  <2>4. Generates(d) /\ Resolved(d.state) BY <1>1, <1>2, <1>7, <2>3 DEF Generates, Resolved
  <2> QED BY <1>2, <1>3, <2>3, <2>4
<1>8. CASE s.token # NoToken /\ s.issued = Never
  <2>1. r = [s EXCEPT !.issued = now] BY <1>8 DEF Renewed, Stamp
  <2>2. r.token = s.token /\ r.issued = now /\ r.previous = s.previous /\ r.until = s.until
    BY <2>1 DEF State
  <2> HIDE DEF r
  <2>3. d.state.token = s.token /\ d.state.issued = now /\ ~d.minted /\ ~d.rotated /\ Drops(d)
    BY <1>2, <1>4, <2>2, PrunedFields DEF Drops
  <2> QED BY <1>1, <1>2, <1>3, <1>8, <2>3, StateFields DEF Stamps, Resolved, Times
<1>9. CASE s.token # NoToken /\ s.issued # Never
  <2>1. s.issued \in Nat BY <1>9, StateFields DEF Times
  <2>2. CASE Expiring(s, l)
    <3>1. r = [token |-> fresh, issued |-> now, previous |-> s.token, until |-> OutgoingUntil(s)]
      BY <1>9, <2>2 DEF Renewed, Stamp
    <3>2. ~(now > OutgoingUntil(s)) BY <1>1, <2>1 DEF OutgoingUntil, Larger
    <3>3. r.until = OutgoingUntil(s) BY <3>1
    <3> HIDE DEF r
    <3>8. Pruned(r) = r BY <3>2, <3>3, <1>4, PrunedFields
    <3>4. now + l >= s.issued + TTL BY <1>1, <1>6, <2>1, <2>2 DEF Expiring
    <3>5. /\ d.state = [token |-> fresh, issued |-> now, previous |-> s.token, until |-> OutgoingUntil(s)]
          /\ d.state.token = fresh /\ d.state.issued = now /\ d.minted /\ d.rotated
      BY <1>1, <1>2, <1>9, <3>1, <3>8
    <3>6. Rotates(d) BY <1>2, <1>5, <1>9, <3>4, <3>5 DEF Rotates, OutgoingUntil
    <3>7. Resolved(d.state) BY <1>1, <3>5 DEF Resolved
    <3> QED BY <1>2, <1>3, <3>5, <3>6, <3>7
  <2>3. CASE ~Expiring(s, l)
    <3>1. r = s BY <1>9, <2>3 DEF Renewed
    <3>2. d.state.token = s.token /\ d.state.issued = s.issued /\ ~d.minted /\ ~d.rotated /\ Drops(d)
      BY <1>2, <3>1, PrunedFields DEF Drops
    <3>3. now + l < s.issued + TTL BY <1>1, <1>6, <2>1, <2>3 DEF Expiring
    <3> QED BY <1>2, <1>3, <1>5, <1>9, <3>2, <3>3, StateFields DEF Stays, Resolved
  <2> QED BY <2>2, <2>3
<1> QED BY <1>7, <1>8, <1>9, StateFields

-----------------------------------------------------------------------------
\* Where the process is.  While it starts nobody is let in; a check happens at
\* one moment, and the next one comes in time.
Busy == pc \in {"save", "write"}
Starting == pc = "down" \/ (Busy /\ work.boot)
Ticking == pc \in {"had", "recheck"} \/ (Busy /\ ~work.boot)

TokenInv ==
    /\ AuthTypeOK
    /\ Busy => Sensible(work)
    /\ Ticking => due = now + Interval
    /\ pc = "idle" => now <= due
    /\ Starting => entries = {}
    /\ pc = "recheck" => ~had /\ Resolved(work.state)

LEMMA EntriesTyped == ASSUME NEW s \in State, Resolved(s) PROVE EntriesOf(s) \subseteq Entry
<1>1. s.issued + TTL \in Ends BY AuthAssumption DEF Resolved, Times, Ends, Never
<1>2. [token |-> s.token, expires |-> s.issued + TTL, graced |-> FALSE] \in Entry BY <1>1 DEF Entry, Resolved
<1>3. s.previous # NoToken => [token |-> s.previous, expires |-> s.until, graced |-> FALSE] \in Entry
  BY StateFields DEF Entry
<1> QED BY <1>2, <1>3 DEF EntriesOf

LEMMA BlankTyped == Blank \in State /\ NoFile \in File
<1>1. Never \in Ends BY AuthAssumption DEF Ends, Never
<1> QED BY <1>1 DEF Blank, NoFile, State, File

\* What comes of a resolve: nothing to save, or a decision to be saved.
ResolvesTo(d, r, boot) ==
    /\ r.state \in State /\ Read(r) /\ sound' = (sound /\ r = file)
    /\ Sensible(d) /\ d.before = r.state /\ d.boot = boot
    /\ \/ /\ d.state # d.before
          /\ work' = d /\ pc' = "save" /\ UNCHANGED <<entries, due, kept, promise>>
       \/ d.state = d.before /\ Stays(d) /\ Returns(d) /\ UNCHANGED promise
    /\ UNCHANGED <<now, writable, file, had, outages, edits, quits>>

LEMMA ResolvesDecides ==
    ASSUME AuthTypeOK, NEW boot \in BOOLEAN, Resolves(IF boot THEN 0 ELSE Interval, boot)
    PROVE  \E d, r : r \in {file, NoFile} /\ ResolvesTo(d, r, boot)
<1> DEFINE l == IF boot THEN 0 ELSE Interval
<1>1. PICK r \in {file, NoFile}, fresh \in {t \in Tokens : Unused(t)} :
        LET d == Decided(r.state, fresh, l, boot) IN
        /\ Read(r) /\ sound' = (sound /\ r = file)
        /\ IF d.changed
           THEN work' = d /\ pc' = "save" /\ UNCHANGED <<entries, due, kept, promise>>
           ELSE Returns(d) /\ promise' = Promised(d)
        /\ UNCHANGED <<now, disk, had, outages, edits, quits>>
  BY DEF Resolves
<1> HIDE DEF l
<1> DEFINE d == Decided(r.state, fresh, l, boot)
<1>2. r.state \in State /\ now \in Times BY BlankTyped DEF AuthTypeOK, File
<1>3. Strange(fresh, r.state)
  BY AuthAssumption DEF Strange, Unused, NoFile, Blank
<1>4. /\ d \in Decision /\ d.before = r.state /\ d.boot = boot /\ Resolved(d.state)
      /\ d.changed <=> d.state # d.before
      /\ d.minted => d.state.token = fresh
      /\ Generates(d) \/ Stamps(d) \/ Rotates(d) \/ Stays(d)
  BY <1>2, <1>3, DecidedFits DEF l
<1>5. /\ Read(r) /\ sound' = (sound /\ r = file) /\ UNCHANGED <<now, writable, file, had, outages, edits, quits>>
      /\ d.changed => work' = d /\ pc' = "save" /\ UNCHANGED <<entries, due, kept, promise>>
      /\ ~d.changed => Returns(d) /\ promise' = Promised(d)
  BY <1>1 DEF disk
<1> HIDE DEF d
<1>6. Sensible(d) BY <1>3, <1>4 DEF Sensible
<1>7. ASSUME d.state = d.before PROVE Stays(d) /\ UNCHANGED promise
  <2>1. now # Never BY <1>2, AuthAssumption DEF Times, Never
  <2>2. Stays(d) BY <1>3, <1>4, <1>7, <2>1 DEF Generates, Stamps, Rotates, Strange
  <2>3. promise' = Promised(d) BY <1>4, <1>5, <1>7
  <2>4. \A t \in Tokens : Promised(d)[t] = promise[t] BY <2>2 DEF Stays, Promised
  <2> QED BY <2>2, <2>3, <2>4 DEF AuthTypeOK, Promised
<1> QED BY <1>1, <1>2, <1>4, <1>5, <1>6, <1>7 DEF ResolvesTo

\* A decision that was saved takes effect; one that was not may be undone.
LEMMA UndoneFits ==
    ASSUME AuthTypeOK, NEW d, Sensible(d)
    PROVE  /\ Undone(d) \in Decision /\ Resolved(Undone(d).state)
           /\ Undone(d).before = d.before /\ Undone(d).boot = d.boot
           /\ \/ Rotates(d) /\ Undone(d).state = d.before /\ ~Undone(d).minted /\ ~Undone(d).rotated
              \/ ~d.rotated /\ Undone(d) = d
<1>1. d.before \in State /\ d.rotated \in BOOLEAN BY DEF Sensible, Decision
<1>2. CASE d.rotated
  <2>1. Rotates(d) BY <1>2 DEF Sensible, Generates, Stamps, Stays
  <2>2. Resolved(d.before) BY <1>1, <2>1, StateFields DEF Resolved, Rotates
  <2>3. Undone(d) = [d EXCEPT !.state = d.before, !.minted = FALSE, !.rotated = FALSE] BY <1>2 DEF Undone
  <2>4. d \in Decision BY DEF Sensible
  <2>5. /\ Undone(d) \in Decision /\ Undone(d).state = d.before /\ Undone(d).before = d.before
        /\ Undone(d).boot = d.boot /\ ~Undone(d).minted /\ ~Undone(d).rotated
    BY <1>1, <2>3, <2>4 DEF Decision
  <2> QED BY <2>1, <2>2, <2>5
<1>3. CASE ~d.rotated BY <1>3 DEF Undone, Sensible
<1> QED BY <1>2, <1>3

\* What is announced keeps its shape.
LEMMA PromisedTyped == ASSUME AuthTypeOK, NEW d PROVE Promised(d) \in [Tokens -> Ends]
<1>1. now + TTL \in Ends BY AuthAssumption DEF AuthTypeOK, Times, Ends, Never
<1>2. \A t \in Tokens : Larger(now + Grace, promise[t]) \in Ends
  BY AuthAssumption DEF AuthTypeOK, Times, Ends, Never, Larger
<1> QED BY <1>1, <1>2 DEF Promised, AuthTypeOK

LEMMA ReadTyped ==
    ASSUME AuthTypeOK, NEW r \in {file, NoFile}, Read(r)
    PROVE  reads' \in 0 .. MaxReads /\ reads' >= reads /\ r \in File /\ (r = file \/ reads' >= 1)
<1>1. r \in File BY BlankTyped DEF AuthTypeOK
<1> QED BY <1>1, AuthAssumption DEF AuthTypeOK, Read

\* The effect of a decision on the process.
LEMMA ReturnsTyped ==
    ASSUME AuthTypeOK, NEW d, d \in Decision, Resolved(d.state), Returns(d)
    PROVE  /\ entries' \subseteq Entry /\ pc' \in {"idle", "recheck"} /\ due' \in 0 .. MaxTime + Interval
           /\ work' = d /\ kept' \in BOOLEAN
           /\ pc' = "idle" /\ d.boot => due' = now /\ entries' = EntriesOf(d.state)
           /\ pc' = "idle" /\ ~d.boot => due' = due /\ had /\ entries' = Replaced(EntriesOf(d.state))
           /\ pc' = "recheck" => due' = due /\ ~d.boot /\ ~had /\ entries' = entries
<1>1. d.state \in State BY DEF Decision
<1>2. EntriesOf(d.state) \subseteq Entry BY <1>1, EntriesTyped
<1>3. Replaced(EntriesOf(d.state)) \subseteq Entry BY <1>2 DEF Replaced, AuthTypeOK
<1>4. now \in 0 .. MaxTime + Interval BY AuthAssumption DEF AuthTypeOK, Times
<1> HIDE DEF EntriesOf, Replaced
<1> QED BY <1>2, <1>3, <1>4 DEF Returns, AuthTypeOK

\* A decision waits for its save, whatever the operator does to the file.
LEMMA SensibleWaits ==
    ASSUME NEW d, Sensible(d), work' = d, UNCHANGED <<now, entries, promise>>,
           file'.state \in {file.state, Blank}
    PROVE  Sensible(work)'
<1>1. \A t \in Tokens : t \notin {Blank.token, Blank.previous} BY AuthAssumption DEF Blank
<1>2. \A t : Strange(t, d.before) => t \in Tokens /\ t \notin Named(entries)' /\ promise'[t] < now'
        /\ t \notin {file'.state.token, file'.state.previous} /\ t \notin {d.before.token, d.before.previous}
  BY <1>1 DEF Strange, Unused, Named
<1>3. d.minted => Strange(work.state.token, work.before)' BY <1>2 DEF Sensible, Strange, Unused
<1>4. Generates(d) => Generates(work)' BY DEF Generates
<1>5. Stamps(d) => Stamps(work)' BY DEF Stamps, Drops
<1>6. Rotates(d) => Rotates(work)' BY DEF Rotates, Lookahead
<1>7. Stays(d) => Stays(work)' BY DEF Stays, Drops, Lookahead
<1> QED BY <1>3, <1>4, <1>5, <1>6, <1>7 DEF Sensible, Resolved

LEMMA InitTokens == AuthInit => TokenInv
<1> SUFFICES ASSUME AuthInit PROVE TokenInv OBVIOUS
<1> USE AuthAssumption
<1>1. NoDecision \in Decision BY BlankTyped DEF NoDecision, Decision
<1>2. file \in File
  <2>1. PICK t \in Tokens : file \in {NoFile, [state |-> [Blank EXCEPT !.token = t], operator |-> TRUE]} BY DEF AuthInit
  <2>2. [Blank EXCEPT !.token = t] \in State BY BlankTyped DEF State
  <2>3. [state |-> [Blank EXCEPT !.token = t], operator |-> TRUE] \in File BY <2>2 DEF File
  <2> QED BY <2>1, <2>3, BlankTyped
<1>3. /\ 0 \in Times /\ 0 \in 0 .. MaxTime + Interval
      /\ 0 \in 0 .. MaxOutages /\ 0 \in 0 .. MaxReads /\ 0 \in 0 .. MaxEdits /\ 0 \in 0 .. MaxQuits
  BY DEF Times
<1>5. promise \in [Tokens -> Ends]
  <2>1. Never \in Ends BY DEF Ends, Never
  <2> QED BY <2>1 DEF AuthInit
<1>4. AuthTypeOK BY <1>1, <1>2, <1>3, <1>5 DEF AuthInit, AuthTypeOK, Places
<1> QED BY <1>4 DEF AuthInit, TokenInv, Busy, Ticking, Starting

\* Start-up and a tick resolve what the file holds.
LEMMA ResolvesTokens ==
    ASSUME TokenInv, NEW d, NEW boot \in BOOLEAN, NEW r \in {file, NoFile}, ResolvesTo(d, r, boot),
           IF boot THEN pc = "down" ELSE pc = "had"
    PROVE  TokenInv'
<1> USE DEF TokenInv
<1>1. d \in Decision /\ Resolved(d.state) /\ d.boot = boot BY DEF ResolvesTo, Sensible
<1>2. UNCHANGED <<now, writable, file, had, outages, edits, quits>> BY DEF ResolvesTo
<1>3. reads' \in 0 .. MaxReads /\ sound' \in BOOLEAN BY ReadTyped DEF ResolvesTo, AuthTypeOK
<1>4. CASE work' = d /\ pc' = "save" /\ UNCHANGED <<entries, due, kept, promise>>
  <2>1. AuthTypeOK' BY <1>1, <1>2, <1>3, <1>4 DEF AuthTypeOK, Places
  <2>2. Sensible(work)' BY <1>2, <1>4, SensibleWaits DEF ResolvesTo
  <2>3. (Ticking => due = now + Interval)' BY <1>1, <1>2, <1>4 DEF Ticking, Busy
  <2>4. (Starting => entries = {})' BY <1>1, <1>4 DEF Starting, Busy
  <2> QED BY <1>4, <2>1, <2>2, <2>3, <2>4 DEF Busy
<1>5. CASE Returns(d) /\ UNCHANGED promise
  <2>1. /\ entries' \subseteq Entry /\ pc' \in {"idle", "recheck"} /\ due' \in 0 .. MaxTime + Interval
        /\ work' = d /\ kept' \in BOOLEAN
        /\ pc' = "idle" /\ d.boot => due' = now
        /\ pc' = "idle" /\ ~d.boot => due' = due
        /\ pc' = "recheck" => due' = due /\ ~d.boot /\ ~had
    BY <1>1, <1>5, ReturnsTyped
  <2>2. AuthTypeOK' BY <1>1, <1>2, <1>3, <1>5, <2>1 DEF AuthTypeOK, Places
  <2>3. Ticking' => ~boot /\ pc' = "recheck" BY <1>1, <2>1 DEF Ticking, Busy
  <2>4. ~boot => due = now + Interval BY DEF Ticking
  <2>5. ~Starting' /\ ~Busy' BY <2>1 DEF Starting, Busy
  <2>6. now <= now + Interval /\ now <= now BY AuthAssumption DEF AuthTypeOK, Times
  <2> QED BY <1>1, <1>2, <2>1, <2>2, <2>3, <2>4, <2>5, <2>6 DEF Resolved
<1> QED BY <1>4, <1>5 DEF ResolvesTo

\* A save is over, one way or the other.
LEMMA ReturnsTokens ==
    ASSUME TokenInv, NEW d, Busy, d \in Decision, Resolved(d.state), d.boot = work.boot, Returns(d),
           UNCHANGED <<now, writable, had, sound, outages, reads, edits, quits>>, file' \in File,
           promise' \in [Tokens -> Ends]
    PROVE  TokenInv'
<1> USE DEF TokenInv
<1>1. /\ entries' \subseteq Entry /\ pc' \in {"idle", "recheck"} /\ due' \in 0 .. MaxTime + Interval
      /\ work' = d /\ kept' \in BOOLEAN
      /\ pc' = "idle" /\ d.boot => due' = now
      /\ pc' = "idle" /\ ~d.boot => due' = due
      /\ pc' = "recheck" => due' = due /\ ~d.boot /\ ~had
  BY ReturnsTyped
<1>2. AuthTypeOK' BY <1>1 DEF AuthTypeOK, Places
<1>3. ~d.boot => due = now + Interval BY DEF Ticking
<1>4. ~Starting' /\ ~Busy' /\ (Ticking' => pc' = "recheck") BY <1>1 DEF Starting, Busy, Ticking
<1>5. now <= now + Interval /\ now <= now BY AuthAssumption DEF AuthTypeOK, Times
<1> QED BY <1>1, <1>2, <1>3, <1>4, <1>5 DEF Resolved

LEMMA SavedTokens == ASSUME TokenInv, Saved PROVE TokenInv'
<1>1. /\ Busy /\ Sensible(work) /\ Returns(work) /\ file' = [state |-> work.state, operator |-> kept]
      /\ promise' = Promised(work) /\ UNCHANGED <<now, writable, had, sound, outages, reads, edits, quits>>
  BY DEF Saved, TokenInv, Busy, counts
<1>2. PICK d : d = work OBVIOUS
<1>3. d \in Decision /\ Resolved(d.state) /\ d.boot = work.boot BY <1>1, <1>2 DEF Sensible
<1>4. file' \in File BY <1>1, <1>2, <1>3 DEF File, Decision, TokenInv, AuthTypeOK
<1>5. promise' \in [Tokens -> Ends] BY <1>1, PromisedTyped DEF TokenInv
<1> QED BY <1>1, <1>2, <1>3, <1>4, <1>5, ReturnsTokens

LEMMA SaveFailsTokens == ASSUME TokenInv, SaveFails PROVE TokenInv'
<1>1. /\ Busy /\ Sensible(work) /\ Returns(Undone(work))
      /\ promise' = Promised(Undone(work)) \/ promise' = promise
      /\ UNCHANGED <<now, writable, file, had, sound, outages, reads, edits, quits>>
  BY DEF SaveFails, TokenInv, Busy, counts, disk
<1>2. PICK d : d = Undone(work) OBVIOUS
<1>3. d \in Decision /\ Resolved(d.state) /\ d.boot = work.boot BY <1>1, <1>2, UndoneFits DEF TokenInv
<1>4. promise' \in [Tokens -> Ends] BY <1>1, PromisedTyped DEF TokenInv, AuthTypeOK
<1>5. file' \in File BY <1>1 DEF TokenInv, AuthTypeOK
<1> QED BY <1>1, <1>2, <1>3, <1>4, <1>5, ReturnsTokens

LEMMA SaveReadTokens == ASSUME TokenInv, SaveRead PROVE TokenInv'
<1> USE DEF TokenInv
<1>1. /\ pc = "save" /\ pc' = "write"
      /\ UNCHANGED <<now, writable, file, entries, due, had, work, promise, outages, edits, quits>>
  BY DEF SaveRead, disk
<1>2. PICK r \in {file, NoFile} : Read(r) /\ kept' = Kept(r) /\ sound' = (sound /\ r = file) BY DEF SaveRead
<1>3. reads' \in 0 .. MaxReads /\ kept' \in BOOLEAN /\ sound' \in BOOLEAN
  BY <1>2, ReadTyped DEF Kept, File, AuthTypeOK
<1>4. AuthTypeOK' BY <1>1, <1>3 DEF AuthTypeOK, Places
<1>5. PICK d : d = work OBVIOUS
<1>6. Sensible(work)' BY <1>1, <1>5, SensibleWaits DEF Busy
<1> QED BY <1>1, <1>4, <1>6 DEF Busy, Ticking, Starting

LEMMA RotationTickTokens == ASSUME TokenInv, RotationTick PROVE TokenInv'
<1> USE DEF TokenInv
<1>1. /\ pc = "idle" /\ pc' = "had" /\ due' = now + Interval
      /\ UNCHANGED <<now, writable, file, entries, work, kept, promise, outages, edits, quits>>
  BY DEF RotationTick, disk
<1>2. PICK r \in {file, NoFile} :
        Read(r) /\ had' = (r.state.token # NoToken) /\ sound' = (writable /\ r = file)
  BY DEF RotationTick
<1>3. reads' \in 0 .. MaxReads /\ had' \in BOOLEAN /\ sound' \in BOOLEAN BY <1>2, ReadTyped
<1>4. due' \in 0 .. MaxTime + Interval BY <1>1, AuthAssumption DEF AuthTypeOK, Times
<1>5. AuthTypeOK' BY <1>1, <1>3, <1>4 DEF AuthTypeOK, Places
<1> QED BY <1>1, <1>5 DEF Busy, Ticking, Starting

LEMMA RecheckTokens == ASSUME TokenInv, Recheck PROVE TokenInv'
<1> USE DEF TokenInv
<1>1. /\ pc = "recheck" /\ pc' = "idle"
      /\ UNCHANGED <<now, writable, file, due, had, work, kept, outages, edits, quits>>
  BY DEF Recheck, disk
<1>2. PICK r \in {file, NoFile} :
        /\ Read(r) /\ sound' = (sound /\ r = file)
        /\ \/ /\ entries' = Adopted(EntriesOf(work.state))
              /\ promise' = [t \in Tokens |->
                    IF t \in Named(EntriesOf(work.state)) THEN promise[t] ELSE Smaller(promise[t], now + Grace)]
           \/ UNCHANGED <<entries, promise>>
  BY DEF Recheck
<1>3. reads' \in 0 .. MaxReads /\ sound' \in BOOLEAN BY <1>2, ReadTyped DEF AuthTypeOK
<1>4. \A a \in Ends : Smaller(a, now + Grace) \in Ends
  BY AuthAssumption DEF AuthTypeOK, Times, Ends, Never, Smaller
<1>5. promise' \in [Tokens -> Ends]
  <2> HIDE DEF Named, EntriesOf
  <2> QED BY <1>2, <1>4 DEF AuthTypeOK
<1>6. entries' \subseteq Entry
  <2>1. EntriesOf(work.state) \subseteq Entry BY <1>1, EntriesTyped DEF AuthTypeOK, Decision
  <2>2. \A e \in entries : [e EXCEPT !.expires = Smaller(e.expires, now + Grace), !.graced = TRUE] \in Entry
    BY <1>4 DEF AuthTypeOK, Entry
  <2>3. Adopted(EntriesOf(work.state)) \subseteq Entry BY <2>1, <2>2 DEF Adopted
  <2> QED BY <1>2, <2>3 DEF AuthTypeOK
<1>7. AuthTypeOK' BY <1>1, <1>3, <1>5, <1>6 DEF AuthTypeOK, Places
<1>8. now' <= due' BY <1>1, AuthAssumption DEF Ticking, AuthTypeOK, Times
<1> QED BY <1>1, <1>7, <1>8 DEF Busy, Ticking, Starting

\* The surroundings.
LEMMA SurroundingsTokens ==
    ASSUME TokenInv, TimePasses \/ DirectoryBreaks \/ DirectoryRepaired \/ OperatorEdits \/ Quit
    PROVE  TokenInv'
<1> USE AuthAssumption DEF TokenInv
<1>1. CASE TimePasses
  <2>1. /\ now < MaxTime /\ now' = now + 1 /\ (pc = "down" \/ (pc = "idle" /\ now < due))
        /\ UNCHANGED <<writable, file, entries, pc, due, had, work, kept, promise, sound, outages, reads, edits, quits>>
    BY <1>1 DEF TimePasses, disk, counts
  <2>2. AuthTypeOK' BY <2>1 DEF AuthTypeOK, Times
  <2>3. pc' = "idle" => now' <= due' BY <2>1 DEF AuthTypeOK, Times
  <2> QED BY <2>1, <2>2, <2>3 DEF Busy, Ticking, Starting
<1>2. CASE DirectoryBreaks \/ DirectoryRepaired \/ OperatorEdits
  <2>1. /\ UNCHANGED <<now, entries, pc, due, had, work, kept, promise, reads, quits>>
        /\ writable' \in {writable, TRUE, FALSE} /\ sound' \in {sound, FALSE}
        /\ outages' = outages \/ (outages < MaxOutages /\ outages' = outages + 1)
        /\ edits' = edits \/ (edits < MaxEdits /\ edits' = edits + 1)
    BY <1>2 DEF DirectoryBreaks, DirectoryRepaired, OperatorEdits, counts
  <2>6. writable' \in BOOLEAN /\ sound' \in BOOLEAN
    <3>1. writable \in BOOLEAN /\ sound \in BOOLEAN BY DEF AuthTypeOK
    <3> QED BY <2>1, <3>1
  <2>7. outages' \in 0 .. MaxOutages /\ edits' \in 0 .. MaxEdits
    <3>1. outages \in 0 .. MaxOutages /\ edits \in 0 .. MaxEdits BY DEF AuthTypeOK
    <3> QED BY <2>1, <3>1
  <2>2. file' \in File /\ file'.state \in {file.state, Blank}
    <3>1. file' \in {file, NoFile, [file EXCEPT !.operator = TRUE]}
      BY <1>2 DEF DirectoryBreaks, DirectoryRepaired, OperatorEdits
    <3>2. file \in File /\ NoFile.state = Blank BY DEF AuthTypeOK, NoFile
    <3>3. [file EXCEPT !.operator = TRUE] \in File /\ [file EXCEPT !.operator = TRUE].state = file.state
      BY <3>2 DEF File
    <3> QED BY <3>1, <3>2, <3>3, BlankTyped
  <2>3. AuthTypeOK' BY <2>1, <2>2, <2>6, <2>7 DEF AuthTypeOK
  <2>4. PICK d : d = work OBVIOUS
  <2>5. Busy => Sensible(work)' BY <2>1, <2>2, <2>4, SensibleWaits
  <2> QED BY <2>1, <2>3, <2>5 DEF Busy, Ticking, Starting
<1>3. CASE Quit
  <2>1. /\ pc' = "down" /\ entries' = {} /\ due' = 0 /\ had' = FALSE /\ work' = NoDecision /\ kept' = FALSE
        /\ quits' \in 0 .. MaxQuits /\ sound' \in BOOLEAN
        /\ UNCHANGED <<now, writable, file, outages, reads, edits>>
    BY <1>3 DEF Quit, disk, AuthTypeOK
  <2>5. 0 \in 0 .. MaxTime + Interval OBVIOUS
  <2>2. NoDecision \in Decision BY BlankTyped DEF NoDecision, Decision
  <2>3. promise' \in [Tokens -> Ends] BY <1>3 DEF Quit, AuthTypeOK, Ends, Never
  <2>4. AuthTypeOK' BY <2>1, <2>2, <2>3, <2>5 DEF AuthTypeOK, Places
  <2> QED BY <2>1, <2>4 DEF Busy, Ticking, Starting
<1> QED BY <1>1, <1>2, <1>3

LEMMA StepResolves ==
    ASSUME TokenInv, Boot \/ TickResolves
    PROVE  \E d, r, boot : /\ boot \in BOOLEAN /\ r \in {file, NoFile} /\ ResolvesTo(d, r, boot)
                           /\ IF boot THEN pc = "down" ELSE pc = "had"
<1>1. CASE Boot
  <2>1. Resolves(IF TRUE THEN 0 ELSE Interval, TRUE) /\ pc = "down" BY <1>1 DEF Boot
  <2> QED BY <2>1, ResolvesDecides DEF TokenInv
<1>2. CASE TickResolves
  <2>1. Resolves(IF FALSE THEN 0 ELSE Interval, FALSE) /\ pc = "had" BY <1>2 DEF TickResolves
  <2> QED BY <2>1, ResolvesDecides DEF TokenInv
<1> QED BY <1>1, <1>2

LEMMA NextTokens == TokenInv /\ [AuthNext]_authVars => TokenInv'
<1> SUFFICES ASSUME TokenInv, [AuthNext]_authVars PROVE TokenInv' OBVIOUS
<1>1. ASSUME Boot \/ TickResolves PROVE TokenInv' BY <1>1, StepResolves, ResolvesTokens
<1>2. CASE AuthNext
  BY <1>1, <1>2, SavedTokens, SaveFailsTokens, SaveReadTokens, RotationTickTokens, RecheckTokens, SurroundingsTokens
  DEF AuthNext
<1>3. CASE UNCHANGED authVars
  <2>1. UNCHANGED <<now, writable, file, entries, pc, due, had, work, kept, promise, sound, outages, reads, edits, quits>>
    BY <1>3 DEF authVars, disk, counts
  <2>2. PICK d : d = work OBVIOUS
  <2>3. Busy => Sensible(work)' BY <2>1, <2>2, SensibleWaits DEF TokenInv
  <2>4. AuthTypeOK' BY <2>1 DEF TokenInv, AuthTypeOK
  <2> QED BY <2>1, <2>3, <2>4 DEF TokenInv, Busy, Ticking, Starting, Resolved
<1> QED BY <1>2, <1>3

\* The inductive invariant of the tokens.
THEOREM SpecTokens == AuthSpec => []TokenInv
BY InitTokens, NextTokens, PTL DEF AuthSpec

\* The types of the model: the file, the accepted tokens and the decision
\* under way keep their shape through failed reads, failed saves and restarts.
THEOREM TokenTypes == AuthSpec => []AuthTypeOK
<1>1. TokenInv => AuthTypeOK BY DEF TokenInv
<1> QED BY <1>1, SpecTokens, PTL

-----------------------------------------------------------------------------
(* The token in the file.  While nothing outside has gone wrong, what a     *)
(* check decides is what the file holds, and what it lets in lasts until    *)
(* the next check.                                                          *)

FileInv ==
    /\ sound => writable
    /\ sound /\ pc = "had" => (had <=> file.state.token # NoToken)
    /\ sound /\ Busy => work.before = file.state
    /\ sound /\ pc = "recheck" => file.state = work.state /\ work.state.issued + TTL >= due
    /\ sound /\ pc = "idle" => \E e \in entries : e.token = file.state.token /\ e.expires >= due

\* A decision lasts until the next check.
LEMMA DecisionLasts ==
    ASSUME AuthTypeOK, Interval <= TTL, NEW d, Sensible(d)
    PROVE  d.state.issued + TTL >= now + Lookahead(d)
<1> USE AuthAssumption
<1>1. now \in Nat /\ Lookahead(d) \in Nat /\ Lookahead(d) <= TTL BY DEF AuthTypeOK, Times, Lookahead
<1>2. d.state.issued \in Nat BY DEF Sensible, Resolved, Times
<1>3. d.state.issued = now \/ (d.state.issued = d.before.issued /\ now + Lookahead(d) < d.before.issued + TTL)
  BY DEF Sensible, Generates, Stamps, Rotates, Stays
<1> QED BY <1>1, <1>2, <1>3

\* It lets its token in, unless the tick looks at the file once more.
LEMMA ReturnsLets ==
    ASSUME NEW d, Returns(d)
    PROVE  pc' = "idle" => [token |-> d.state.token, expires |-> d.state.issued + TTL, graced |-> FALSE] \in entries'
BY DEF Returns, Replaced, EntriesOf

LEMMA ReturnsFile ==
    ASSUME TokenInv, Interval <= TTL, NEW d, Sensible(d), Returns(d), file'.state = d.state,
           ~d.boot => due = now + Interval
    PROVE  /\ pc' \in {"idle", "recheck"}
           /\ pc' = "recheck" => file'.state = work'.state /\ work'.state.issued + TTL >= due'
           /\ pc' = "idle" => \E e \in entries' : e.token = file'.state.token /\ e.expires >= due'
<1>1. d \in Decision /\ Resolved(d.state) /\ AuthTypeOK BY DEF Sensible, TokenInv
<1>2. /\ pc' \in {"idle", "recheck"} /\ work' = d
      /\ pc' = "idle" /\ d.boot => due' = now
      /\ pc' = "idle" /\ ~d.boot => due' = due
      /\ pc' = "recheck" => due' = due /\ ~d.boot
  BY <1>1, ReturnsTyped
<1>3. d.boot \in BOOLEAN /\ now \in Nat /\ Interval \in Nat BY <1>1, AuthAssumption DEF Decision, AuthTypeOK, Times
<1>4. due' = now + Lookahead(d) BY <1>2, <1>3 DEF Lookahead
<1>5. d.state.issued + TTL >= due' BY <1>1, <1>4, DecisionLasts
<1> DEFINE own == [token |-> d.state.token, expires |-> d.state.issued + TTL, graced |-> FALSE]
<1>6. pc' = "idle" => own \in entries' BY ReturnsLets
<1>7. own.token = file'.state.token /\ own.expires >= due' BY <1>5
<1> QED BY <1>2, <1>5, <1>6, <1>7

LEMMA InitFile == AuthInit => FileInv
BY DEF AuthInit, FileInv, Busy

LEMMA ResolvesFile ==
    ASSUME TokenInv, FileInv, Interval <= TTL, NEW d, NEW boot \in BOOLEAN, NEW r \in {file, NoFile},
           ResolvesTo(d, r, boot), IF boot THEN pc = "down" ELSE pc = "had"
    PROVE  FileInv'
<1>1. Sensible(d) /\ d.before = r.state /\ d.boot = boot /\ sound' = (sound /\ r = file)
      /\ UNCHANGED <<now, writable, file, had>>
  BY DEF ResolvesTo
<1>2. sound' => writable' BY <1>1 DEF FileInv
<1>3. CASE work' = d /\ pc' = "save" BY <1>1, <1>2, <1>3 DEF FileInv, Busy
<1>4. CASE d.state = d.before /\ Returns(d)
  <2>1. ~d.boot => due = now + Interval BY <1>1 DEF TokenInv, Ticking
  <2>2. ASSUME sound'
        PROVE  /\ pc' \in {"idle", "recheck"}
               /\ pc' = "recheck" => file'.state = work'.state /\ work'.state.issued + TTL >= due'
               /\ pc' = "idle" => \E e \in entries' : e.token = file'.state.token /\ e.expires >= due'
    <3>1. file'.state = d.state BY <1>1, <1>4, <2>2
    <3> QED BY <1>1, <1>4, <2>1, <3>1, ReturnsFile
  <2> QED BY <1>2, <2>2 DEF FileInv, Busy
<1> QED BY <1>3, <1>4 DEF ResolvesTo

LEMMA SavedFile == ASSUME TokenInv, FileInv, Interval <= TTL, Saved PROVE FileInv'
<1>1. /\ Busy /\ Sensible(work) /\ Returns(work) /\ file' = [state |-> work.state, operator |-> kept]
      /\ UNCHANGED <<now, writable, sound>>
  BY DEF Saved, TokenInv, Busy
<1>2. PICK d : d = work OBVIOUS
<1>3. ~d.boot => due = now + Interval BY <1>1, <1>2 DEF TokenInv, Ticking
<1>4. file'.state = d.state BY <1>1, <1>2
<1>5. /\ pc' \in {"idle", "recheck"}
      /\ pc' = "recheck" => file'.state = work'.state /\ work'.state.issued + TTL >= due'
      /\ pc' = "idle" => \E e \in entries' : e.token = file'.state.token /\ e.expires >= due'
  BY <1>1, <1>2, <1>3, <1>4, ReturnsFile
<1>6. sound' => writable' BY <1>1 DEF FileInv
<1> QED BY <1>5, <1>6 DEF FileInv, Busy

LEMMA RecheckFile == ASSUME TokenInv, FileInv, Recheck PROVE FileInv'
<1>1. pc = "recheck" /\ pc' = "idle" /\ UNCHANGED <<writable, file, due, work>> BY DEF Recheck, disk
<1>2. PICK r \in {file, NoFile} :
        /\ sound' = (sound /\ r = file)
        /\ r.state.token # NoToken => entries' = Adopted(EntriesOf(work.state))
  BY DEF Recheck
<1>3. ASSUME sound' PROVE \E e \in entries' : e.token = file'.state.token /\ e.expires >= due'
  <2>1. file.state = work.state /\ work.state.issued + TTL >= due /\ r = file BY <1>1, <1>2, <1>3 DEF FileInv
  <2>2. work.state.token # NoToken BY <1>1, AuthAssumption DEF TokenInv, Resolved
  <2>3. [token |-> work.state.token, expires |-> work.state.issued + TTL, graced |-> FALSE] \in entries'
    BY <1>2, <2>1, <2>2 DEF Adopted, EntriesOf
  <2> QED BY <1>1, <2>1, <2>3
<1>4. sound' => writable' BY <1>1, <1>2 DEF FileInv
<1> QED BY <1>1, <1>3, <1>4 DEF FileInv, Busy

LEMMA OthersFile ==
    ASSUME TokenInv, FileInv,
           \/ SaveFails \/ SaveRead \/ RotationTick
           \/ TimePasses \/ DirectoryBreaks \/ DirectoryRepaired \/ OperatorEdits \/ Quit
    PROVE  FileInv'
<1>1. CASE SaveFails
  <2>1. ~sound' /\ pc' \in {"idle", "recheck"} BY <1>1 DEF SaveFails, FileInv, Returns
  <2> QED BY <2>1 DEF FileInv
<1>2. CASE SaveRead
  <2>1. pc = "save" /\ pc' = "write" /\ UNCHANGED <<writable, file, work>> /\ (sound' => sound)
    BY <1>2 DEF SaveRead, disk
  <2> QED BY <2>1 DEF FileInv, Busy
<1>3. CASE RotationTick
  <2>1. PICK r \in {file, NoFile} : had' = (r.state.token # NoToken) /\ sound' = (writable /\ r = file)
    BY <1>3 DEF RotationTick
  <2>2. pc' = "had" /\ UNCHANGED <<writable, file>> BY <1>3 DEF RotationTick, disk
  <2> QED BY <2>1, <2>2 DEF FileInv, Busy
<1>4. CASE TimePasses
  <2>1. UNCHANGED <<writable, file, entries, pc, due, had, work, sound>> BY <1>4 DEF TimePasses, disk
  <2> QED BY <2>1 DEF FileInv, Busy
<1>5. CASE DirectoryBreaks \/ OperatorEdits
  <2>1. ~sound' BY <1>5 DEF DirectoryBreaks, OperatorEdits
  <2> QED BY <2>1 DEF FileInv
<1>6. CASE DirectoryRepaired
  <2>1. writable' /\ UNCHANGED <<file, entries, pc, due, had, work, sound>> BY <1>6 DEF DirectoryRepaired
  <2> QED BY <2>1 DEF FileInv, Busy
<1>7. CASE Quit BY <1>7 DEF Quit, disk, FileInv, Busy
<1> QED BY <1>1, <1>2, <1>3, <1>4, <1>5, <1>6, <1>7

LEMMA NextFile == Interval <= TTL /\ TokenInv /\ FileInv /\ [AuthNext]_authVars => FileInv'
<1> SUFFICES ASSUME Interval <= TTL, TokenInv, FileInv, [AuthNext]_authVars PROVE FileInv' OBVIOUS
<1>1. ASSUME Boot \/ TickResolves PROVE FileInv' BY <1>1, StepResolves, ResolvesFile
<1>2. CASE AuthNext BY <1>1, <1>2, SavedFile, RecheckFile, OthersFile DEF AuthNext
<1>3. CASE UNCHANGED authVars BY <1>3 DEF authVars, disk, FileInv, Busy
<1> QED BY <1>2, <1>3

\* A client that reads its token from the file gets in whenever the data
\* directory works: the rotation comes before the hard expiry, the look ahead
\* bridges the time to the next check, and no restart, outage or deletion of
\* the file leaves a gap behind once a check has succeeded.  It needs a
\* lifetime of at least one interval, which config.ts does not demand.
THEOREM FileTokenAccepted == Interval <= TTL => (AuthSpec => []FileTokenWorks)
<1> SUFFICES ASSUME Interval <= TTL PROVE AuthSpec => []FileTokenWorks OBVIOUS
<1>1. TokenInv /\ FileInv => FileTokenWorks
  <2> SUFFICES ASSUME TokenInv, FileInv, pc = "idle", sound PROVE Accepted(file.state.token) BY DEF FileTokenWorks
  <2>1. PICK e \in entries : e.token = file.state.token /\ e.expires >= due BY DEF FileInv
  <2>2. e.expires \in Int /\ now \in Int /\ due \in Int /\ now <= due
    BY AuthAssumption DEF TokenInv, AuthTypeOK, Entry, Ends, Times, Never
  <2> QED BY <2>1, <2>2 DEF Accepted, Live
<1>2. TokenInv /\ FileInv /\ [AuthNext]_authVars => FileInv' BY NextFile
<1> QED BY <1>1, <1>2, SpecTokens, InitFile, PTL DEF AuthSpec

-----------------------------------------------------------------------------
(* As long as every read of the file tells the truth, a decision is made    *)
(* from the file; as long as the data directory works, every write succeeds.*)

RealInv ==
    /\ pc = "had" => (had <=> file.state.token # NoToken)
    /\ Busy => work.before = file.state /\ (~work.boot => (had <=> file.state.token # NoToken))
    /\ pc = "recheck" => file.state.token = NoToken \/ file.state = work.state

TrueReads == Undisturbed => RealInv

LEMMA ReadsGrow ==
    ASSUME AuthTypeOK, AuthNext
    PROVE  reads' >= reads
<1>1. reads \in Nat BY AuthAssumption DEF AuthTypeOK
<1>2. ASSUME NEW r, Read(r) PROVE reads' >= reads BY <1>1, <1>2 DEF Read
<1>3. ASSUME Boot \/ TickResolves \/ SaveRead \/ RotationTick \/ Recheck PROVE reads' >= reads
  BY <1>2, <1>3 DEF Boot, TickResolves, Resolves, SaveRead, RotationTick, Recheck
<1>4. ASSUME \/ Saved \/ SaveFails \/ TimePasses \/ DirectoryBreaks \/ DirectoryRepaired
             \/ OperatorEdits \/ Quit
      PROVE  reads' = reads
  BY <1>4 DEF Saved, SaveFails, TimePasses, DirectoryBreaks, DirectoryRepaired, OperatorEdits, Quit, counts
<1> QED BY <1>1, <1>3, <1>4 DEF AuthNext

LEMMA ResolvesReal ==
    ASSUME TokenInv, RealInv, reads' = 0, NEW d, NEW boot \in BOOLEAN, NEW r \in {file, NoFile},
           ResolvesTo(d, r, boot), IF boot THEN pc = "down" ELSE pc = "had"
    PROVE  RealInv' /\ r = file
<1>1. /\ d.before = r.state /\ d.boot = boot /\ UNCHANGED <<file, had>> /\ Read(r) /\ reads \in Nat
  BY AuthAssumption DEF ResolvesTo, TokenInv, AuthTypeOK
<1>2. r = file BY <1>1 DEF Read
<1>3. CASE work' = d /\ pc' = "save" BY <1>1, <1>2, <1>3 DEF RealInv, Busy
<1>4. CASE d.state = d.before /\ Returns(d) BY <1>1, <1>2, <1>4 DEF RealInv, Busy, Returns
<1> QED BY <1>2, <1>3, <1>4 DEF ResolvesTo

LEMMA OthersReal ==
    ASSUME TokenInv, RealInv, reads' = 0, edits' = 0,
           \/ SaveRead \/ Saved \/ SaveFails \/ RotationTick \/ Recheck
           \/ TimePasses \/ DirectoryBreaks \/ DirectoryRepaired \/ OperatorEdits \/ Quit
    PROVE  RealInv'
<1>1. CASE SaveRead
  <2>1. pc = "save" /\ pc' = "write" /\ UNCHANGED <<file, had, work>> BY <1>1 DEF SaveRead, disk
  <2> QED BY <2>1 DEF RealInv, Busy
<1>2. CASE Saved BY <1>2 DEF Saved, Returns, RealInv, Busy
<1>3. CASE SaveFails
  <2>1. pc' \in {"idle", "recheck"} /\ (pc' = "recheck" => ~work.boot /\ ~had) /\ file' = file
    BY <1>3, UndoneFits DEF SaveFails, Returns, disk, TokenInv, Busy
  <2>2. pc' = "recheck" => file.state.token = NoToken BY <1>3, <2>1 DEF SaveFails, RealInv, Busy
  <2> QED BY <2>1, <2>2 DEF RealInv, Busy
<1>4. CASE RotationTick
  <2>1. PICK r \in {file, NoFile} : Read(r) /\ had' = (r.state.token # NoToken) BY <1>4 DEF RotationTick
  <2>2. reads \in Nat BY AuthAssumption DEF TokenInv, AuthTypeOK
  <2>3. r = file BY <2>1, <2>2 DEF Read
  <2>4. pc' = "had" /\ UNCHANGED file BY <1>4 DEF RotationTick, disk
  <2> QED BY <2>1, <2>3, <2>4 DEF RealInv, Busy
<1>5. CASE Recheck BY <1>5 DEF Recheck, RealInv, Busy
<1>6. CASE TimePasses \/ DirectoryBreaks \/ DirectoryRepaired
  <2>1. UNCHANGED <<file, pc, had, work>> BY <1>6 DEF TimePasses, DirectoryBreaks, DirectoryRepaired, disk
  <2> QED BY <2>1 DEF RealInv, Busy
<1>7. CASE OperatorEdits
  <2>1. edits \in Nat BY AuthAssumption DEF TokenInv, AuthTypeOK
  <2> QED BY <1>7, <2>1 DEF OperatorEdits
<1>8. CASE Quit BY <1>8 DEF Quit, RealInv, Busy
<1> QED BY <1>1, <1>2, <1>3, <1>4, <1>5, <1>6, <1>7, <1>8

\* What went undisturbed to here was undisturbed before.
LEMMA StaysUndisturbed == ASSUME TokenInv, AuthNext, Undisturbed' PROVE Undisturbed
<1>1. reads \in Nat /\ edits \in Nat BY AuthAssumption DEF TokenInv, AuthTypeOK
<1>2. reads' >= reads BY ReadsGrow DEF TokenInv
<1>3. edits' = edits \/ edits' = edits + 1
  BY DEF AuthNext, Boot, TickResolves, Resolves, SaveRead, RotationTick, Recheck, Saved, SaveFails, TimePasses,
         DirectoryBreaks, DirectoryRepaired, OperatorEdits, Quit, counts
<1> QED BY <1>1, <1>2, <1>3 DEF Undisturbed

LEMMA InitReal == AuthInit => TrueReads
BY DEF AuthInit, TrueReads, RealInv, Busy

LEMMA NextReal == TokenInv /\ TrueReads /\ [AuthNext]_authVars => TrueReads'
<1> SUFFICES ASSUME TokenInv, TrueReads, [AuthNext]_authVars, Undisturbed' PROVE RealInv' BY DEF TrueReads
<1>1. CASE AuthNext
  <2>1. RealInv /\ reads' = 0 /\ edits' = 0 BY <1>1, StaysUndisturbed DEF TrueReads, Undisturbed
  <2>2. ASSUME Boot \/ TickResolves PROVE RealInv' BY <2>1, <2>2, StepResolves, ResolvesReal
  <2> QED BY <1>1, <2>1, <2>2, OthersReal DEF AuthNext
<1>2. CASE UNCHANGED authVars
  <2>1. UNCHANGED <<file, pc, had, work, reads, edits>> BY <1>2 DEF authVars, disk, counts
  <2> QED BY <2>1 DEF TrueReads, RealInv, Busy, Undisturbed
<1> QED BY <1>1, <1>2

\* Without an outage the data directory can be written.
Works == outages = 0 => writable

LEMMA OutagesGrow ==
    ASSUME TokenInv, Works, [AuthNext]_authVars, outages' = 0
    PROVE  outages = 0 /\ writable'
<1>1. outages \in Nat BY AuthAssumption DEF TokenInv, AuthTypeOK
<1>2. \/ UNCHANGED <<writable, outages>>
      \/ outages' = outages + 1
      \/ writable' /\ UNCHANGED outages
  BY DEF AuthNext, Boot, TickResolves, Resolves, SaveRead, RotationTick, Recheck, Saved, SaveFails, TimePasses,
         DirectoryBreaks, DirectoryRepaired, OperatorEdits, Quit, counts, disk, authVars
<1> QED BY <1>1, <1>2 DEF Works

LEMMA WorksKept == TokenInv /\ Works /\ [AuthNext]_authVars => Works'
BY OutagesGrow DEF Works

-----------------------------------------------------------------------------
(* What is announced bounds what is accepted.  A state is honest when its   *)
(* tokens have been announced for as long as it says; a token without an    *)
(* age may be announced for one lifetime more.                              *)

Backed(s, until) ==
    /\ s.issued + TTL <= until[s.token]
    /\ s.previous # NoToken => s.until <= until[s.previous]

Honest(s) ==
    /\ s.token = NoToken => s.previous = NoToken
    /\ s.token # NoToken /\ s.issued # Never => Backed(s, promise)
    /\ s.token # NoToken /\ s.issued = Never => promise[s.token] <= now + TTL /\ s.previous = NoToken

\* A tick that looks again, and finds a token, has decided on that token.
OverInv ==
    /\ \A e \in entries : e.expires <= promise[e.token]
    /\ Honest(file.state)
    /\ Busy => Honest(work.before)
    /\ pc = "recheck" /\ file.state.token # NoToken =>
           /\ Backed(work.state, promise) /\ work.state.token = file.state.token
           /\ file.state.previous \in {NoToken, work.state.previous} \/ file.state.until < now

\* What takes effect: the decision, or the state before a rotation.
Reverts(d) ==
    /\ d.before.token # NoToken /\ d.before.issued # Never /\ ~d.minted /\ ~d.rotated
    /\ d.state = d.before

Takes(d) ==
    /\ d \in Decision /\ Resolved(d.state)
    /\ Generates(d) \/ Stamps(d) \/ Rotates(d) \/ Stays(d) \/ Reverts(d)
    /\ d.minted => Strange(d.state.token, d.before)

LEMMA WorkTakes ==
    ASSUME AuthTypeOK, NEW d, Sensible(d)
    PROVE  Takes(d) /\ Takes(Undone(d))
<1>1. Takes(d) BY DEF Sensible, Takes
<1>2. Takes(Undone(d)) BY <1>1, UndoneFits DEF Rotates, Reverts, Takes
<1> QED BY <1>1, <1>2

LEMMA Numbers ==
    ASSUME AuthTypeOK
    PROVE  /\ now \in Nat /\ \A t \in Tokens : promise[t] \in Int
           /\ \A e \in entries : e.token \in Tokens /\ e.expires \in Int
BY AuthAssumption DEF AuthTypeOK, Times, Ends, Never, Entry

LEMMA StateNumbers ==
    ASSUME NEW s \in State
    PROVE  /\ s.issued \in Int /\ s.until \in Int
           /\ s.token # NoToken => s.token \in Tokens
           /\ s.previous # NoToken => s.previous \in Tokens
BY StateFields, AuthAssumption DEF Times, Ends, Never

LEMMA DecisionStates == ASSUME NEW d \in Decision PROVE d.state \in State /\ d.before \in State
BY DEF Decision

\* An announcement takes nothing back, and it covers what the decision says.
LEMMA PromisedBacks ==
    ASSUME AuthTypeOK, NEW d, Takes(d), Honest(d.before)
    PROVE  /\ \A t \in Tokens : promise[t] <= Promised(d)[t]
           /\ Backed(d.state, Promised(d))
<1> USE AuthAssumption
<1>1. d.before \in State /\ d.state \in State /\ d \in Decision BY DecisionStates DEF Takes
<1>2. now \in Nat /\ (\A t \in Tokens : promise[t] \in Int) BY Numbers
<1>3. d.state.token \in Tokens /\ d.state.issued \in Nat BY DEF Takes, Resolved, Times
<1>4. \A t \in Tokens : Promised(d)[t] =
        IF t = d.state.token /\ (d.minted \/ d.before.issued = Never) THEN now + TTL
        ELSE IF d.rotated /\ t = d.before.token THEN Larger(now + Grace, promise[t])
        ELSE promise[t]
  BY DEF Promised
<1>5. d.minted => promise[d.state.token] < now BY DEF Takes, Strange, Unused
<1> HIDE DEF Promised
<1>6. CASE Generates(d)
  <2>1. \A t \in Tokens : promise[t] <= Promised(d)[t] BY <1>2, <1>3, <1>4, <1>5, <1>6 DEF Generates
  <2>2. Promised(d)[d.state.token] = now + TTL /\ d.state.issued = now /\ d.state.previous = NoToken
    BY <1>3, <1>4, <1>6 DEF Generates
  <2> QED BY <1>2, <2>1, <2>2 DEF Backed
<1>7. CASE Stamps(d)
  <2>1. promise[d.state.token] <= now + TTL /\ d.before.previous = NoToken BY <1>7 DEF Stamps, Honest
  <2>2. \A t \in Tokens : promise[t] <= Promised(d)[t] BY <1>2, <1>3, <1>4, <1>7, <2>1 DEF Stamps
  <2>3. Promised(d)[d.state.token] = now + TTL /\ d.state.issued = now /\ d.state.previous = NoToken
    BY <1>3, <1>4, <1>7, <2>1 DEF Stamps, Drops
  <2> QED BY <1>2, <2>2, <2>3 DEF Backed
<1>8. CASE Rotates(d)
  <2>1. d.before.issued + TTL <= promise[d.before.token] /\ d.before.token \in Tokens /\ d.before.issued \in Int
    BY <1>1, <1>8, StateNumbers DEF Rotates, Honest, Backed
  <2>2. \A t \in Tokens : promise[t] <= Promised(d)[t]
    BY <1>2, <1>3, <1>4, <1>5, <1>8 DEF Rotates, Larger
  <2>3. d.state.token # d.before.token BY <1>8 DEF Rotates, Takes, Strange
  <2>4. Promised(d)[d.state.token] = now + TTL /\ d.state.issued = now BY <1>3, <1>4, <1>8 DEF Rotates
  <2>5. Promised(d)[d.before.token] = Larger(now + Grace, promise[d.before.token])
    BY <1>4, <1>8, <2>1, <2>3 DEF Rotates
  <2>6. d.state.previous = d.before.token /\ d.state.until = Larger(now + Grace, d.before.issued + TTL)
    BY <1>8 DEF Rotates
  <2>7. d.state.until <= Promised(d)[d.state.previous] BY <1>2, <2>1, <2>5, <2>6 DEF Larger
  <2> QED BY <1>2, <2>2, <2>4, <2>7 DEF Backed
<1>9. CASE Stays(d) \/ Reverts(d)
  <2>1. \A t \in Tokens : Promised(d)[t] = promise[t] BY <1>4, <1>9 DEF Stays, Reverts
  <2>2. Backed(d.before, promise) BY <1>9 DEF Stays, Reverts, Honest
  <2>3. d.state.token = d.before.token /\ d.state.issued = d.before.issued
        /\ (d.state.previous # NoToken => d.state.previous = d.before.previous /\ d.state.until = d.before.until)
    BY <1>9 DEF Stays, Reverts, Drops
  <2>4. d.before.previous # NoToken => d.before.previous \in Tokens BY <1>1, StateNumbers
  <2> QED BY <1>2, <1>3, <2>1, <2>2, <2>3, <2>4 DEF Backed
<1> QED BY <1>6, <1>7, <1>8, <1>9 DEF Takes

\* The ends of the tokens of a state are those it says.
LEMMA EntriesBacked ==
    ASSUME NEW s \in State, NEW P, Backed(s, P)
    PROVE  \A e \in EntriesOf(s) : e.expires <= P[e.token]
BY DEF EntriesOf, Backed

LEMMA ReturnsBacked ==
    ASSUME TokenInv, OverInv, NEW d, Takes(d), Returns(d), promise' \in [Tokens -> Ends],
           \A t \in Tokens : promise[t] <= promise'[t], Backed(d.state, promise')
    PROVE  \A e \in entries' : e.expires <= promise'[e.token]
<1>1. d.state \in State /\ d \in Decision /\ Resolved(d.state) BY DecisionStates DEF Takes
<1>2. \A e \in EntriesOf(d.state) : e.expires <= promise'[e.token] BY <1>1, EntriesBacked
<1>3. \A t \in Tokens : promise[t] \in Int /\ promise'[t] \in Int
  BY Numbers, AuthAssumption DEF TokenInv, Ends, Never
<1>4. \A e \in entries : e.expires <= promise'[e.token] BY <1>3, Numbers DEF OverInv, TokenInv
<1>5. entries' \subseteq EntriesOf(d.state) \union entries BY DEF Returns, Replaced
<1> QED BY <1>2, <1>4, <1>5

\* A file that is still the same stays honest.
LEMMA HonestFile ==
    ASSUME TokenInv, Honest(file.state), file'.state = file.state, UNCHANGED now,
           promise' \in [Tokens -> Ends], \A t \in Tokens : promise[t] <= promise'[t],
           file.state.token # NoToken /\ file.state.issued = Never => promise'[file.state.token] <= now + TTL
    PROVE  Honest(file.state)'
<1>1. file.state \in State BY DEF TokenInv, AuthTypeOK, File
<1>2. /\ file.state.token # NoToken => file.state.token \in Tokens
      /\ file.state.previous # NoToken => file.state.previous \in Tokens
      /\ file.state.issued + TTL \in Int /\ file.state.until \in Int
  BY <1>1, StateNumbers, AuthAssumption
<1>3. \A t \in Tokens : promise[t] \in Int /\ promise'[t] \in Int
  BY Numbers, AuthAssumption DEF TokenInv, Ends, Never
<1> QED BY <1>2, <1>3 DEF Honest, Backed

LEMMA ResolvesOver ==
    ASSUME TokenInv, OverInv, NEW d, NEW boot \in BOOLEAN, NEW r \in {file, NoFile},
           ResolvesTo(d, r, boot), IF boot THEN pc = "down" ELSE pc = "had"
    PROVE  OverInv'
<1>1. /\ Sensible(d) /\ d.before = r.state /\ d.boot = boot /\ UNCHANGED <<now, writable, file, had>>
      /\ Read(r) /\ UNCHANGED promise
  BY DEF ResolvesTo
<1>2. reads \in Int /\ now \in Int /\ promise \in [Tokens -> Ends] /\ d \in Decision
  BY <1>1, Numbers DEF TokenInv, AuthTypeOK, Sensible
<1>3. Honest(d.before) BY <1>1 DEF OverInv, Honest, NoFile, Blank
<1>5. d.before.token # NoToken => d.before = file.state BY <1>1 DEF NoFile, Blank
<1>6. Honest(file.state)' BY <1>1 DEF OverInv, Honest, Backed
<1>7. CASE work' = d /\ pc' = "save" /\ UNCHANGED <<entries, promise>>
  <2>1. Honest(work.before)' BY <1>1, <1>3, <1>7 DEF Honest, Backed
  <2> QED BY <1>1, <1>6, <1>7, <2>1 DEF OverInv, Busy
<1>8. CASE d.state = d.before /\ Stays(d) /\ Returns(d)
  <2>1. /\ work' = d /\ pc' \in {"idle", "recheck"} /\ (pc' = "recheck" => ~d.boot /\ ~had)
    BY <1>8 DEF Returns
  <2>2. Backed(d.state, promise) /\ d.before.token # NoToken BY <1>3, <1>8 DEF Stays, Honest
  <2>3. \A t \in Tokens : promise[t] <= promise'[t] BY <1>1, Numbers DEF TokenInv
  <2>4. Takes(d) BY <1>1, WorkTakes DEF TokenInv
  <2>5. \A e \in entries' : e.expires <= promise'[e.token]
    BY <1>1, <1>2, <1>8, <2>2, <2>3, <2>4, ReturnsBacked
  <2> QED BY <1>1, <1>5, <1>6, <1>8, <2>1, <2>2, <2>5 DEF OverInv, Busy, Backed
<1> QED BY <1>7, <1>8 DEF ResolvesTo

LEMMA SavedOver == ASSUME TokenInv, OverInv, Saved PROVE OverInv'
<1>1. /\ Busy /\ Sensible(work) /\ Returns(work) /\ file' = [state |-> work.state, operator |-> kept]
      /\ promise' = Promised(work) /\ UNCHANGED now
  BY DEF Saved, TokenInv, Busy
<1>2. PICK d : d = work OBVIOUS
<1>3. Takes(d) /\ Honest(d.before) BY <1>1, <1>2, WorkTakes DEF TokenInv, OverInv
<1>4. /\ \A t \in Tokens : promise[t] <= promise'[t]
      /\ Backed(d.state, promise')
  BY <1>1, <1>2, <1>3, PromisedBacks DEF TokenInv
<1>5. promise' \in [Tokens -> Ends] BY <1>1, PromisedTyped DEF TokenInv
<1>6. \A e \in entries' : e.expires <= promise'[e.token] BY <1>1, <1>2, <1>3, <1>4, <1>5, ReturnsBacked
<1>7. file'.state = d.state /\ work' = d /\ pc' \in {"idle", "recheck"} BY <1>1, <1>2 DEF Returns
<1>8. d.state.token # NoToken /\ d.state.issued # Never
  BY <1>3, AuthAssumption DEF Takes, Resolved, Times, Never
<1>9. Honest(file.state)' BY <1>4, <1>7, <1>8 DEF Honest, Backed
<1> QED BY <1>4, <1>6, <1>7, <1>9 DEF OverInv, Busy, Backed

\* A save that fails leaves the file; what the server goes on with is in it,
\* or there was nothing in it.
LEMMA SaveFailsOver == ASSUME TokenInv, RealInv, OverInv, SaveFails PROVE OverInv'
<1>1. /\ Busy /\ Sensible(work) /\ Returns(Undone(work)) /\ UNCHANGED <<now, file, had>>
      /\ promise' = IF work.boot \/ ~work.minted THEN Promised(Undone(work)) ELSE promise
  BY DEF SaveFails, TokenInv, Busy, disk
<1>2. PICK w : w = work OBVIOUS
<1>3. PICK d : d = Undone(w) OBVIOUS
<1>4. /\ Takes(d) /\ Takes(w) /\ d.before = w.before /\ d.boot = w.boot /\ Honest(w.before)
      /\ (Rotates(w) /\ d.state = w.before /\ ~d.minted /\ ~d.rotated) \/ (~w.rotated /\ d = w)
  BY <1>1, <1>2, <1>3, WorkTakes, UndoneFits DEF TokenInv, OverInv
<1>5. /\ \A t \in Tokens : promise[t] <= Promised(d)[t]
      /\ Backed(d.state, Promised(d))
  BY <1>4, PromisedBacks DEF TokenInv
<1>6. promise' \in [Tokens -> Ends] /\ \A t \in Tokens : promise[t] <= promise'[t]
  BY <1>1, <1>2, <1>3, <1>5, PromisedTyped, Numbers DEF TokenInv, AuthTypeOK
<1>7. /\ work' = d /\ pc' \in {"idle", "recheck"}
      /\ pc' = "recheck" => ~w.boot /\ ~had /\ entries' = entries
      /\ pc' = "idle" => w.boot \/ had
  BY <1>1, <1>2, <1>3, <1>4 DEF Returns
<1>9. w.before = file.state /\ (~w.boot => (had <=> file.state.token # NoToken))
  BY <1>1, <1>2 DEF RealInv
<1>8. \A e \in entries' : e.expires <= promise'[e.token]
  <2>1. CASE promise' = Promised(d)
    BY <1>1, <1>2, <1>3, <1>4, <1>5, <1>6, <2>1, ReturnsBacked
  <2>2. CASE promise' = promise /\ pc' = "recheck" BY <1>7, <2>2 DEF OverInv
  <2>3. CASE promise' = promise /\ had /\ ~w.boot /\ w.minted
    <3>1. Rotates(w) BY <1>4, <1>9, <2>3 DEF Takes, Generates, Stamps, Stays, Reverts
    <3>2. d.state = w.before /\ Backed(d.state, promise')
      BY <1>4, <2>3, <3>1 DEF Rotates, Honest
    <3> QED BY <1>1, <1>2, <1>3, <1>4, <1>6, <3>2, ReturnsBacked
  <2> QED BY <1>1, <1>2, <1>3, <1>7, <2>1, <2>2, <2>3
<1>10. Honest(file.state)'
  <2>1. ASSUME file.state.token # NoToken, file.state.issued = Never
        PROVE  promise'[file.state.token] <= now + TTL
    <3>1. file.state.token \in Tokens /\ promise[file.state.token] <= now + TTL
      BY <2>1, StateNumbers DEF OverInv, Honest, TokenInv, AuthTypeOK, File
    <3>2. ~(d.rotated /\ file.state.token = d.before.token)
      BY <1>4, <1>9, <2>1 DEF Takes, Generates, Stamps, Rotates, Stays, Reverts
    <3>3. now + TTL \in Int BY Numbers, AuthAssumption DEF TokenInv
    <3> QED BY <1>1, <1>2, <1>3, <3>1, <3>2, <3>3 DEF Promised
  <2> QED BY <1>1, <1>6, <2>1, HonestFile DEF OverInv
<1>11. ASSUME pc' = "recheck", file.state.token # NoToken
       PROVE  /\ Backed(d.state, promise') /\ d.state.token = file.state.token
              /\ file.state.previous \in {NoToken, d.state.previous} \/ file.state.until < now
  <2>1. w.before = file.state /\ ~w.boot BY <1>7, <1>9, <1>11
  <2>2. CASE Rotates(w) /\ d.state = w.before
    <3>1. Backed(w.before, promise) BY <1>4, <2>2 DEF Rotates, Honest
    <3>2. promise' = promise BY <1>1, <1>2, <2>1, <2>2 DEF Rotates
    <3> QED BY <2>1, <2>2, <3>1, <3>2
  <2>3. CASE ~w.rotated /\ d = w
    <3>1. ~w.minted BY <1>4, <1>11, <2>1, <2>3 DEF Takes, Generates, Stamps, Rotates, Stays, Reverts
    <3>2. promise' = Promised(d) BY <1>1, <1>2, <1>3, <2>1, <3>1
    <3>3. d.state.token = d.before.token /\ (Drops(d) \/ d.state = d.before)
      BY <1>4, <2>3, <3>1 DEF Takes, Generates, Stamps, Rotates, Stays, Reverts
    <3> QED BY <1>4, <1>5, <2>1, <2>3, <3>2, <3>3 DEF Drops
  <2> QED BY <1>4, <2>2, <2>3
<1> QED BY <1>1, <1>7, <1>8, <1>10, <1>11 DEF OverInv, Busy

LEMMA RotationTickOver == ASSUME TokenInv, OverInv, RotationTick PROVE OverInv'
<1>1. pc' = "had" /\ UNCHANGED <<now, file, entries, promise>> BY DEF RotationTick, disk
<1> QED BY <1>1 DEF OverInv, Busy, Honest, Backed

LEMMA RecheckOver == ASSUME TokenInv, OverInv, Recheck PROVE OverInv'
<1>1. pc = "recheck" /\ pc' = "idle" /\ UNCHANGED <<now, file>> BY DEF Recheck, disk
<1>2. CASE UNCHANGED <<entries, promise>> BY <1>1, <1>2 DEF OverInv, Busy, Honest, Backed
<1>3. CASE /\ file.state.token # NoToken
           /\ entries' = Adopted(EntriesOf(work.state))
           /\ promise' = [t \in Tokens |->
                 IF t \in Named(EntriesOf(work.state)) THEN promise[t] ELSE Smaller(promise[t], now + Grace)]
  <2>1. /\ Backed(work.state, promise) /\ work.state.token = file.state.token
        /\ file.state.previous \in {NoToken, work.state.previous} \/ file.state.until < now
    BY <1>1, <1>3 DEF OverInv
  <2>2. work.state \in State /\ file.state \in State BY DecisionStates DEF TokenInv, AuthTypeOK, File
  <2> DEFINE own == EntriesOf(work.state)
  <2>3. \A t \in Named(own) \intersect Tokens : promise'[t] = promise[t] BY <1>3
  <2>4. \A t \in Tokens \ Named(own) : promise'[t] = Smaller(promise[t], now + Grace) BY <1>3
  <2>5. work.state.token \in Named(own) /\ (work.state.previous # NoToken => work.state.previous \in Named(own))
    <3>1. [token |-> work.state.token, expires |-> work.state.issued + TTL, graced |-> FALSE] \in own
      BY DEF EntriesOf
    <3>2. work.state.previous # NoToken =>
            [token |-> work.state.previous, expires |-> work.state.until, graced |-> FALSE] \in own
      BY DEF EntriesOf
    <3> HIDE DEF own
    <3> QED BY <3>1, <3>2 DEF Named
  <2>6. \A e \in own : e.expires <= promise[e.token] /\ e.token \in Named(own) /\ e.token \in Tokens
    BY <1>1, <2>1, <2>2, EntriesBacked, EntriesTyped DEF Named, Entry, TokenInv
  <2>7. now + Grace \in Int /\ (\A t \in Tokens : promise[t] \in Int)
        /\ \A e \in entries : e.token \in Tokens /\ e.expires \in Int
    BY Numbers, AuthAssumption DEF TokenInv
  <2> HIDE DEF own
  <2>8. ASSUME NEW e \in entries' PROVE e.expires <= promise'[e.token]
    <3>1. CASE e \in own BY <2>3, <2>6, <3>1
    <3>2. CASE e \notin own
      <4>1. PICK x \in entries : x.token \notin Named(own)
              /\ e = [x EXCEPT !.expires = Smaller(x.expires, now + Grace), !.graced = TRUE]
        BY <1>3, <3>2 DEF Adopted, own
      <4>2. e.token = x.token /\ e.expires = Smaller(x.expires, now + Grace)
        BY <4>1 DEF TokenInv, AuthTypeOK, Entry
      <4>3. x.expires <= promise[x.token] BY DEF OverInv
      <4>4. promise'[x.token] = Smaller(promise[x.token], now + Grace) BY <2>4, <2>7, <4>1
      <4> QED BY <2>7, <4>2, <4>3, <4>4 DEF Smaller
    <3> QED BY <3>1, <3>2
  <2>9. Honest(file.state)'
    <3>1. file.state.token \in Tokens /\ promise'[file.state.token] = promise[file.state.token]
      BY <1>3, <2>1, <2>2, <2>3, <2>5, StateNumbers
    <3>2. ASSUME file.state.previous # NoToken, file.state.until <= promise[file.state.previous]
          PROVE  file.state.until <= promise'[file.state.previous]
      <4>1. file.state.previous \in Tokens /\ file.state.until \in Int BY <2>2, <3>2, StateNumbers
      <4>2. CASE file.state.previous = work.state.previous BY <2>3, <2>5, <3>2, <4>1, <4>2
      <4>3. CASE file.state.until < now
        <5>1. file.state.until <= now + Grace BY <4>1, <4>3, Numbers, AuthAssumption DEF TokenInv
        <5> QED BY <2>3, <2>4, <2>7, <3>2, <4>1, <5>1 DEF Smaller
      <4> QED BY <2>1, <3>2, <4>2, <4>3
    <3>3. Honest(file.state) BY DEF OverInv
    <3> QED BY <1>1, <3>1, <3>2, <3>3 DEF Honest, Backed
  <2> QED BY <1>1, <2>8, <2>9 DEF OverInv, Busy
<1> QED BY <1>2, <1>3 DEF Recheck, NoFile, Blank

LEMMA OthersOver ==
    ASSUME TokenInv, OverInv,
           SaveRead \/ TimePasses \/ DirectoryBreaks \/ DirectoryRepaired \/ OperatorEdits \/ Quit
    PROVE  OverInv'
<1>1. CASE SaveRead
  <2>1. pc = "save" /\ pc' = "write" /\ UNCHANGED <<now, file, entries, had, work, promise>>
    BY <1>1 DEF SaveRead, disk
  <2> QED BY <2>1 DEF OverInv, Busy, Honest, Backed
<1>2. CASE TimePasses
  <2>1. now' = now + 1 /\ pc' = pc /\ pc \in {"down", "idle"} /\ UNCHANGED <<file, entries, promise>>
    BY <1>2 DEF TimePasses, disk
  <2>2. file.state.token # NoToken => promise[file.state.token] \in Int
    BY Numbers, StateNumbers DEF TokenInv, AuthTypeOK, File
  <2>3. Honest(file.state)' BY <2>1, <2>2, Numbers, AuthAssumption DEF TokenInv, OverInv, Honest, Backed
  <2> QED BY <2>1, <2>3 DEF OverInv, Busy
<1>3. CASE DirectoryBreaks \/ DirectoryRepaired \/ OperatorEdits
  <2>1. UNCHANGED <<now, entries, pc, had, work, promise, reads>>
    BY <1>3 DEF DirectoryBreaks, DirectoryRepaired, OperatorEdits, counts
  <2>2. file'.state = file.state \/ file'.state = Blank
    <3>1. file' \in {file, NoFile, [file EXCEPT !.operator = TRUE]}
      BY <1>3 DEF DirectoryBreaks, DirectoryRepaired, OperatorEdits
    <3>2. [file EXCEPT !.operator = TRUE].state = file.state BY DEF TokenInv, AuthTypeOK, File
    <3>3. NoFile.state = Blank BY DEF NoFile
    <3> QED BY <3>1, <3>2, <3>3
  <2>3. Honest(file.state)' BY <2>1, <2>2 DEF OverInv, Honest, Backed, Blank
  <2>4. file'.state.token # NoToken => file'.state = file.state BY <2>2 DEF Blank
  <2>5. Busy => Honest(work.before)' BY <2>1 DEF OverInv, Honest, Backed
  <2> QED BY <2>1, <2>3, <2>4, <2>5 DEF OverInv, Busy, Backed
<1>4. CASE Quit
  <2>1. pc' = "down" /\ entries' = {} /\ UNCHANGED <<now, file>> BY <1>4 DEF Quit, disk
  <2>2. \A t \in Tokens : t \in {file.state.token, file.state.previous} => promise'[t] = promise[t]
    BY <1>4 DEF Quit
  <2>3. /\ file.state.token # NoToken => file.state.token \in Tokens
        /\ file.state.previous # NoToken => file.state.previous \in Tokens
    BY StateNumbers DEF TokenInv, AuthTypeOK, File
  <2>4. Honest(file.state)' BY <2>1, <2>2, <2>3 DEF OverInv, Honest, Backed
  <2> QED BY <2>1, <2>4 DEF OverInv, Busy
<1> QED BY <1>1, <1>2, <1>3, <1>4

\* Only one kind of fault has happened.
FewFaults == OneKindOfFault => OverInv

LEMMA InitOver == AuthInit => OverInv
<1> SUFFICES ASSUME AuthInit PROVE OverInv OBVIOUS
<1>1. PICK t \in Tokens : file \in {NoFile, [state |-> [Blank EXCEPT !.token = t], operator |-> TRUE]} BY DEF AuthInit
<1>2. file.state = Blank \/ file.state = [Blank EXCEPT !.token = t] BY <1>1 DEF NoFile
<1>3. /\ Blank.token = NoToken /\ Blank.previous = NoToken
      /\ [Blank EXCEPT !.token = t].previous = NoToken /\ [Blank EXCEPT !.token = t].token = t
      /\ [Blank EXCEPT !.token = t].issued = Never
  BY DEF Blank
<1>4. promise[t] <= now + TTL BY AuthAssumption DEF AuthInit, Never
<1>5. Honest(file.state) BY <1>2, <1>3, <1>4 DEF Honest
<1> QED BY <1>5 DEF AuthInit, OverInv, Busy

LEMMA OneKindBefore == ASSUME TokenInv, Works, AuthNext, OneKindOfFault' PROVE OneKindOfFault
BY StaysUndisturbed, OutagesGrow DEF OneKindOfFault

LEMMA NextOver == TokenInv /\ TrueReads /\ Works /\ FewFaults /\ [AuthNext]_authVars => FewFaults'
<1> SUFFICES ASSUME TokenInv, TrueReads, Works, FewFaults, [AuthNext]_authVars, OneKindOfFault' PROVE OverInv'
  BY DEF FewFaults
<1>1. CASE AuthNext
  <2>1. OneKindOfFault /\ OverInv BY <1>1, OneKindBefore DEF FewFaults
  <2>2. ASSUME Boot \/ TickResolves PROVE OverInv' BY <2>1, <2>2, StepResolves, ResolvesOver
  <2>3. ASSUME SaveFails PROVE OverInv'
    <3>1. Undisturbed BY <2>1, <2>3 DEF OneKindOfFault, Works, SaveFails
    <3> QED BY <2>1, <2>3, <3>1, SaveFailsOver DEF TrueReads
  <2> QED BY <1>1, <2>1, <2>2, <2>3, SavedOver, RotationTickOver, RecheckOver, OthersOver DEF AuthNext
<1>2. CASE UNCHANGED authVars
  <2>1. UNCHANGED <<now, file, entries, pc, had, work, promise, counts>> BY <1>2 DEF authVars, disk
  <2>2. OneKindOfFault BY <2>1 DEF OneKindOfFault, Undisturbed, counts
  <2> QED BY <2>1, <2>2 DEF FewFaults, OverInv, Busy, Honest, Backed
<1> QED BY <1>1, <1>2

\* No token is accepted for longer than its holder was told, and none that
\* nobody was told of: through rotations, recoveries and restarts, and either
\* any outages of the data directory, or any failed reads and deletions of the
\* file.
THEOREM NoTokenOverstays == AuthSpec => []NoOverstay
<1>1. TokenInv /\ FewFaults => NoOverstay
  <2> SUFFICES ASSUME TokenInv, FewFaults, OneKindOfFault, NEW t \in Tokens, Accepted(t) PROVE now <= promise[t]
    BY DEF NoOverstay
  <2>1. PICK e \in entries : e.token = t /\ now <= e.expires BY DEF Accepted, Live
  <2>2. e.expires <= promise[t] BY <2>1 DEF FewFaults, OverInv
  <2> QED BY <2>1, <2>2, Numbers DEF TokenInv
<1>2. AuthInit => FewFaults /\ Works BY InitOver DEF FewFaults, Works, AuthInit
<1> QED BY <1>1, <1>2, InitReal, SpecTokens, NextReal, NextOver, WorksKept, PTL DEF AuthSpec

-----------------------------------------------------------------------------
(* What the server accepts without a save is what the file already says, as *)
(* long as every read of the file tells the truth.                          *)

\* What takes effect without being saved was in the file.
LEMMA UnsavedIsInFile ==
    ASSUME TokenInv, RealInv, SaveFails, file.state.token # NoToken
    PROVE  /\ Undone(work).state.token = file.state.token /\ ~Undone(work).minted
           /\ Undone(work).state.previous \in {NoToken, file.state.previous}
<1>1. Sensible(work) /\ work.before = file.state BY DEF SaveFails, TokenInv, RealInv, Busy
<1>2. PICK w : w = work OBVIOUS
<1>3. Takes(w) /\ Takes(Undone(w)) /\ w.before = file.state BY <1>1, <1>2, WorkTakes DEF TokenInv
<1>4. (Rotates(w) /\ Undone(w).state = w.before /\ ~Undone(w).minted) \/ (~w.rotated /\ Undone(w) = w)
  BY <1>1, <1>2, UndoneFits DEF TokenInv
<1>5. CASE ~w.rotated /\ Undone(w) = w
  BY <1>2, <1>3, <1>5 DEF Takes, Generates, Stamps, Rotates, Stays, Reverts, Drops
<1> QED BY <1>2, <1>3, <1>4, <1>5

\* The tokens of a state.
LEMMA NamedOf ==
    ASSUME NEW s
    PROVE  \A e \in EntriesOf(s) : e.token = s.token \/ (e.token = s.previous /\ s.previous # NoToken)
BY DEF EntriesOf

\* Who is let in anew by a step is named in the file after it.
LetsInSaved ==
    entries # {} /\ entries' # {} =>
        \A t \in Tokens : ~Accepted(t) /\ Accepted(t)' => t \in {file'.state.token, file'.state.previous}

LEMMA ReturnsSaved ==
    ASSUME NEW d, Returns(d), UNCHANGED now, d.boot => entries = {},
           had => /\ d.state.token = file'.state.token
                  /\ d.state.previous \in {NoToken, file'.state.previous}
    PROVE  LetsInSaved
<1> SUFFICES ASSUME entries # {}, NEW t \in Tokens, ~Accepted(t), Accepted(t)'
             PROVE  t \in {file'.state.token, file'.state.previous}
  BY DEF LetsInSaved
<1>1. PICK e \in entries' : e.token = t /\ now <= e.expires BY DEF Accepted, Live
<1>2. e \notin entries BY <1>1 DEF Accepted, Live
<1>3. had /\ e \in EntriesOf(d.state) BY <1>1, <1>2 DEF Returns, Replaced
<1> QED BY <1>1, <1>3, NamedOf

LEMMA StepLetsInSaved == ASSUME TokenInv, RealInv, AuthNext, reads' = 0 PROVE LetsInSaved
<1>1. ASSUME Boot \/ TickResolves PROVE LetsInSaved
  <2>1. PICK d, r, boot : /\ boot \in BOOLEAN /\ r \in {file, NoFile} /\ ResolvesTo(d, r, boot)
                          /\ IF boot THEN pc = "down" ELSE pc = "had"
    BY <1>1, StepResolves
  <2>2. r = file BY <2>1, ResolvesReal
  <2>3. d.before = file.state /\ d.boot = boot /\ UNCHANGED <<now, file>> BY <2>1, <2>2 DEF ResolvesTo
  <2>4. CASE UNCHANGED entries BY <2>3, <2>4 DEF LetsInSaved, Accepted, Live
  <2>5. CASE d.state = d.before /\ Returns(d)
    <3>1. boot => entries = {} BY <2>1 DEF TokenInv, Starting
    <3> QED BY <2>3, <2>5, <3>1, ReturnsSaved
  <2> QED BY <2>1, <2>4, <2>5 DEF ResolvesTo
<1>2. CASE Saved
  <2>1. PICK d : d = work OBVIOUS
  <2>2. Returns(d) /\ UNCHANGED now /\ file'.state = d.state BY <1>2, <2>1 DEF Saved
  <2>3. d.boot => entries = {} BY <1>2, <2>1 DEF Saved, TokenInv, Starting, Busy
  <2> QED BY <2>2, <2>3, ReturnsSaved
<1>3. CASE SaveFails
  <2>1. PICK d : d = Undone(work) OBVIOUS
  <2>2. Returns(d) /\ UNCHANGED <<now, file>> BY <1>3, <2>1 DEF SaveFails, disk
  <2>3. Sensible(work) BY <1>3 DEF SaveFails, TokenInv, Busy
  <2>4. d.boot = work.boot BY <2>1, <2>3, UndoneFits DEF TokenInv
  <2>5. d.boot => entries = {} BY <1>3, <2>4 DEF SaveFails, TokenInv, Starting, Busy
  <2>6. ~d.boot /\ had => file.state.token # NoToken BY <1>3, <2>4 DEF SaveFails, RealInv, Busy
  <2>7. CASE d.boot BY <2>5, <2>7 DEF LetsInSaved
  <2>8. CASE ~d.boot BY <1>3, <2>1, <2>2, <2>6, <2>8, UnsavedIsInFile, ReturnsSaved
  <2> QED BY <2>7, <2>8
<1>4. CASE Recheck
  <2>1. pc = "recheck" /\ UNCHANGED <<now, file>> BY <1>4 DEF Recheck, disk
  <2>2. CASE UNCHANGED entries BY <2>1, <2>2 DEF LetsInSaved, Accepted, Live
  <2>3. CASE entries' = Adopted(EntriesOf(work.state)) /\ file.state.token # NoToken
    <3>1. file.state = work.state BY <2>1, <2>3 DEF RealInv
    <3> SUFFICES ASSUME NEW t \in Tokens, ~Accepted(t), Accepted(t)'
                 PROVE  t \in {file'.state.token, file'.state.previous}
      BY DEF LetsInSaved
    <3>2. PICK e \in entries' : e.token = t /\ now <= e.expires BY <2>1 DEF Accepted, Live
    <3>3. e \in EntriesOf(work.state)
      <4>1. ASSUME NEW x \in entries, Live(x),
                   e = [x EXCEPT !.expires = Smaller(x.expires, now + Grace), !.graced = TRUE]
            PROVE  FALSE
        <5>1. x.token = e.token BY <4>1 DEF TokenInv, AuthTypeOK, Entry
        <5> QED BY <3>2, <4>1, <5>1 DEF Accepted
      <4> QED BY <2>3, <4>1 DEF Adopted
    <3> QED BY <2>1, <3>1, <3>2, <3>3, NamedOf
  <2> QED BY <1>4, <2>2, <2>3 DEF Recheck, NoFile, Blank
<1>5. CASE TimePasses
  <2>1. UNCHANGED entries /\ now' = now + 1 BY <1>5 DEF TimePasses
  <2>2. \A t \in Tokens : Accepted(t)' => Accepted(t) BY <2>1, Numbers DEF TokenInv, Accepted, Live
  <2> QED BY <2>2 DEF LetsInSaved
<1>6. CASE SaveRead \/ RotationTick \/ DirectoryBreaks \/ DirectoryRepaired \/ OperatorEdits
  <2>1. UNCHANGED <<now, entries>>
    BY <1>6 DEF SaveRead, RotationTick, DirectoryBreaks, DirectoryRepaired, OperatorEdits
  <2> QED BY <2>1 DEF LetsInSaved, Accepted, Live
<1>7. CASE Quit BY <1>7 DEF Quit, LetsInSaved
<1> QED BY <1>1, <1>2, <1>3, <1>4, <1>5, <1>6, <1>7 DEF AuthNext

\* While the server runs, and nobody and nothing but the data directory gets
\* in its way, a token is let in only when the file has it: a rotation that
\* cannot be saved changes nothing for anybody.
THEOREM OnlySavedTokensEnter == AuthSpec => NoUnsavedRotation
<1> DEFINE Step == Undisturbed' /\ entries # {} /\ entries' # {} =>
                     \A t \in Tokens : ~Accepted(t) /\ Accepted(t)' => t \in {file'.state.token, file'.state.previous}
<1>1. TokenInv /\ TrueReads /\ [AuthNext]_authVars => [Step]_authVars
  <2> SUFFICES ASSUME TokenInv, TrueReads, AuthNext, Undisturbed' PROVE LetsInSaved BY DEF LetsInSaved
  <2>1. RealInv /\ reads' = 0 BY StaysUndisturbed DEF TrueReads, Undisturbed
  <2> QED BY <2>1, StepLetsInSaved
<1> QED BY <1>1, SpecTokens, InitReal, NextReal, PTL DEF AuthSpec, NoUnsavedRotation

-----------------------------------------------------------------------------
(* What is announced is accepted, as long as every read of the file tells   *)
(* the truth.  The tokens of the file are announced for no longer than it   *)
(* says, and the one before them has lapsed when they are replaced.         *)

\* The grace period, or the check that rotates early, ends an interval before
\* the next rotation, which needs the place of the previous token.
Roomy == Larger(Grace, Interval) + Interval < TTL

Capped(s, until) ==
    /\ until[s.token] <= s.issued + TTL
    /\ s.previous # NoToken =>
           until[s.previous] <= s.until /\ s.until <= s.issued + Larger(Grace, Interval)

Fair(s) ==
    /\ s.token = NoToken => s.previous = NoToken
    /\ s.token # NoToken /\ s.issued # Never => Capped(s, promise)
    /\ s.token # NoToken /\ s.issued = Never => promise[s.token] <= now + TTL /\ s.previous = NoToken

Covered(t) == \E e \in entries : e.token = t /\ e.expires >= promise[t]

\* A server that is starting, or down, has only the file; one that runs
\* accepts what it announced, but for a first token saved a moment ago.
KeepInv ==
    /\ Fair(file.state)
    /\ Starting =>
           \A t \in Tokens : now <= promise[t] => t \in {file.state.token, file.state.previous}
    /\ ~Starting =>
           \A t \in Tokens : now <= promise[t] =>
               \/ Covered(t)
               \/ pc = "recheck" /\ file.state.token # NoToken /\ t = work.state.token
    /\ ~Starting /\ pc # "recheck" /\ file.state.token # NoToken =>
           \A e \in entries : e.graced \/ e.token \in {file.state.token, file.state.previous}

KeptPromises == Undisturbed => KeepInv

\* The announcements after a decision has taken effect.
LEMMA PromisedAt ==
    ASSUME AuthTypeOK, NEW d, Takes(d)
    PROVE  /\ Generates(d) \/ Stamps(d) \/ Rotates(d) => Promised(d)[d.state.token] = now + TTL
           /\ Rotates(d) => Promised(d)[d.before.token] = Larger(now + Grace, promise[d.before.token])
           /\ Stays(d) \/ Reverts(d) => Promised(d) = promise
           /\ \A t \in Tokens : t # d.state.token /\ t # d.before.token => Promised(d)[t] = promise[t]
<1>1. d.state.token \in Tokens /\ d.state \in State /\ d.before \in State
  BY DecisionStates DEF Takes, Resolved
<1>2. CASE Generates(d)
  BY <1>1, <1>2, AuthAssumption DEF Generates, Stamps, Rotates, Stays, Reverts, Promised
<1>3. CASE Stamps(d)
  BY <1>1, <1>3 DEF Generates, Stamps, Rotates, Stays, Reverts, Promised
<1>4. CASE Rotates(d)
  <2>1. d.before.token \in Tokens /\ d.before.token # d.state.token
    BY <1>1, <1>4, StateNumbers DEF Rotates, Takes, Strange
  <2> QED BY <1>1, <1>4, <2>1 DEF Generates, Stamps, Rotates, Stays, Reverts, Promised
<1>5. CASE Stays(d) \/ Reverts(d)
  <2>1. ~Generates(d) /\ ~Stamps(d) /\ ~Rotates(d)
    BY <1>5 DEF Generates, Stamps, Rotates, Stays, Reverts
  <2>2. Promised(d) = [t \in Tokens |-> promise[t]]
    BY <1>5 DEF Stays, Reverts, Promised
  <2>3. Promised(d) = promise BY <2>2 DEF AuthTypeOK
  <2> QED BY <2>1, <2>3
<1> QED BY <1>2, <1>3, <1>4, <1>5 DEF Takes

LEMMA DecisionKeeps ==
    ASSUME AuthTypeOK, Roomy, NEW d, Takes(d), Fair(d.before)
    PROVE  /\ Capped(d.state, Promised(d))
           /\ \A t \in Tokens : now <= Promised(d)[t] =>
                  \/ t \in {d.state.token, d.state.previous}
                  \/ t \notin {d.before.token, d.before.previous} /\ Promised(d)[t] = promise[t]
<1> PICK p : p = Promised(d) OBVIOUS
<1>1. /\ Generates(d) \/ Stamps(d) \/ Rotates(d) => p[d.state.token] = now + TTL
      /\ Rotates(d) => p[d.before.token] = Larger(now + Grace, promise[d.before.token])
      /\ Stays(d) \/ Reverts(d) => p = promise
      /\ \A t \in Tokens : t # d.state.token /\ t # d.before.token => p[t] = promise[t]
  BY PromisedAt
<1>2. /\ d.state \in State /\ d.before \in State /\ Resolved(d.state)
      /\ now \in Nat /\ \A t \in Tokens : promise[t] \in Int
      /\ TTL \in Nat /\ Grace \in Nat /\ Interval \in Nat /\ NoToken \notin Tokens
  BY DecisionStates, Numbers, AuthAssumption DEF Takes
<1>3. /\ d.before.issued \in Int /\ d.before.until \in Int
      /\ d.before.token # NoToken => d.before.token \in Tokens
      /\ d.before.previous # NoToken => d.before.previous \in Tokens
  BY <1>2, StateNumbers
<1> SUFFICES /\ Capped(d.state, p)
             /\ \A t \in Tokens : now <= p[t] =>
                    \/ t \in {d.state.token, d.state.previous}
                    \/ t \notin {d.before.token, d.before.previous} /\ p[t] = promise[t]
  OBVIOUS
<1>4. CASE Generates(d)
  <2>1. d.before.token = NoToken /\ d.before.previous = NoToken BY <1>4 DEF Generates, Fair
  <2>2. d.state.issued = now /\ d.state.previous = NoToken BY <1>4 DEF Generates
  <2>3. Capped(d.state, p) BY <1>1, <1>2, <1>4, <2>2 DEF Capped
  <2> QED BY <1>1, <1>2, <2>1, <2>3
<1>5. CASE Stamps(d)
  <2>1. d.before.previous = NoToken BY <1>5 DEF Stamps, Fair
  <2>2. d.state.issued = now /\ d.state.previous = NoToken /\ d.state.token = d.before.token
    BY <1>5, <2>1 DEF Stamps, Drops
  <2>3. Capped(d.state, p) BY <1>1, <1>2, <1>5, <2>2 DEF Capped
  <2> QED BY <1>1, <1>2, <2>1, <2>2, <2>3
<1>6. CASE Rotates(d)
  <2>1. /\ d.before.token \in Tokens /\ d.before.issued # Never
        /\ now + Lookahead(d) >= d.before.issued + TTL
        /\ d.state.issued = now /\ d.state.previous = d.before.token
        /\ d.state.until = Larger(now + Grace, d.before.issued + TTL)
    BY <1>3, <1>6 DEF Rotates
  <2>2. Capped(d.before, promise) BY <1>6, <2>1 DEF Fair, Rotates
  <2>3. Lookahead(d) \in Nat /\ Lookahead(d) <= Interval BY <1>2 DEF Lookahead
  <2>4. promise[d.before.token] <= d.before.issued + TTL BY <2>2 DEF Capped
  <2>5. Larger(now + Grace, promise[d.before.token]) <= Larger(now + Grace, d.before.issued + TTL)
    BY <1>2, <1>3, <2>1, <2>4 DEF Larger
  <2>6. Larger(now + Grace, d.before.issued + TTL) <= now + Larger(Grace, Interval)
    BY <1>2, <1>3, <2>1, <2>3 DEF Larger
  <2>7. Capped(d.state, p) BY <1>1, <1>2, <1>6, <2>1, <2>5, <2>6 DEF Capped
  <2>8. ASSUME d.before.previous # NoToken PROVE promise[d.before.previous] < now
    <3>1. d.before.previous \in Tokens /\ promise[d.before.previous] \in Int BY <1>2, <1>3, <2>8
    <3>2. /\ promise[d.before.previous] <= d.before.until
          /\ d.before.until <= d.before.issued + Larger(Grace, Interval)
      BY <2>2, <2>8 DEF Capped
    <3>3. PICK x \in Int : x = Larger(Grace, Interval) BY <1>2 DEF Larger
    <3>4. x + Interval < TTL BY <3>3 DEF Roomy
    <3>5. d.before.until <= d.before.issued + x BY <3>2, <3>3
    <3> QED BY <1>2, <1>3, <2>1, <2>3, <3>1, <3>2, <3>4, <3>5
  <2>9. ASSUME NEW t \in Tokens, now <= p[t], t # d.state.token, t # d.state.previous
        PROVE  t \notin {d.before.token, d.before.previous} /\ p[t] = promise[t]
    <3>1. p[t] = promise[t] /\ t # d.before.token BY <1>1, <2>1, <2>9
    <3>2. promise[t] \in Int BY <1>2
    <3>3. t # d.before.previous BY <1>2, <2>8, <2>9, <3>1, <3>2
    <3> QED BY <3>1, <3>3
  <2> QED BY <2>7, <2>9
<1>7. CASE Stays(d)
  <2>1. /\ d.before.token \in Tokens /\ d.before.issued # Never /\ p = promise
        /\ d.state.token = d.before.token /\ d.state.issued = d.before.issued
    BY <1>1, <1>3, <1>7 DEF Stays
  <2>2. Capped(d.before, promise) BY <1>7, <2>1 DEF Fair, Stays
  <2>3. CASE d.state.previous = d.before.previous /\ d.state.until = d.before.until
    <3>1. Capped(d.state, p) BY <2>1, <2>2, <2>3 DEF Capped
    <3> QED BY <2>1, <2>3, <3>1
  <2>4. CASE d.state.previous = NoToken /\ d.before.previous # NoToken /\ d.before.until < now
    <3>1. Capped(d.state, p) BY <2>1, <2>2, <2>4 DEF Capped
    <3>2. promise[d.before.previous] <= d.before.until /\ d.before.previous \in Tokens
      BY <1>3, <2>2, <2>4 DEF Capped
    <3>3. \A t \in Tokens : now <= promise[t] => t # d.before.previous BY <1>2, <1>3, <2>4, <3>2
    <3> QED BY <2>1, <3>1, <3>3
  <2> QED BY <1>7, <2>3, <2>4 DEF Stays, Drops
<1>8. CASE Reverts(d)
  <2>1. p = promise /\ d.state = d.before BY <1>1, <1>8 DEF Reverts
  <2>2. Capped(d.before, promise) BY <1>8 DEF Fair, Reverts
  <2> QED BY <2>1, <2>2
<1> QED BY <1>4, <1>5, <1>6, <1>7, <1>8 DEF Takes

\* The entries made of a state cover its tokens; replaceWith() keeps what is
\* under grace.
LEMMA EntriesCover ==
    ASSUME NEW s \in State, Resolved(s), NEW until, Capped(s, until),
           \A t \in Tokens : until[t] \in Int, NEW t \in Tokens, t \in {s.token, s.previous}
    PROVE  \E e \in EntriesOf(s) : e.token = t /\ e.expires >= until[t]
<1>1. NoToken \notin Tokens /\ s.issued + TTL \in Int /\ s.until \in Int
  BY StateNumbers, AuthAssumption
<1>2. CASE t = s.token
  <2> DEFINE e == [token |-> s.token, expires |-> s.issued + TTL, graced |-> FALSE]
  <2>1. e \in EntriesOf(s) BY DEF EntriesOf
  <2>2. e.token = t /\ e.expires >= until[t] BY <1>1, <1>2 DEF Capped
  <2> QED BY <2>1, <2>2
<1>3. CASE t = s.previous
  <2> DEFINE e == [token |-> s.previous, expires |-> s.until, graced |-> FALSE]
  <2>1. e \in EntriesOf(s) BY <1>1, <1>3 DEF EntriesOf
  <2>2. e.token = t /\ e.expires >= until[t] BY <1>1, <1>3 DEF Capped
  <2> QED BY <2>1, <2>2
<1> QED BY <1>2, <1>3

LEMMA ReplacedCovers ==
    ASSUME AuthTypeOK, NEW s \in State, Resolved(s), NEW until, Capped(s, until),
           \A t \in Tokens : until[t] \in Int, NEW t \in Tokens, now <= until[t],
           \/ t \in {s.token, s.previous}
           \/ \E e \in entries : e.graced /\ e.token = t /\ e.expires >= until[t]
    PROVE  \E e \in Replaced(EntriesOf(s)) : e.token = t /\ e.expires >= until[t]
<1>1. EntriesOf(s) \subseteq Replaced(EntriesOf(s)) BY DEF Replaced
<1>2. CASE t \in {s.token, s.previous} BY <1>1, <1>2, EntriesCover
<1>3. CASE t \notin {s.token, s.previous}
  <2>1. PICK e \in entries : e.graced /\ e.token = t /\ e.expires >= until[t] BY <1>3
  <2>2. t \notin Named(EntriesOf(s)) BY <1>3, NamedOf DEF Named
  <2>3. Live(e) BY <2>1, Numbers DEF Live
  <2> QED BY <2>1, <2>2, <2>3 DEF Replaced
<1> QED BY <1>2, <1>3

\* A decision takes effect: it is in the file now, or it changes nothing there
\* that counts.
LEMMA ReturnsFair ==
    ASSUME TokenInv, KeepInv, Roomy, NEW d, Takes(d), d.before = file.state, promise' = Promised(d),
           UNCHANGED now,
           file'.state = d.state \/ (file'.state = file.state /\ ~Rotates(d))
    PROVE  Fair(file.state)'
<1>1. Capped(d.state, Promised(d)) /\ Resolved(d.state) /\ Never \notin Times
  BY DecisionKeeps, AuthAssumption DEF KeepInv, TokenInv, Takes, Times, Never
<1>2. d.state.token # NoToken /\ d.state.issued # Never BY <1>1, AuthAssumption DEF Resolved
<1>3. CASE file'.state = d.state BY <1>1, <1>2, <1>3 DEF Fair, Capped
<1>4. CASE file'.state = file.state /\ ~Rotates(d)
  <2>1. CASE Generates(d) BY <1>4, <2>1 DEF Generates, Fair, KeepInv
  <2>2. CASE Stamps(d)
    <3>1. promise'[file.state.token] = now + TTL /\ file.state.token # NoToken /\ file.state.issued = Never
      BY <2>2, PromisedAt DEF Stamps, TokenInv
    <3>2. file.state.previous = NoToken BY <3>1 DEF KeepInv, Fair
    <3> QED BY <1>4, <3>1, <3>2, Numbers, AuthAssumption DEF Fair, TokenInv
  <2>3. CASE Stays(d) \/ Reverts(d)
    <3>1. promise' = promise BY <2>3, PromisedAt DEF TokenInv
    <3> QED BY <1>4, <3>1 DEF Fair, KeepInv, Capped
  <2> QED BY <1>4, <2>1, <2>2, <2>3 DEF Takes
<1> QED BY <1>3, <1>4

LEMMA ReturnsKeeps ==
    ASSUME TokenInv, KeepInv, Roomy, NEW d, Takes(d), Returns(d), d.before = file.state,
           promise' = Promised(d), UNCHANGED now,
           d.boot => Starting,
           ~d.boot => ~Starting /\ pc # "recheck" /\ (had <=> file.state.token # NoToken),
           \/ file'.state = d.state
           \/ file'.state = file.state /\ (d.boot \/ had) /\ ~Rotates(d)
    PROVE  KeepInv'
<1> PICK p : p = Promised(d) OBVIOUS
<1>1. /\ Capped(d.state, p)
      /\ \A t \in Tokens : now <= p[t] =>
             \/ t \in {d.state.token, d.state.previous}
             \/ t \notin {file.state.token, file.state.previous} /\ p[t] = promise[t]
  BY DecisionKeeps DEF KeepInv, TokenInv
<1>2. /\ d \in Decision /\ Resolved(d.state) /\ d.state \in State /\ NoToken \notin Tokens
      /\ now \in Nat /\ \A t \in Tokens : promise[t] \in Int
  BY DecisionStates, Numbers, AuthAssumption DEF Takes, TokenInv
<1>3. \A t \in Tokens : p[t] \in Int
  BY PromisedTyped, AuthAssumption DEF TokenInv, Ends, Times, Never
<1>4. /\ work' = d /\ pc' \in {"idle", "recheck"}
      /\ pc' = "idle" /\ d.boot => entries' = EntriesOf(d.state)
      /\ pc' = "idle" /\ ~d.boot => had /\ entries' = Replaced(EntriesOf(d.state))
      /\ pc' = "recheck" => ~d.boot /\ ~had /\ entries' = entries
  BY <1>2, ReturnsTyped DEF TokenInv
<1>5. ~Starting' BY <1>4 DEF Starting, Busy
<1>6. Fair(file.state)' BY ReturnsFair
<1>7. ASSUME NEW t \in Tokens, now' <= promise'[t]
      PROVE  Covered(t)' \/ (pc' = "recheck" /\ file'.state.token # NoToken /\ t = work'.state.token)
  <2>1. now <= p[t] /\ promise'[t] = p[t] BY <1>7
  <2>2. \/ t \in {d.state.token, d.state.previous}
        \/ t \notin {file.state.token, file.state.previous} /\ p[t] = promise[t]
    BY <1>1, <2>1
  <2>3. CASE pc' = "idle" /\ d.boot
    <3>1. now <= promise[t] => t \in {file.state.token, file.state.previous} BY <2>3 DEF KeepInv
    <3>2. t \in {d.state.token, d.state.previous} BY <2>1, <2>2, <3>1
    <3>3. \E e \in EntriesOf(d.state) : e.token = t /\ e.expires >= p[t]
      BY <1>1, <1>2, <1>3, <3>2, EntriesCover
    <3> QED BY <1>4, <2>1, <2>3, <3>3 DEF Covered
  <2>4. CASE pc' = "idle" /\ ~d.boot
    <3>1. ~Starting /\ pc # "recheck" /\ file.state.token # NoToken BY <1>4, <2>4
    <3>2. ASSUME t \notin {d.state.token, d.state.previous}
          PROVE  \E e \in entries : e.graced /\ e.token = t /\ e.expires >= p[t]
      <4>1. Covered(t) BY <2>1, <2>2, <3>1, <3>2 DEF KeepInv
      <4> QED BY <2>2, <3>1, <3>2, <4>1 DEF KeepInv, Covered
    <3>3. \E e \in Replaced(EntriesOf(d.state)) : e.token = t /\ e.expires >= p[t]
      BY <1>1, <1>2, <1>3, <2>1, <3>2, ReplacedCovers DEF TokenInv
    <3> QED BY <1>4, <2>1, <2>4, <3>3 DEF Covered
  <2>5. CASE pc' = "recheck"
    <3>1. ~d.boot /\ ~had /\ entries' = entries /\ file.state.token = NoToken BY <1>4, <2>5
    <3>2. Generates(d) BY <3>1 DEF Takes, Stamps, Rotates, Stays, Reverts
    <3>3. d.state.previous = NoToken /\ file'.state = d.state BY <3>1, <3>2 DEF Generates
    <3>4. CASE t = d.state.token BY <1>2, <1>4, <2>5, <3>3, <3>4
    <3>5. CASE t # d.state.token
      <4>1. now <= promise[t] /\ p[t] = promise[t] BY <1>2, <2>1, <2>2, <3>3, <3>5
      <4>2. ~Starting /\ pc # "recheck" BY <3>1
      <4>3. Covered(t) BY <4>1, <4>2 DEF KeepInv
      <4> QED BY <2>1, <3>1, <4>1, <4>3 DEF Covered
    <3> QED BY <3>4, <3>5
  <2> QED BY <1>4, <2>3, <2>4, <2>5
<1>8. ASSUME pc' # "recheck", file'.state.token # NoToken, NEW e \in entries'
      PROVE  e.graced \/ e.token \in {file'.state.token, file'.state.previous}
  <2>1. e \in EntriesOf(d.state) \/ e.graced BY <1>4, <1>8 DEF Replaced
  <2>2. ASSUME e \in EntriesOf(d.state) PROVE e.token \in {file'.state.token, file'.state.previous}
    <3>1. e.token = d.state.token \/ (e.token = d.state.previous /\ d.state.previous # NoToken)
      BY <2>2, NamedOf
    <3>2. CASE file'.state = d.state BY <3>1, <3>2
    <3>3. CASE file'.state = file.state /\ ~Rotates(d)
      <4>1. d.state.token = file.state.token /\ d.state.previous \in {NoToken, file.state.previous}
        BY <1>8, <3>3 DEF Takes, Generates, Stamps, Stays, Reverts, Drops
      <4> QED BY <3>1, <3>3, <4>1
    <3> QED BY <3>2, <3>3
  <2> QED BY <2>1, <2>2
<1> QED BY <1>5, <1>6, <1>7, <1>8 DEF KeepInv

LEMMA ResolvesKeeps ==
    ASSUME TokenInv, RealInv, KeepInv, Roomy, reads' = 0, NEW d, NEW boot \in BOOLEAN,
           NEW r \in {file, NoFile}, ResolvesTo(d, r, boot),
           IF boot THEN pc = "down" ELSE pc = "had"
    PROVE  KeepInv'
<1>1. /\ r = file /\ d.before = file.state /\ d.boot = boot /\ Sensible(d) /\ UNCHANGED <<now, file, had>>
  BY ResolvesReal DEF ResolvesTo
<1>2. boot <=> Starting BY DEF Starting, Busy
<1>3. CASE work' = d /\ pc' = "save" /\ UNCHANGED <<entries, promise>>
  <2>1. Starting' <=> Starting BY <1>1, <1>2, <1>3 DEF Starting, Busy
  <2>2. pc # "recheck" /\ pc' # "recheck" BY <1>3
  <2> QED BY <1>1, <1>3, <2>1, <2>2 DEF KeepInv, Fair, Capped, Covered
<1>4. CASE d.state = d.before /\ Stays(d) /\ Returns(d) /\ UNCHANGED promise
  <2>1. Takes(d) BY <1>1, WorkTakes DEF TokenInv
  <2>2. promise' = Promised(d) BY <1>4, <2>1, PromisedAt DEF TokenInv
  <2>3. ~d.boot => ~Starting /\ pc # "recheck" /\ (had <=> file.state.token # NoToken)
    BY <1>1, <1>2 DEF RealInv
  <2>4. file'.state = d.state BY <1>1, <1>4
  <2> QED BY <1>1, <1>2, <1>4, <2>1, <2>2, <2>3, <2>4, ReturnsKeeps
<1> QED BY <1>3, <1>4 DEF ResolvesTo

LEMMA SavedKeeps == ASSUME TokenInv, RealInv, KeepInv, Roomy, Saved PROVE KeepInv'
<1>1. PICK d : d = work OBVIOUS
<1>2. /\ pc = "write" /\ file'.state = d.state /\ promise' = Promised(d) /\ Returns(d) /\ UNCHANGED now
  BY <1>1 DEF Saved
<1>3. Takes(d) /\ d.before = file.state BY <1>1, <1>2, WorkTakes DEF TokenInv, RealInv, Busy
<1>4. d.boot <=> Starting BY <1>1, <1>2 DEF Starting, Busy
<1>5. ~d.boot => ~Starting /\ pc # "recheck" /\ (had <=> file.state.token # NoToken)
  BY <1>1, <1>2, <1>4 DEF RealInv, Busy
<1> QED BY <1>2, <1>3, <1>4, <1>5, ReturnsKeeps

LEMMA SaveFailsKeeps == ASSUME TokenInv, RealInv, KeepInv, Roomy, SaveFails PROVE KeepInv'
<1>1. PICK w : w = work OBVIOUS
<1>2. PICK d : d = Undone(w) OBVIOUS
<1>3. /\ pc = "write" /\ Returns(d) /\ UNCHANGED <<now, file, had>>
      /\ promise' = IF w.boot \/ ~w.minted THEN Promised(d) ELSE promise
  BY <1>1, <1>2 DEF SaveFails, disk
<1>4. Sensible(w) /\ w.before = file.state BY <1>1, <1>3 DEF TokenInv, RealInv, Busy
<1>5. /\ Takes(d) /\ d.before = file.state /\ d.boot = w.boot /\ d \in Decision /\ Resolved(d.state)
      /\ (d.state = d.before /\ Reverts(d)) \/ (~w.rotated /\ d = w)
  BY <1>2, <1>4, WorkTakes, UndoneFits DEF TokenInv, Rotates, Reverts, Takes
<1>6. d.boot <=> Starting BY <1>1, <1>3, <1>5 DEF Starting, Busy
<1>7. ~d.boot => ~Starting /\ pc # "recheck" /\ (had <=> file.state.token # NoToken)
  BY <1>1, <1>3, <1>5, <1>6 DEF RealInv, Busy
<1>8. ~Rotates(d) BY <1>5 DEF Rotates, Reverts
<1>9. CASE w.boot \/ had
  <2>1. ASSUME w.boot \/ ~w.minted PROVE promise' = Promised(d) BY <1>3, <2>1
  <2>2. ASSUME ~w.boot, w.minted PROVE promise' = Promised(d)
    <3>1. file.state.token # NoToken BY <1>5, <1>7, <1>9, <2>2
    <3>2. Reverts(d) BY <1>4, <1>5, <2>2, <3>1 DEF Sensible, Generates, Stamps, Rotates, Stays
    <3>3. promise = [t \in Tokens |-> promise[t]] BY DEF TokenInv, AuthTypeOK
    <3>4. Promised(d) = [t \in Tokens |-> promise[t]] BY <3>2 DEF Promised, Reverts
    <3> QED BY <1>3, <2>2, <3>3, <3>4
  <2>3. promise' = Promised(d) BY <2>1, <2>2
  <2> QED BY <1>3, <1>5, <1>6, <1>7, <1>8, <1>9, <2>3, ReturnsKeeps
<1>10. CASE ~w.boot /\ ~had
  <2>1. file.state.token = NoToken /\ ~Starting /\ pc # "recheck" BY <1>5, <1>7, <1>10
  <2>2. w.minted BY <1>4, <2>1 DEF Sensible, Generates, Stamps, Rotates, Stays
  <2>3. pc' = "recheck" /\ entries' = entries /\ promise' = promise BY <1>3, <1>5, <1>10, <2>2 DEF Returns
  <2>4. ~Starting' BY <2>3 DEF Starting, Busy
  <2> QED BY <1>3, <2>1, <2>3, <2>4 DEF KeepInv, Fair, Capped, Covered
<1> QED BY <1>9, <1>10

LEMMA RecheckKeeps ==
    ASSUME TokenInv, RealInv, KeepInv, reads' = 0, Recheck
    PROVE  KeepInv'
<1>1. pc = "recheck" /\ pc' = "idle" /\ UNCHANGED <<now, file, work>> /\ reads \in Nat
  BY AuthAssumption DEF Recheck, disk, TokenInv, AuthTypeOK
<1>2. PICK r \in {file, NoFile} :
        /\ Read(r)
        /\ IF r.state.token # NoToken
           THEN /\ entries' = Adopted(EntriesOf(work.state))
                /\ promise' = [t \in Tokens |->
                      IF t \in Named(EntriesOf(work.state)) THEN promise[t]
                      ELSE Smaller(promise[t], now + Grace)]
           ELSE UNCHANGED <<entries, promise>>
  BY <1>1 DEF Recheck
<1>3. r = file BY <1>1, <1>2 DEF Read
<1>4. ~Starting /\ ~Starting' BY <1>1 DEF Starting, Busy
<1>5. CASE file.state.token = NoToken
  <2>1. UNCHANGED <<entries, promise>> BY <1>2, <1>3, <1>5
  <2> QED BY <1>1, <1>4, <1>5, <2>1 DEF KeepInv, Fair, Capped, Covered
<1>6. CASE file.state.token # NoToken
  <2> PICK s : s = file.state OBVIOUS
  <2>1. /\ work.state = s /\ s \in State /\ Resolved(s) /\ now \in Nat /\ now + Grace \in Int
        /\ \A t \in Tokens : promise[t] \in Int
        /\ \A e \in entries : e \in Entry /\ e.token \in Tokens /\ e.expires \in Int
    BY <1>1, <1>6, Numbers, AuthAssumption DEF RealInv, TokenInv, AuthTypeOK, File
  <2>2. /\ entries' = Adopted(EntriesOf(s))
        /\ promise' = [t \in Tokens |->
              IF t \in Named(EntriesOf(s)) THEN promise[t] ELSE Smaller(promise[t], now + Grace)]
    BY <1>2, <1>3, <1>6, <2>1
  <2>3. s.issued # Never /\ s.token \in Tokens /\ Capped(s, promise)
    BY <1>6, <2>1, AuthAssumption DEF KeepInv, Fair, Resolved, Times, Never
  <2>4. s.token \in Named(EntriesOf(s)) /\ (s.previous # NoToken => s.previous \in Named(EntriesOf(s)))
    <3>1. \A t \in Tokens : t \in {s.token, s.previous} => t \in Named(EntriesOf(s))
      BY <2>1, <2>3, EntriesCover DEF Named
    <3> QED BY <2>1, <2>3, <3>1, StateNumbers
  <2>5. Fair(file.state)'
    <3> HIDE DEF Named, EntriesOf
    <3>1. promise'[s.token] = promise[s.token] BY <2>2, <2>3, <2>4
    <3>2. s.previous # NoToken => promise'[s.previous] = promise[s.previous] BY <2>1, <2>2, <2>4, StateNumbers
    <3>3. Capped(s, promise') BY <2>3, <3>1, <3>2 DEF Capped
    <3> QED BY <1>1, <1>6, <2>3, <3>3 DEF Fair, Capped
  <2>6. ASSUME NEW t \in Tokens, now <= promise'[t] PROVE Covered(t)'
    <3> HIDE DEF Named, EntriesOf
    <3>1. CASE t \in Named(EntriesOf(s))
      <4>1. promise'[t] = promise[t] BY <2>2, <3>1
      <4>2. t \in {s.token, s.previous} BY <3>1, NamedOf DEF Named
      <4>3. PICK e \in EntriesOf(s) : e.token = t /\ e.expires >= promise[t]
        BY <2>1, <2>3, <4>2, EntriesCover
      <4>4. e \in entries' BY <2>2 DEF Adopted
      <4> QED BY <4>1, <4>3, <4>4 DEF Covered
    <3>2. CASE t \notin Named(EntriesOf(s))
      <4>1. promise'[t] = Smaller(promise[t], now + Grace) BY <2>2, <3>2
      <4>2. now <= promise[t] BY <2>1, <2>6, <4>1 DEF Smaller
      <4>3. t # work.state.token BY <2>1, <2>4, <3>2
      <4>4. Covered(t) BY <1>4, <4>2, <4>3 DEF KeepInv
      <4>5. PICK x \in entries : x.token = t /\ x.expires >= promise[t] BY <4>4 DEF Covered
      <4>6. Live(x) /\ x.token \notin Named(EntriesOf(s)) BY <2>1, <3>2, <4>2, <4>5 DEF Live
      <4> DEFINE e == [x EXCEPT !.expires = Smaller(x.expires, now + Grace), !.graced = TRUE]
      <4>7. e \in entries' BY <2>2, <4>6 DEF Adopted
      <4>8. e.token = t /\ e.expires = Smaller(x.expires, now + Grace) BY <2>1, <4>5 DEF Entry
      <4>9. Smaller(x.expires, now + Grace) >= Smaller(promise[t], now + Grace)
        BY <2>1, <4>5 DEF Smaller
      <4> QED BY <4>1, <4>7, <4>8, <4>9 DEF Covered
    <3> QED BY <3>1, <3>2
  <2>7. \A e \in entries' : e.graced \/ e.token \in {s.token, s.previous}
    <3> SUFFICES ASSUME NEW e \in entries' PROVE e.graced \/ e.token \in {s.token, s.previous} OBVIOUS
    <3>1. CASE e \in EntriesOf(s) BY <3>1, NamedOf
    <3>2. ASSUME NEW x \in entries,
                 e = [x EXCEPT !.expires = Smaller(x.expires, now + Grace), !.graced = TRUE]
          PROVE  e.graced
      BY <2>1, <3>2 DEF Entry
    <3> QED BY <2>2, <3>1, <3>2 DEF Adopted
  <2> QED BY <1>1, <1>4, <2>5, <2>6, <2>7 DEF KeepInv
<1> QED BY <1>5, <1>6

LEMMA OthersKeep ==
    ASSUME TokenInv, KeepInv, edits' = 0,
           \/ SaveRead \/ RotationTick
           \/ TimePasses \/ DirectoryBreaks \/ DirectoryRepaired \/ OperatorEdits \/ Quit
    PROVE  KeepInv'
<1>1. CASE SaveRead
  <2>1. /\ pc = "save" /\ pc' = "write" /\ UNCHANGED <<now, file, entries, work, promise>>
    BY <1>1 DEF SaveRead, disk
  <2>2. Starting' <=> Starting BY <2>1 DEF Starting, Busy
  <2> QED BY <2>1, <2>2 DEF KeepInv, Fair, Capped, Covered
<1>2. CASE RotationTick
  <2>1. /\ pc = "idle" /\ pc' = "had" /\ UNCHANGED <<now, file, entries, work, promise>>
    BY <1>2 DEF RotationTick, disk
  <2>2. Starting' <=> Starting BY <2>1 DEF Starting, Busy
  <2> QED BY <2>1, <2>2 DEF KeepInv, Fair, Capped, Covered
<1>3. CASE TimePasses
  <2>1. now' = now + 1 /\ UNCHANGED <<file, entries, pc, work, promise>> BY <1>3 DEF TimePasses, disk
  <2>2. Starting' <=> Starting BY <2>1 DEF Starting, Busy
  <2>3. now \in Nat /\ \A t \in Tokens : promise[t] \in Int BY Numbers DEF TokenInv
  <2>4. file.state \in State BY DEF TokenInv, AuthTypeOK, File
  <2>5. Fair(file.state)'
    <3>1. file.state.token # NoToken /\ promise[file.state.token] <= now + TTL
            => promise[file.state.token] <= now + 1 + TTL
      BY <2>3, <2>4, StateNumbers, AuthAssumption
    <3> QED BY <2>1, <3>1 DEF KeepInv, Fair, Capped
  <2>6. \A t \in Tokens : now' <= promise'[t] => now <= promise[t] BY <2>1, <2>3
  <2> QED BY <2>1, <2>2, <2>5, <2>6 DEF KeepInv, Covered
<1>4. CASE DirectoryBreaks \/ DirectoryRepaired
  <2>1. UNCHANGED <<now, file, entries, pc, work, promise>> BY <1>4 DEF DirectoryBreaks, DirectoryRepaired
  <2>2. Starting' <=> Starting BY <2>1 DEF Starting, Busy
  <2> QED BY <2>1, <2>2 DEF KeepInv, Fair, Capped, Covered
<1>5. CASE OperatorEdits
  <2>1. edits \in Nat BY AuthAssumption DEF TokenInv, AuthTypeOK
  <2> QED BY <1>5, <2>1 DEF OperatorEdits
<1>6. CASE Quit
  <2>1. /\ pc' = "down" /\ UNCHANGED <<now, file>>
        /\ promise' = [t \in Tokens |->
              IF t \in {file.state.token, file.state.previous} THEN promise[t] ELSE Never]
    BY <1>6 DEF Quit, disk
  <2>2. Starting' BY <2>1 DEF Starting
  <2>3. now \in Nat /\ file.state \in State BY Numbers DEF TokenInv, AuthTypeOK, File
  <2>4. \A t \in Tokens : now' <= promise'[t] => t \in {file.state.token, file.state.previous}
    BY <2>1, <2>3 DEF Never
  <2>5. Fair(file.state)'
    <3>1. file.state.token # NoToken => promise'[file.state.token] = promise[file.state.token]
      BY <2>1, <2>3, StateNumbers
    <3>2. file.state.previous # NoToken => promise'[file.state.previous] = promise[file.state.previous]
      BY <2>1, <2>3, StateNumbers
    <3> QED BY <2>1, <3>1, <3>2 DEF KeepInv, Fair, Capped
  <2> QED BY <2>1, <2>2, <2>4, <2>5 DEF KeepInv
<1> QED BY <1>1, <1>2, <1>3, <1>4, <1>5, <1>6

LEMMA InitKeeps == AuthInit => KeptPromises
<1> SUFFICES ASSUME AuthInit PROVE KeepInv BY DEF KeptPromises
<1>1. /\ now = 0 /\ pc = "down" /\ \A t \in Tokens : promise[t] = -1
  BY DEF AuthInit, Never
<1>2. file.state.previous = NoToken /\ file.state.issued = Never
  BY DEF AuthInit, NoFile, Blank
<1>3. file.state.token # NoToken => file.state.token \in Tokens
  <2>1. PICK t \in Tokens : file \in {NoFile, [state |-> [Blank EXCEPT !.token = t], operator |-> TRUE]} BY DEF AuthInit
  <2>2. [Blank EXCEPT !.token = t].token = t BY DEF Blank
  <2> QED BY <2>1, <2>2 DEF NoFile, Blank
<1>4. Fair(file.state) BY <1>1, <1>2, <1>3, AuthAssumption DEF Fair
<1> QED BY <1>1, <1>4 DEF KeepInv, Starting

LEMMA NextKeeps ==
    Roomy /\ TokenInv /\ TrueReads /\ KeptPromises /\ [AuthNext]_authVars => KeptPromises'
<1> SUFFICES ASSUME Roomy, TokenInv, TrueReads, KeptPromises, [AuthNext]_authVars, Undisturbed'
             PROVE  KeepInv'
  BY DEF KeptPromises
<1>1. CASE AuthNext
  <2>1. RealInv /\ KeepInv /\ reads' = 0 /\ edits' = 0
    BY <1>1, StaysUndisturbed DEF TrueReads, KeptPromises, Undisturbed
  <2>2. ASSUME Boot \/ TickResolves PROVE KeepInv' BY <2>1, <2>2, StepResolves, ResolvesKeeps
  <2> QED BY <1>1, <2>1, <2>2, SavedKeeps, SaveFailsKeeps, RecheckKeeps, OthersKeep DEF AuthNext
<1>2. CASE UNCHANGED authVars
  <2>1. UNCHANGED <<now, file, entries, pc, work, promise, reads, edits>> BY <1>2 DEF authVars, disk, counts
  <2> QED BY <2>1 DEF KeptPromises, KeepInv, Starting, Busy, Fair, Capped, Covered, Undisturbed
<1> QED BY <1>1, <1>2

\* A client is let in for as long as it was told, through rotations, outages
\* of the data directory, recoveries and restarts, when the grace period and
\* the interval of the checks leave room for each other within the lifetime;
\* reads of the file must not fail, and nobody must delete it.
THEOREM AnnouncedUntilExpiry == Roomy => (AuthSpec => []PromiseKept)
<1> SUFFICES ASSUME Roomy PROVE AuthSpec => []PromiseKept OBVIOUS
<1>1. TokenInv /\ KeptPromises => PromiseKept
  <2> SUFFICES ASSUME TokenInv, KeepInv, entries # {}, pc # "recheck", NEW t \in Tokens, now <= promise[t]
               PROVE  Accepted(t)
    BY DEF KeptPromises, PromiseKept, AnnouncedTokensWork
  <2>1. ~Starting BY DEF TokenInv
  <2>2. PICK e \in entries : e.token = t /\ e.expires >= promise[t] BY <2>1 DEF KeepInv, Covered
  <2> QED BY <2>2, Numbers DEF TokenInv, Accepted, Live
<1>2. Roomy /\ TokenInv /\ TrueReads /\ KeptPromises /\ [AuthNext]_authVars => KeptPromises' BY NextKeeps
<1> QED BY <1>1, <1>2, SpecTokens, InitReal, NextReal, InitKeeps, PTL DEF AuthSpec

=============================================================================
