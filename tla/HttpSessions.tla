---------------------------- MODULE HttpSessions ----------------------------
(***************************************************************************)
(* The MCP sessions of src/index.ts: requests that open, use and delete    *)
(* them, their notification streams, the eviction of idle ones, the        *)
(* capacity, subscriptions served by the poller, and shutdown().  With the *)
(* stdio transport there is one session, whose use_ccu moves the poller.   *)
(*                                                                         *)
(* Time is kept as the time since an event, up to one past the limit.      *)
(***************************************************************************)
EXTENDS ResourcePoller, Integers, FiniteSets

CONSTANTS
    Sids, Stdio,      \* session ids, the one session of the stdio transport
    Requests,         \* HTTP requests that may be under way at once
    MAX_SESSIONS, SESSION_IDLE,
    MaxCall           \* how long an MCP request takes at most

ASSUME SessionsAssumption ==
    /\ Stdio \in Sids /\ None \notin Sids /\ None \notin [lastSeen: Nat, openStreams: Int]
    /\ MAX_SESSIONS \in Nat \ {0} /\ SESSION_IDLE \in Nat \ {0}
    /\ MaxCall \in 1 .. SESSION_IDLE

VARIABLES
    transport,  \* "stdio" or "http"
    sessions,   \* session id -> its entry in the map, or None
    req,        \* request -> what it waits for
    subs,       \* session id -> the resources it is subscribed to
    active,     \* the target of the stdio session
    phase,      \* "up", "closing" in shutdown(), or "exited"
    raced,      \* history: initialize requests passed the check together, and are
                \* under way or have overfilled the map
    contact,    \* history: session id -> time since its client was last there
    known       \* history: session id -> resource -> what its client last read

sessionVars == <<transport, sessions, req, subs, active, phase, raced, contact, known>>
vars == <<pollerVars, sessionVars>>

Long == SESSION_IDLE + 1
Longer(n) == IF n < Long THEN n + 1 ELSE n
Free == [place |-> "free", sid |-> None, age |-> 0]
Under(place, s) == [place |-> place, sid |-> s, age |-> 0]

Table == {s \in Sids : sessions[s] # None}
On(s) == {r \in Requests : req[r].sid = s}
Streams(s) == {r \in On(s) : req[r].place \in {"stream", "conflict"}}

Init ==
    /\ PollerInit /\ transport \in {"stdio", "http"} /\ phase = "up" /\ active = Default
    /\ sessions = [s \in Sids |-> None] /\ req = [r \in Requests |-> Free]
    /\ subs = [s \in Sids |-> {}] /\ contact = [s \in Sids |-> 0]
    /\ known = [s \in Sids |-> NoHashes] /\ raced = FALSE

-----------------------------------------------------------------------------
(* Which requests get as far as the sessions: no preflight, no health       *)
(* check, a valid token, the MCP path, a body within the limit.  The others *)
(* are answered at once and change nothing.                                 *)

Incoming == [method: {"OPTIONS", "GET", "POST", "DELETE"}, path: {"/health", "/mcp", "/other"},
             headerValid: BOOLEAN, fits: BOOLEAN, sid: Sids \union {None}]

Reaches(in) ==
    /\ in.method # "OPTIONS" /\ ~(in.path = "/health" /\ in.method = "GET")
    /\ in.headerValid /\ in.path = "/mcp" /\ in.fits

Reaching == {in \in Incoming : Reaches(in)}

(* httpServer.close() lets no further request in; how those under way end   *)
(* then is not followed.                                                    *)
Listening == transport = "http" /\ phase = "up"

-----------------------------------------------------------------------------
(* The end of a session: its entry goes, its server forgets what it was     *)
(* subscribed to, its responses end.  The id may stand for a later session. *)

IdleDespiteStreams(s) == s \in Table /\ sessions[s].lastSeen > SESSION_IDLE
Idle(s) == s \in Table /\ sessions[s].lastSeen > SESSION_IDLE /\ sessions[s].openStreams = 0

Closed(S) ==
    /\ sessions' = [s \in Sids |-> IF s \in S THEN None ELSE sessions[s]]
    /\ subs' = [s \in Sids |-> IF s \in S THEN {} ELSE subs[s]]
    /\ known' = [s \in Sids |-> IF s \in S THEN NoHashes ELSE known[s]]
    /\ contact' = [s \in Sids |-> IF s \in S THEN 0 ELSE contact[s]]

Without(S) == [r \in Requests |-> IF req[r].sid \in S THEN Free ELSE req[r]]

evictIdleSessions ==
    /\ Listening /\ \E s \in Sids : Idle(s)
    /\ LET gone == {s \in Sids : Idle(s)} IN Closed(gone) /\ req' = Without(gone)
    /\ UNCHANGED <<pollerVars, transport, active, phase, raced>>

-----------------------------------------------------------------------------
(* Requests of a session.                                                   *)

Seen(s, opened) == [sessions EXCEPT ![s] = [lastSeen |-> 0, openStreams |-> @.openStreams + opened]]
Contacted(s) == contact' = [contact EXCEPT ![s] = 0]

(* A second GET is refused by the transport, but counted until it closes.   *)
PlaceOf(method, s) ==
    CASE method = "POST" -> "post"
      [] method = "DELETE" -> "delete"
      [] method = "GET" -> IF \E r \in On(s) : req[r].place = "stream" THEN "conflict" ELSE "stream"

Known(r, in) ==
    /\ Listening /\ req[r] = Free /\ in.sid \in Table
    /\ sessions' = Seen(in.sid, IF in.method = "GET" THEN 1 ELSE 0)
    /\ req' = [req EXCEPT ![r] = Under(PlaceOf(in.method, in.sid), in.sid)]
    /\ Contacted(in.sid)
    /\ UNCHANGED <<pollerVars, transport, subs, active, phase, known, raced>>

(* An MCP request is answered; it may be a (un)subscription, after which    *)
(* the client reads the resource.                                           *)
PostAnswered(r) ==
    LET s == req[r].sid IN
    /\ Listening /\ req[r].place = "post" /\ req' = [req EXCEPT ![r] = Free]
    /\ \/ UNCHANGED <<subs, known>>
       \/ \E u \in Uris : /\ subs' = [subs EXCEPT ![s] = @ \union {u}]
                          /\ known' = [known EXCEPT ![s][u] = content[Default][u]]
       \/ \E u \in subs[s] : /\ subs' = [subs EXCEPT ![s] = @ \ {u}]
                             /\ known' = [known EXCEPT ![s][u] = None]
    /\ UNCHANGED <<pollerVars, transport, sessions, active, phase, contact, raced>>

DeleteAnswered(r) ==
    /\ Listening /\ req[r].place = "delete" /\ Closed({req[r].sid}) /\ req' = Without({req[r].sid})
    /\ UNCHANGED <<pollerVars, transport, active, phase, raced>>

ReleasedIfHeard(s, place) == IF place = "stream" THEN Seen(s, -1) ELSE sessions
Released(s, place) == Seen(s, -1)

(* The connection of a GET ends: refused, closed by the client, or dead.    *)
StreamCloses(r) ==
    LET s == req[r].sid IN
    /\ Listening /\ req[r].place \in {"stream", "conflict"}
    /\ sessions' = Released(s, req[r].place)
    /\ req' = [req EXCEPT ![r] = Free] /\ Contacted(s)
    /\ UNCHANGED <<pollerVars, transport, subs, active, phase, known, raced>>

-----------------------------------------------------------------------------
(* A request without a session: the capacity is checked first, the entry is *)
(* made when the transport has read the initialize request.                 *)

FullBeyond(S) == Cardinality(Table \ S) > MAX_SESSIONS
Full(S) == Cardinality(Table \ S) >= MAX_SESSIONS

Connecting(r) == {q \in Requests \ {r} : req[q].place = "connect"}
StillRaced(r, size) == raced /\ (Connecting(r) # {} \/ size > MAX_SESSIONS)

New(r, in) ==
    LET gone == IF Full({}) THEN {s \in Sids : Idle(s)} ELSE {} IN
    /\ Listening /\ req[r] = Free /\ in.sid = None /\ Closed(gone)
    /\ req' = [Without(gone) EXCEPT ![r] = IF Full(gone) THEN Free ELSE Under("connect", None)]
    /\ raced' = (raced \/ (Connecting(r) # {} /\ ~Full(gone)))
    /\ UNCHANGED <<pollerVars, transport, active, phase>>

onsessioninitialized(r, s) ==
    /\ Listening /\ req[r].place = "connect" /\ s \notin Table
    /\ sessions' = [sessions EXCEPT ![s] = [lastSeen |-> 0, openStreams |-> 0]]
    /\ req' = [req EXCEPT ![r] = Free] /\ Contacted(s)
    /\ raced' = StillRaced(r, Cardinality(Table) + 1)
    /\ UNCHANGED <<pollerVars, transport, subs, active, phase, known>>

(* Not an initialize request, or the handler failed.                        *)
NotInitialized(r) ==
    /\ Listening /\ req[r].place = "connect" /\ req' = [req EXCEPT ![r] = Free]
    /\ raced' = StillRaced(r, Cardinality(Table))
    /\ UNCHANGED <<pollerVars, transport, sessions, subs, active, phase, contact, known>>

-----------------------------------------------------------------------------
(* Subscriptions and the poller.  A notification over HTTP is dropped       *)
(* unless the session's stream is open.  Who gets one reads the resource.   *)

Hears(s) == IF transport = "stdio" THEN s = Stdio
            ELSE s \in Table /\ \E r \in On(s) : req[r].place = "stream"

Told(s, u) == Hears(s) /\ u \in subs[s] \intersect poll.changedUris

notifyChanged ==
    /\ phase # "exited" /\ Notified
    /\ known' = [s \in Sids |-> [u \in Uris |-> IF Told(s, u) THEN content[poll.session][u] ELSE known[s][u]]]
    /\ UNCHANGED <<transport, sessions, req, subs, active, phase, contact, raced>>

SessionOf == IF transport = "stdio" THEN active ELSE Default

PollStep ==
    /\ phase # "exited"
    /\ PollStarts(SessionOf) \/ Fetched(phase # "up") \/ FetchFails(phase # "up")
    /\ UNCHANGED sessionVars

StdioRequest ==
    /\ transport = "stdio" /\ phase # "exited"
    /\ \/ \E u \in Uris : subs' = [subs EXCEPT ![Stdio] = @ \union {u}] /\ UNCHANGED active
       \/ \E u \in Uris : subs' = [subs EXCEPT ![Stdio] = @ \ {u}] /\ UNCHANGED active
       \/ \E t \in Targets : active' = t /\ UNCHANGED subs
    /\ UNCHANGED <<pollerVars, transport, sessions, req, phase, contact, known, raced>>

(* Over HTTP only the default target is polled.                             *)
CcuStep ==
    /\ phase # "exited"
    /\ \E t \in IF transport = "stdio" THEN Targets ELSE {Default}, u \in Uris, c \in Contents : CcuChanges(t, u, c)
    /\ UNCHANGED sessionVars

-----------------------------------------------------------------------------
(* shutdown(): the poller and the listener stop, then caches are saved,     *)
(* targets logged out and transports closed, or ten seconds pass.           *)

HistoryEnds ==
    /\ contact' = [s \in Sids |-> 0] /\ known' = [s \in Sids |-> NoHashes] /\ raced' = FALSE

Shutdown ==
    /\ phase = "up" /\ phase' = "closing" /\ Stop /\ HistoryEnds
    /\ UNCHANGED <<transport, sessions, req, subs, active>>

TransportsClosed ==
    /\ phase = "closing" /\ phase' = "exited" /\ PollerGone
    /\ Closed(Table) /\ req' = [r \in Requests |-> Free]
    /\ UNCHANGED <<transport, active, raced>>

-----------------------------------------------------------------------------
(* Requests take at most MaxCall: every call of the CCU is bounded.         *)
Tick ==
    /\ Listening /\ \A r \in Requests : req[r].place \in {"post", "delete"} => req[r].age < MaxCall
    /\ \E s \in Table : sessions[s].lastSeen < Long
    /\ sessions' = [s \in Sids |-> IF s \in Table THEN [sessions[s] EXCEPT !.lastSeen = Longer(@)] ELSE None]
    /\ req' = [r \in Requests |-> IF req[r].place \in {"post", "delete"} THEN [req[r] EXCEPT !.age = @ + 1] ELSE req[r]]
    /\ contact' = [s \in Sids |-> IF Streams(s) # {} \/ s \notin Table THEN 0 ELSE Longer(contact[s])]
    /\ UNCHANGED <<pollerVars, transport, subs, active, phase, known, raced>>

-----------------------------------------------------------------------------
Arrives(r) == \E in \in Reaching : Known(r, in) \/ New(r, in)

Answered(r) ==
    \/ PostAnswered(r) \/ DeleteAnswered(r) \/ NotInitialized(r)
    \/ \E s \in Sids : onsessioninitialized(r, s)

Next ==
    \/ \E r \in Requests : Arrives(r) \/ Answered(r) \/ StreamCloses(r)
    \/ evictIdleSessions \/ Tick
    \/ PollStep \/ notifyChanged \/ StdioRequest \/ CcuStep
    \/ Shutdown \/ TransportsClosed

Spec == Init /\ [][Next]_vars

(* The event loop runs timers and the poller's continuations, time passes,  *)
(* and a request is answered.  Clients owe nothing.                         *)
FairSpec ==
    /\ Spec /\ SF_vars(Tick) /\ WF_vars(evictIdleSessions)
    /\ WF_vars(PollStep) /\ WF_vars(notifyChanged)
    /\ \A r \in Requests : WF_vars(Answered(r))

-----------------------------------------------------------------------------
SessionEntry == [lastSeen: 0 .. Long, openStreams: Int]
Request == [place: {"free", "connect", "post", "delete", "stream", "conflict"},
            sid: Sids \union {None}, age: 0 .. MaxCall]

TypeOK ==
    /\ PollerTypeOK /\ transport \in {"stdio", "http"} /\ phase \in {"up", "closing", "exited"}
    /\ sessions \in [Sids -> SessionEntry \union {None}] /\ req \in [Requests -> Request]
    /\ subs \in [Sids -> SUBSET Uris] /\ active \in Targets /\ raced \in BOOLEAN
    /\ contact \in [Sids -> 0 .. Long] /\ known \in [Sids -> [Uris -> Contents \union {None}]]

-----------------------------------------------------------------------------
(* What must hold.                                                          *)

(* A session is evicted only when its client has been away for the idle     *)
(* time: no stream is open, no request under way.                           *)
EvictedOnlyIdle ==
    [][\A s \in Sids : s \in Table /\ sessions'[s] = None /\ phase' = "up"
          /\ (\A r \in On(s) : req[r].place # "delete")
          => On(s) = {} /\ contact[s] > SESSION_IDLE]_vars

(* The map outgrows its limit only when initialize requests overlap: those  *)
(* that passed the check before any of them had made its entry.             *)
OverrunOnlyByRaces == Cardinality(Table) > MAX_SESSIONS /\ phase = "up" => raced

(* A session whose client is gone is reclaimed, however its streams ended.  *)
IdleIsReclaimed ==
    \A s \in Sids : s \in Table /\ On(s) = {} ~> s \notin Table \/ On(s) # {} \/ phase # "up"

(* A subscriber who had what the poller last saw, and keeps its stream      *)
(* open, gets to know a change.                                             *)
Behind(s, u) ==
    /\ transport = "http" /\ phase = "up" /\ Hears(s) /\ u \in subs[s]
    /\ known[s][u] = hashes[u] /\ content[Default][u] # hashes[u]

ChangesAreTold ==
    \A s \in Sids, u \in Uris :
        Behind(s, u) ~> \/ known[s][u] = content[Default][u]
                        \/ ~Hears(s) \/ u \notin subs[s] \/ phase # "up"

=============================================================================
