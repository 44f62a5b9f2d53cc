--------------------------- MODULE ResourcePoller ---------------------------
(***************************************************************************)
(* The poller of src/resources/poller.ts: cycle after cycle it reads the   *)
(* pollable lists of one target, compares their hashes with those of the   *)
(* cycle before, and reports the resources whose content changed.          *)
(*                                                                         *)
(* A content and its hash are the same value here.  How long the poller    *)
(* waits before a cycle, its backoff after failures included, is left out. *)
(* The actions say how the poller's state changes; HttpSessions composes   *)
(* them with those who are told.                                           *)
(***************************************************************************)
EXTENDS Naturals, Sequences, Functions

CONSTANTS
    Targets, Default,  \* the CCUs, the start-up default
    Pollable,          \* the sequence of resources that are polled
    None,
    MaxChanges,        \* bound on changes on the CCUs
    MaxFaults          \* bound on CCU calls that fail after their retries

Uris == Range(Pollable)

(* What a list may contain: at first each target has lists of its own.      *)
Contents == Targets

ASSUME PollerAssumption ==
    /\ Default \in Targets /\ None \notin Targets
    /\ Pollable \in Seq(Uris) /\ Pollable # <<>>
    /\ MaxChanges \in Nat /\ MaxFaults \in Nat

VARIABLES
    content,  \* target -> resource -> what the CCU has now
    changes, faults,
    hashes,   \* resource -> hash at the last poll, or None
    hashedSession,  \* the target the hashes are of, or None
    timer,    \* the poller was started and not stopped
    poll,     \* where the cycle is
    news      \* history: <<target, resource>> changed since last polled

pollerVars == <<content, changes, faults, hashes, hashedSession, timer, poll, news>>

Resting(place) == [place |-> place, session |-> None, todo |-> <<>>, changedUris |-> {}]
NoHashes == [u \in Uris |-> None]

PollerInit ==
    /\ content = [t \in Targets |-> [u \in Uris |-> t]] /\ changes = 0 /\ faults = 0
    /\ hashes = NoHashes /\ hashedSession = None /\ news = {}
    /\ timer = TRUE /\ poll = Resting("armed")

-----------------------------------------------------------------------------
(* A cycle.  The session is taken once, at its start.  acquire() refuses    *)
(* once the rate limiter is destroyed, so no further call is made then.     *)

ClearsNever(session) == hashes
ClearsAlways(session) == NoHashes
Baseline(session) == IF hashedSession = session THEN hashes ELSE NoHashes

PollStarts(session) ==
    /\ poll.place = "armed"
    /\ poll' = [Resting("call") EXCEPT !.session = session, !.todo = Pollable]
    /\ hashes' = Baseline(session) /\ hashedSession' = session
    /\ UNCHANGED <<content, changes, faults, timer, news>>

Rearms == IF timer THEN "armed" ELSE "off"

(* The next resource, the report, or the end of the cycle.                  *)
Onward(changed, destroyed) ==
    IF Len(poll.todo) > 1 /\ ~destroyed
    THEN [poll EXCEPT !.todo = Tail(@), !.changedUris = changed]
    ELSE IF changed # {} THEN [poll EXCEPT !.place = "notify", !.todo = <<>>, !.changedUris = changed]
    ELSE Resting(Rearms)

Changed(prev, hash) == prev # None /\ prev # hash

Fetched(destroyed) ==
    LET u == Head(poll.todo)  hash == content[poll.session][u] IN
    /\ poll.place = "call"
    /\ hashes' = [hashes EXCEPT ![u] = hash]
    /\ poll' = Onward(poll.changedUris \union (IF Changed(hashes[u], hash) THEN {u} ELSE {}), destroyed)
    /\ news' = news \ {<<poll.session, u>>}
    /\ UNCHANGED <<content, changes, faults, hashedSession, timer>>

FetchFails(destroyed) ==
    /\ poll.place = "call" /\ poll' = Onward(poll.changedUris, destroyed)
    /\ destroyed \/ faults < MaxFaults
    /\ faults' = IF destroyed THEN faults ELSE faults + 1
    /\ UNCHANGED <<content, changes, hashes, hashedSession, timer, news>>

(* notifyChanged() has been called and has settled.                         *)
Notified ==
    /\ poll.place = "notify" /\ poll' = Resting(Rearms)
    /\ UNCHANGED <<content, changes, faults, hashes, hashedSession, timer, news>>

Stop ==
    /\ timer' = FALSE
    /\ poll' = IF poll.place = "armed" THEN Resting("off") ELSE poll
    /\ UNCHANGED <<content, changes, faults, hashes, hashedSession, news>>

(* The process has ended.                                                   *)
PollerGone ==
    /\ timer' = FALSE /\ poll' = Resting("off") /\ hashes' = NoHashes /\ hashedSession' = None
    /\ news' = {} /\ UNCHANGED <<content, changes, faults>>

(* Somebody changes the data of a CCU.                                      *)
CcuChanges(t, u, c) ==
    /\ changes < MaxChanges /\ changes' = changes + 1
    /\ content[t][u] # c /\ content' = [content EXCEPT ![t][u] = c]
    /\ news' = news \union {<<t, u>>}
    /\ UNCHANGED <<faults, hashes, hashedSession, timer, poll>>

-----------------------------------------------------------------------------
PollerTypeOK ==
    /\ content \in [Targets -> [Uris -> Contents]]
    /\ changes \in 0 .. MaxChanges /\ faults \in 0 .. MaxFaults
    /\ hashes \in [Uris -> Contents \union {None}] /\ hashedSession \in Targets \union {None}
    /\ timer \in BOOLEAN /\ news \subseteq Targets \X Uris
    /\ poll \in [place: {"armed", "call", "notify", "off"}, session: Targets \union {None},
                 todo: Seq(Uris), changedUris: SUBSET Uris]

-----------------------------------------------------------------------------
(* What must hold.                                                          *)

(* A resource is reported only if its content changed since the poller      *)
(* last read it from the same target: a use_ccu switch reports nothing.     *)
NoSpuriousUpdate ==
    [][\A u \in poll'.changedUris \ poll.changedUris : <<poll.session, u>> \in news]_pollerVars

=============================================================================
