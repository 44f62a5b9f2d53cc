----------------------------- MODULE AuthTokens -----------------------------
(***************************************************************************)
(* auth/token.ts: the bearer tokens of the HTTP transport.  The token the  *)
(* server generates itself lives in a file, carries a lifetime, and is     *)
(* rotated while the server runs; the token it replaces stays valid for a  *)
(* grace period.                                                           *)
(*                                                                         *)
(* File operations take no time on the scale of the clock, but between two *)
(* of them the process can die and the data directory can change.          *)
(***************************************************************************)
EXTENDS Integers, FiniteSets

CONSTANTS
    Tokens,      \* random tokens; those nobody uses any more come again
    NoToken,     \* no token
    TTL,         \* ttlMs
    Grace,       \* graceMs
    Interval,    \* ROTATION_CHECK_INTERVAL_MS
    MaxTime,     \* bound on the clock
    MaxOutages,  \* bound on how often the data directory becomes unwritable
    MaxReads,    \* bound on failed reads of the file
    MaxEdits,    \* bound on what the operator does to the file
    MaxQuits     \* bound on the ends of the process

VARIABLES
    now,         \* Date.now()
    writable,    \* whether the data directory can be written
    file,        \* $CACHE_DIR/.env
    entries,     \* AuthTokens.entries, what verify() looks at
    pc,          \* where the process is, see Places
    due,         \* when the interval of startAutoRotation() fires next
    had,         \* hadPersisted of the tick in progress
    work,        \* what resolveAuthTokens() has decided
    kept,        \* whether persist() has found operator lines to keep
    promise,     \* history: until when clients may rely on a token
    sound,       \* history: nothing outside has gone wrong since the last check began
    outages, reads, edits, quits

disk == <<writable, file>>
counts == <<outages, reads, edits, quits>>
authVars == <<now, disk, entries, pc, due, had, work, kept, promise, sound, counts>>

ASSUME AuthAssumption ==
    /\ TTL \in Nat /\ Grace \in Nat /\ Interval \in Nat \ {0}
    /\ NoToken \notin Tokens
    /\ MaxTime \in Nat /\ MaxOutages \in Nat /\ MaxReads \in Nat
    /\ MaxEdits \in Nat /\ MaxQuits \in Nat

Never == -1
Times == 0 .. MaxTime
Ends == Never .. MaxTime + TTL + Grace

(* "down", "resolve" (start-up), "idle", "had" (the tick knows whether      *)
(* there was a file), "save" and "write" (persist()), "recheck".            *)
Places == {"down", "idle", "had", "save", "write", "recheck"}

(* The managed keys of the file, and whether the operator added lines.      *)
State == [token: Tokens \union {NoToken}, issued: Times \union {Never},
          previous: Tokens \union {NoToken}, until: Ends]
File == [state: State, operator: BOOLEAN]
Blank == [token |-> NoToken, issued |-> Never, previous |-> NoToken, until |-> Never]
NoFile == [state |-> Blank, operator |-> FALSE]

Decision == [state: State, before: State, boot: BOOLEAN,
             changed: BOOLEAN, minted: BOOLEAN, rotated: BOOLEAN]
NoDecision == [state |-> Blank, before |-> Blank, boot |-> FALSE,
               changed |-> FALSE, minted |-> FALSE, rotated |-> FALSE]

Entry == [token: Tokens, expires: Ends, graced: BOOLEAN]

Smaller(a, b) == IF a <= b THEN a ELSE b
Larger(a, b) == IF a <= b THEN b ELSE a

-----------------------------------------------------------------------------
(* The set of accepted tokens.                                              *)

LiveForGraced(e) == now <= e.expires \/ e.graced
Live(e) == now <= e.expires

(* verify()                                                                 *)
Accepted(t) == \E e \in entries : e.token = t /\ Live(e)

Named(es) == {e.token : e \in es}

ReplacedWhole(fresh) == fresh

(* replaceWith(): what was graced in memory survives to its own end.        *)
Replaced(fresh) ==
    fresh \union {e \in entries : e.graced /\ Live(e) /\ e.token \notin Named(fresh)}

(* adoptWithGrace()                                                         *)
Adopted(fresh) ==
    fresh \union {[e EXCEPT !.expires = Smaller(e.expires, now + Grace), !.graced = TRUE] :
                    e \in {x \in entries : Live(x) /\ x.token \notin Named(fresh)}}

EntriesOf(s) ==
    {[token |-> s.token, expires |-> s.issued + TTL, graced |-> FALSE]} \union
    IF s.previous = NoToken THEN {}
    ELSE {[token |-> s.previous, expires |-> s.until, graced |-> FALSE]}

-----------------------------------------------------------------------------
(* resolveAuthTokens()                                                      *)

OutgoingUntil(s) == Larger(now + Grace, s.issued + TTL)

ExpiringLate(s, lookahead) == now - s.issued > TTL
Expiring(s, lookahead) == now + lookahead - s.issued >= TTL

(* Timestamps are of the real clock, whatever the lookahead.                *)
Stamp(lookahead) == now

(* The state after lines 260-288, fresh being the token it would mint.      *)
Renewed(s, fresh, lookahead) ==
    IF s.token = NoToken
    THEN [Blank EXCEPT !.token = fresh, !.issued = Stamp(lookahead)]
    ELSE IF s.issued = Never
    THEN [s EXCEPT !.issued = Stamp(lookahead)]
    ELSE IF Expiring(s, lookahead)
    THEN [token |-> fresh, issued |-> Stamp(lookahead),
          previous |-> s.token, until |-> OutgoingUntil(s)]
    ELSE s

(* Once its grace is over, the previous token is dropped.                   *)
Pruned(s) ==
    IF s.previous # NoToken /\ s.until # Never /\ now > s.until
    THEN [s EXCEPT !.previous = NoToken, !.until = Never] ELSE s

Decided(s, fresh, lookahead, boot) ==
    LET next == Pruned(Renewed(s, fresh, lookahead)) IN
    [state |-> next, before |-> s, boot |-> boot, changed |-> next # s,
     minted |-> next.token # s.token,
     rotated |-> s.token # NoToken /\ next.token # s.token]

(* A token that nobody knows.                                               *)
Unused(t) ==
    /\ t \notin Named(entries) /\ promise[t] < now
    /\ t \notin {file.state.token, file.state.previous}

(* The managed keys as a read returns them; a read that fails looks like a  *)
(* file that is not there.                                                  *)
Read(result) ==
    \/ result = file /\ UNCHANGED reads
    \/ result = NoFile /\ file # NoFile /\ reads < MaxReads /\ reads' = reads + 1

AuthInit ==
    /\ now = 0 /\ writable = TRUE
    /\ entries = {} /\ pc = "down" /\ due = 0 /\ had = FALSE
    /\ work = NoDecision /\ kept = FALSE
    /\ promise = [t \in Tokens |-> Never] /\ sound = FALSE
    /\ \E t \in Tokens : file \in {NoFile, [state |-> [Blank EXCEPT !.token = t], operator |-> TRUE]}
    /\ outages = 0 /\ reads = 0 /\ edits = 0 /\ quits = 0

(* resolveAuthTokens() has its result, and its caller goes on: start-up     *)
(* builds the set and runs a tick at once; a tick swaps it in if there was  *)
(* a file before, and otherwise looks again.                                *)
Returns(d) ==
    /\ work' = d /\ kept' = FALSE
    /\ IF d.boot
       THEN entries' = EntriesOf(d.state) /\ pc' = "idle" /\ due' = now
       ELSE IF had
       THEN entries' = Replaced(EntriesOf(d.state)) /\ pc' = "idle" /\ UNCHANGED due
       ELSE pc' = "recheck" /\ UNCHANGED <<entries, due>>

(* What clients may rely on from the moment a decision takes effect: a new  *)
(* token for its lifetime, the one it replaces for the grace period and at  *)
(* least as long as before.                                                 *)
Promised(d) ==
    [t \in Tokens |->
        IF t = d.state.token /\ (d.minted \/ d.before.issued = Never) THEN now + TTL
        ELSE IF d.rotated /\ t = d.before.token THEN Larger(now + Grace, promise[t])
        ELSE promise[t]]

Resolves(lookahead, boot) ==
    \E r \in {file, NoFile} : \E fresh \in {t \in Tokens : Unused(t)} :
    LET d == Decided(r.state, fresh, lookahead, boot) IN
    /\ Read(r) /\ sound' = (sound /\ r = file)
    /\ IF d.changed
       THEN work' = d /\ pc' = "save" /\ UNCHANGED <<entries, due, kept, promise>>
       ELSE Returns(d) /\ promise' = Promised(d)
    /\ UNCHANGED <<now, disk, had, outages, edits, quits>>

Boot ==
    /\ pc = "down"
    /\ Resolves(0, TRUE)

Kept(r) == r.operator

(* persist(): the lines to preserve are read, the file is replaced.         *)
SaveRead ==
    /\ pc = "save" /\ pc' = "write"
    /\ \E r \in {file, NoFile} :
        Read(r) /\ kept' = Kept(r) /\ sound' = (sound /\ r = file)
    /\ UNCHANGED <<now, disk, entries, due, had, work, promise, outages, edits, quits>>

Saved ==
    /\ pc = "write" /\ writable
    /\ file' = [state |-> work.state, operator |-> kept]
    /\ promise' = Promised(work)
    /\ Returns(work)
    /\ UNCHANGED <<now, writable, had, sound, counts>>

NotUndone(d) == d

(* A rotation that cannot be saved does not take effect.                    *)
Undone(d) ==
    IF d.rotated THEN [d EXCEPT !.state = d.before, !.minted = FALSE, !.rotated = FALSE] ELSE d

(* A new token that could not be saved is announced by start-up only; the   *)
(* clock of a token without an age has started again.                       *)
SaveFails ==
    /\ pc = "write" /\ ~writable
    /\ promise' = IF work.boot \/ ~work.minted THEN Promised(Undone(work)) ELSE promise
    /\ Returns(Undone(work))
    /\ UNCHANGED <<now, disk, had, sound, counts>>

-----------------------------------------------------------------------------
(* startAutoRotation()                                                      *)

RotationTick ==
    /\ pc = "idle" /\ now = due
    /\ due' = now + Interval
    /\ pc' = "had"
    /\ \E r \in {file, NoFile} :
        Read(r) /\ had' = (r.state.token # NoToken) /\ sound' = (writable /\ r = file)
    /\ UNCHANGED <<now, disk, entries, work, kept, promise, outages, edits, quits>>

TickResolves ==
    /\ pc = "had"
    /\ Resolves(Interval, FALSE)

(* Persistence has recovered: what clients hold gets a grace period.        *)
Recheck ==
    /\ pc = "recheck" /\ pc' = "idle"
    /\ \E r \in {file, NoFile} :
        /\ Read(r) /\ sound' = (sound /\ r = file)
        /\ IF r.state.token # NoToken
           THEN /\ entries' = Adopted(EntriesOf(work.state))
                /\ promise' = [t \in Tokens |->
                      IF t \in Named(EntriesOf(work.state)) THEN promise[t]
                      ELSE Smaller(promise[t], now + Grace)]
           ELSE UNCHANGED <<entries, promise>>
    /\ UNCHANGED <<now, disk, due, had, work, kept, outages, edits, quits>>

-----------------------------------------------------------------------------
(* The surroundings.  The interval fires in time.                           *)

TimePasses ==
    /\ now < MaxTime /\ now' = now + 1
    /\ pc = "down" \/ (pc = "idle" /\ now < due)
    /\ UNCHANGED <<disk, entries, pc, due, had, work, kept, promise, sound, counts>>

DirectoryBreaks ==
    /\ writable /\ outages < MaxOutages
    /\ writable' = FALSE /\ outages' = outages + 1 /\ sound' = FALSE
    /\ UNCHANGED <<now, file, entries, pc, due, had, work, kept, promise, reads, edits, quits>>

DirectoryRepaired ==
    /\ ~writable /\ writable' = TRUE
    /\ UNCHANGED <<now, file, entries, pc, due, had, work, kept, promise, sound, counts>>

(* The operator adds a line, or deletes the file to force a rotation.       *)
OperatorEdits ==
    /\ edits < MaxEdits /\ edits' = edits + 1
    /\ file' \in {NoFile, [file EXCEPT !.operator = TRUE]} \ {file}
    /\ sound' = FALSE
    /\ UNCHANGED <<now, writable, entries, pc, due, had, work, kept, promise, outages, reads, quits>>

(* The process ends at any moment; only tokens in the file outlive it.      *)
Quit ==
    /\ pc # "down" /\ quits < MaxQuits /\ quits' = quits + 1
    /\ pc' = "down" /\ entries' = {} /\ due' = 0 /\ had' = FALSE
    /\ work' = NoDecision /\ kept' = FALSE
    /\ promise' = [t \in Tokens |->
          IF t \in {file.state.token, file.state.previous} THEN promise[t] ELSE Never]
    /\ sound' = writable
    /\ UNCHANGED <<now, disk, outages, reads, edits>>

AuthNext ==
    \/ Boot \/ SaveRead \/ Saved \/ SaveFails
    \/ RotationTick \/ TickResolves \/ Recheck
    \/ TimePasses \/ DirectoryBreaks \/ DirectoryRepaired \/ OperatorEdits \/ Quit

AuthSpec == AuthInit /\ [][AuthNext]_authVars

-----------------------------------------------------------------------------
AuthTypeOK ==
    /\ now \in Times /\ writable \in BOOLEAN /\ file \in File
    /\ entries \subseteq Entry
    /\ pc \in Places /\ due \in 0 .. MaxTime + Interval
    /\ had \in BOOLEAN /\ work \in Decision /\ kept \in BOOLEAN
    /\ promise \in [Tokens -> Ends] /\ sound \in BOOLEAN
    /\ outages \in 0 .. MaxOutages /\ reads \in 0 .. MaxReads
    /\ edits \in 0 .. MaxEdits /\ quits \in 0 .. MaxQuits

(* The just-replaced token stays valid for the grace period and no token is *)
(* cut off before its hard expiry, through rotations, outages of the data   *)
(* directory, recoveries and restarts; a failed read or an operator who     *)
(* deletes the file to force a rotation may cut it off, and so does a grace *)
(* longer than the lifetime less one interval: the file has one previous    *)
(* token.                                                                   *)
AnnouncedTokensWork ==
    entries # {} /\ pc # "recheck" =>
        \A t \in Tokens : now <= promise[t] => Accepted(t)

Undisturbed == reads = 0 /\ edits = 0
PromiseKept == Undisturbed => AnnouncedTokensWork

(* No token is accepted for longer than it was announced for, and none that *)
(* was not announced: through any outages of the data directory on their    *)
(* own, and through any failed reads and edits on their own.  (Together     *)
(* they break it: if the file is gone, or its read fails, only after the    *)
(* tick has found it, and then the write fails too, a token that is neither *)
(* saved nor announced takes the place of those accepted.)                  *)
OneKindOfFault == Undisturbed \/ outages = 0
NoOverstay == OneKindOfFault => \A t \in Tokens : Accepted(t) => now <= promise[t]

(* A client that reads the file gets in: there is no 401 window between the *)
(* hard expiry and the next check, as long as the data directory works.     *)
FileTokenWorks == pc = "idle" /\ sound => Accepted(file.state.token)

(* A rotation that cannot be saved does not take effect: while the server   *)
(* runs, a token that was not accepted becomes so only when it is in the    *)
(* file, where the operator finds it.  (A failed read and a failed write in *)
(* one tick together do let an unsaved token in.)                           *)
NoUnsavedRotation ==
    [][Undisturbed' /\ entries # {} /\ entries' # {} =>
        \A t \in Tokens : ~Accepted(t) /\ Accepted(t)' =>
            t \in {file'.state.token, file'.state.previous}]_authVars

(* The comment on resolveAuthTokens(): the just-replaced token stays valid  *)
(* for graceMs, so that no client is cut off; a failed read of the file is  *)
(* no exception there.                                                      *)
NobodyCutOff == edits = 0 => AnnouncedTokensWork

=============================================================================
