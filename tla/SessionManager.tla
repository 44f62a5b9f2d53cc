--------------------------- MODULE SessionManager ---------------------------
(***************************************************************************)
(* The CCU session of one target: src/src/ccu/session.ts.                  *)
(*                                                                         *)
(* The program is one event loop, so what interleaves is whatever is       *)
(* suspended at an `await`.  Each suspended activity is an actor:          *)
(*   - a caller is one tool call inside SessionManager.call();             *)
(*   - a flight is one run of doLogin(), the promise in loginPromise;      *)
(*   - a handle is one setTimeout of the renewal loop with its callback;   *)
(*   - Main is the process: start-up login, then the shutdown's logout().  *)
(* A request to the CCU is sent, then processed by the CCU, then answered: *)
(* three steps, because a reply can be overtaken by other requests.        *)
(***************************************************************************)
EXTENDS Naturals, FiniteSets

CONSTANTS
    Callers, Flights, Handles, Main,  \* the actors
    Sids,                             \* the ids the CCU can hand out
    None,
    Unprivileged,                     \* the callers whose method the CCU user may not call
    LOGIN_MAX_RETRIES,
    MaxFaults,     \* bound: requests of the manager itself lost in transit
    MaxRestarts    \* bound: crashes or exits followed by a new process

ASSUME ActorsAssumption ==
    /\ Callers \cap Flights = {} /\ Callers \cap Handles = {}
    /\ Flights \cap Handles = {}
    /\ Main \notin Callers \cup Flights \cup Handles
    /\ None \notin Callers \cup Flights \cup Handles \cup Sids \cup {Main}
    /\ Unprivileged \subseteq Callers

ASSUME BoundsAssumption ==
    /\ LOGIN_MAX_RETRIES \in Nat /\ MaxFaults \in Nat /\ MaxRestarts \in Nat

VARIABLES
    sessionId,      \* this.sessionId
    closed,         \* this.closed
    renewTimer,     \* this.renewTimer: the handle it refers to
    loginPromise,   \* this.loginPromise: the flight it refers to
    pc,             \* where each actor is suspended
    awaits,         \* the flight whose promise an actor awaits
    wire,           \* the request each actor has outstanding
    attempt,        \* the loop counter of doLogin()
    used,           \* the session id a caller's request carried
    execs,          \* how often the CCU ran the caller's current call
    file,           \* the persisted session (session.json)
    cred,           \* which credentials this process was configured with
    live, minted,   \* CCU: the valid sessions, the sessions ever created
    credOf,         \* CCU: the credentials each session was created with
    faults, restarts

ccuVars == <<live, minted, credOf>>
callVars == <<used, execs>>
vars == <<sessionId, closed, renewTimer, loginPromise, pc, awaits, wire,
          attempt, callVars, file, cred, ccuVars, faults, restarts>>

Actors == Callers \cup Flights \cup Handles \cup {Main}
Returned == {"idle", "ok", "denied", "failed"}
NoFile == [sid |-> None, cred |-> 0]
Quiet == [op |-> "none", sid |-> None, rep |-> "none"]
Request(op, s) == [op |-> op, sid |-> s, rep |-> "none"]

----------------------------------------------------------------------------
(* The shape of the state.  *)

CallerPcs == {"lazy", "call", "relogin", "retry"} \cup Returned
FlightPcs == {"idle", "renew", "read", "restore", "login", "sleep", "persist"}
HandlePcs == {"idle", "armed", "renew", "relogin"}
MainPcs == {"boot", "starting", "up", "await", "logout", "unlink", "out", "gone"}
Wires == [op : {"none", "call", "renew", "login", "logout"},
          sid : Sids \cup {None},
          rep : {"none", "ok", "auth", "busy", "fault"}]

TypeOK ==
    /\ sessionId \in Sids \cup {None}
    /\ closed \in BOOLEAN
    /\ renewTimer \in Handles \cup {None}
    /\ loginPromise \in Flights \cup {None}
    /\ pc \in [Actors -> CallerPcs \cup FlightPcs \cup HandlePcs \cup MainPcs]
    /\ \A c \in Callers : pc[c] \in CallerPcs
    /\ \A f \in Flights : pc[f] \in FlightPcs
    /\ \A h \in Handles : pc[h] \in HandlePcs
    /\ pc[Main] \in MainPcs
    /\ awaits \in [Actors -> Flights \cup {None}]
    /\ wire \in [Actors -> Wires]
    /\ attempt \in 0 .. LOGIN_MAX_RETRIES
    /\ used \in [Callers -> Sids \cup {None}]
    /\ execs \in [Callers -> Nat]
    /\ file \in [sid : Sids \cup {None}, cred : Nat]
    /\ cred \in Nat
    /\ live \in SUBSET Sids /\ minted \in SUBSET Sids
    /\ credOf \in [Sids -> Nat]
    /\ faults \in 0 .. MaxFaults /\ restarts \in 0 .. MaxRestarts

\* Nothing of the process has run: every actor is where a new process has it.
FreshPc == [a \in Actors |-> IF a = Main THEN "boot" ELSE "idle"]

Init ==
    /\ sessionId = None /\ closed = FALSE
    /\ renewTimer = None /\ loginPromise = None
    /\ pc = FreshPc
    /\ awaits = [a \in Actors |-> None]
    /\ wire = [a \in Actors |-> Quiet]
    /\ attempt = 0
    /\ used = [c \in Callers |-> None]
    /\ execs = [c \in Callers |-> 0]
    /\ file = NoFile /\ cred = 0
    /\ live = {} /\ minted = {} /\ credOf = [s \in Sids |-> 0]
    /\ faults = 0 /\ restarts = 0

\* An actor's request is answered, or its timeout has fired.
AnsweredWithoutTimeout(a) == wire[a].rep \notin {"none", "fault"}
Settled(a) == wire[a].rep # "none"

----------------------------------------------------------------------------
(* login(): join the flight in progress, or start one.  A flight starts with *)
(* the in-memory session if there is one, else with the persisted one.       *)

NeverJoins == FALSE
Joins == loginPromise # None
Barred == closed
OpensWithFile == "read"
Opening == IF sessionId = None THEN "read" ELSE "renew"

Rejected(a) == IF a \in Callers THEN "failed" ELSE "idle"

Login(a, waiting) ==
    /\ \/ /\ Joins
          /\ pc' = [pc EXCEPT ![a] = waiting]
          /\ awaits' = [awaits EXCEPT ![a] = loginPromise]
          /\ wire' = [wire EXCEPT ![a] = Quiet]
          /\ UNCHANGED loginPromise
       \/ /\ ~Joins /\ ~Barred
          /\ \E f \in Flights :
                /\ pc[f] = "idle"
                /\ loginPromise' = f
                /\ pc' = [pc EXCEPT ![a] = waiting, ![f] = Opening]
                /\ awaits' = [awaits EXCEPT ![a] = f]
                /\ wire' = [wire EXCEPT ![a] = Quiet,
                                        ![f] = IF Opening = "read" THEN Quiet
                                               ELSE Request("renew", sessionId)]
       \/ /\ ~Joins /\ Barred
          /\ pc' = [pc EXCEPT ![a] = Rejected(a)]
          /\ wire' = [wire EXCEPT ![a] = Quiet]
          /\ UNCHANGED <<loginPromise, awaits>>
    /\ UNCHANGED <<sessionId, closed, renewTimer, attempt>>

\* The test in scheduleRenewal(): is handle h, of the timeout that fired, still
\* the active one, t?
RearmsWhileAny(h, t) == ~closed /\ t # None
Rearms(h, t) == ~closed /\ t = h

(* What an actor does when the flight it awaits has settled: `ok` says how,  *)
(* s and t are sessionId and renewTimer by then.  No other callback runs     *)
(* between the settling and these continuations.                             *)
Continuation(a, ok, s, t) ==
    CASE a \in Callers /\ ~ok -> "failed"
      [] a \in Callers /\ ok /\ pc[a] = "lazy" -> "call"
      [] a \in Callers /\ ok /\ pc[a] # "lazy" -> IF s = used[a] THEN "denied" ELSE "retry"
      [] a \in Handles -> IF Rearms(a, t) THEN "armed" ELSE "idle"
      [] OTHER -> IF pc[a] = "starting" THEN "up"
                  ELSE IF s # None THEN "logout" ELSE "out"

RequestOf(p, s) == CASE p \in {"call", "retry"} -> Request("call", s)
                     [] p = "logout" -> Request("logout", s)
                     [] OTHER -> Quiet

\* Flight f settles, leaving s in sessionId and t in renewTimer, with the
\* handles as p has them; a logout() that waited for it stops the renewal again.
Settle(f, ok, s, t, p) ==
    LET stopping == awaits[Main] = f /\ pc[Main] = "await"
        disarmed(a) == stopping /\ a = t /\ p[a] = "armed"
    IN /\ sessionId' = s
       /\ renewTimer' = IF stopping THEN None ELSE t
       /\ loginPromise' = None
       /\ pc' = [a \in Actors |->
                    IF awaits[a] = f THEN Continuation(a, ok, s, t)
                    ELSE IF a = f \/ disarmed(a) THEN "idle" ELSE p[a]]
       /\ wire' = [a \in Actors |->
                    IF awaits[a] = f THEN RequestOf(Continuation(a, ok, s, t), s)
                    ELSE IF a = f THEN Quiet ELSE wire[a]]
       /\ used' = [c \in Callers |->
                    IF awaits[c] # f THEN used[c]
                    ELSE IF Continuation(c, ok, s, t) \in {"call", "retry"} THEN s
                    ELSE None]
       /\ awaits' = [a \in Actors |-> IF awaits[a] = f THEN None ELSE awaits[a]]

\* stopRenewal() and scheduleRenewal() on the handles; h is the new timeout.
\* clearTimeout() has no effect on a callback that already runs.
Stopped(p) == [a \in Actors |-> IF a = renewTimer /\ p[a] = "armed" THEN "idle" ELSE p[a]]
FreeHandles == {h \in Handles : pc[h] = "idle" \/ (h = renewTimer /\ pc[h] = "armed")}
NotRescheduled(h) == Stopped(pc)
Rescheduled(h) == [Stopped(pc) EXCEPT ![h] = "armed"]

----------------------------------------------------------------------------
(* doLogin()                                                                 *)

\* The head of the retry loop: a closed manager logs nothing in.
TryLogin(f, n) ==
    \/ /\ closed
       /\ Settle(f, FALSE, sessionId, renewTimer, pc)
       /\ UNCHANGED <<closed, attempt, execs, file, cred, ccuVars, faults, restarts>>
    \/ /\ ~closed
       /\ pc' = [pc EXCEPT ![f] = "login"]
       /\ wire' = [wire EXCEPT ![f] = Request("login", None)]
       /\ attempt' = n
       /\ UNCHANGED <<sessionId, closed, renewTimer, loginPromise, awaits, used, execs,
                      file, cred, ccuVars, faults, restarts>>

\* The in-memory session was renewed, or is dead and the file is read next.
RenewAnswered(f) ==
    /\ pc[f] = "renew" /\ Settled(f)
    /\ \/ /\ wire[f].rep = "ok"
          /\ Settle(f, TRUE, sessionId, renewTimer, pc)
       \/ /\ wire[f].rep # "ok"
          /\ sessionId' = None
          /\ pc' = [pc EXCEPT ![f] = "read"]
          /\ wire' = [wire EXCEPT ![f] = Quiet]
          /\ UNCHANGED <<renewTimer, loginPromise, awaits, used>>
    /\ UNCHANGED <<closed, attempt, execs, file, cred, ccuVars, faults, restarts>>

\* tryRestoreSession() accepts the file only for the credentials that wrote it.
AnyFileRestorable == file # NoFile
Restorable == file # NoFile /\ file.cred = cred

ReadFile(f) ==
    /\ pc[f] = "read"
    /\ \/ /\ Restorable
          /\ pc' = [pc EXCEPT ![f] = "restore"]
          /\ wire' = [wire EXCEPT ![f] = Request("renew", file.sid)]
          /\ UNCHANGED <<sessionId, closed, renewTimer, loginPromise, awaits, attempt,
                         callVars, file, cred, ccuVars, faults, restarts>>
       \/ ~Restorable /\ TryLogin(f, 0)

RestoreAnswered(f) ==
    /\ pc[f] = "restore" /\ Settled(f)
    /\ \/ /\ wire[f].rep = "ok"
          /\ \E h \in FreeHandles : Settle(f, TRUE, wire[f].sid, h, Rescheduled(h))
          /\ UNCHANGED <<closed, attempt, execs, file, cred, ccuVars, faults, restarts>>
       \/ wire[f].rep # "ok" /\ TryLogin(f, 0)

RetriesLeft == attempt < LOGIN_MAX_RETRIES

\* Session.login: the renewal starts at once, the file is written after it.
\* "busy" is the CCU's "too many sessions", which is also what it says to a
\* wrong password.
LoginAnswered(f) ==
    /\ pc[f] = "login" /\ Settled(f)
    /\ \/ /\ wire[f].rep = "ok"
          /\ sessionId' = wire[f].sid
          /\ \E h \in FreeHandles :
                /\ renewTimer' = h
                /\ pc' = [Rescheduled(h) EXCEPT ![f] = "persist"]
          /\ wire' = [wire EXCEPT ![f] = Quiet]
          /\ UNCHANGED <<loginPromise, awaits, used>>
       \/ /\ wire[f].rep = "busy" /\ RetriesLeft
          /\ pc' = [pc EXCEPT ![f] = "sleep"]
          /\ wire' = [wire EXCEPT ![f] = Quiet]
          /\ UNCHANGED <<sessionId, renewTimer, loginPromise, awaits, used>>
       \/ /\ \/ wire[f].rep = "busy" /\ ~RetriesLeft
             \/ wire[f].rep \notin {"ok", "busy"}
          /\ Settle(f, FALSE, sessionId, renewTimer, pc)
    /\ UNCHANGED <<closed, attempt, execs, file, cred, ccuVars, faults, restarts>>

WakeUncounted(f) == pc[f] = "sleep" /\ TryLogin(f, attempt)
Wake(f) == pc[f] = "sleep" /\ TryLogin(f, attempt + 1)

\* persistSession() is best effort; tmp file and rename make it atomic.
Persist(f) ==
    /\ pc[f] = "persist"
    /\ file' \in {[sid |-> sessionId, cred |-> cred], file}
    /\ Settle(f, TRUE, sessionId, renewTimer, pc)
    /\ UNCHANGED <<closed, attempt, execs, cred, ccuVars, faults, restarts>>

----------------------------------------------------------------------------
(* call(): a tool call, from its start to its second and last attempt.       *)

Call(c) ==
    /\ pc[c] \in Returned
    /\ pc[Main] \notin {"boot", "starting"}
    /\ execs' = [execs EXCEPT ![c] = 0]
    /\ \/ /\ sessionId # None
          /\ pc' = [pc EXCEPT ![c] = "call"]
          /\ wire' = [wire EXCEPT ![c] = Request("call", sessionId)]
          /\ used' = [used EXCEPT ![c] = sessionId]
          /\ UNCHANGED <<sessionId, closed, renewTimer, loginPromise, awaits, attempt>>
       \/ sessionId = None /\ Login(c, "lazy") /\ UNCHANGED used
    /\ UNCHANGED <<file, cred, ccuVars, faults, restarts>>

Return(c, outcome) ==
    /\ pc' = [pc EXCEPT ![c] = outcome]
    /\ wire' = [wire EXCEPT ![c] = Quiet]
    /\ used' = [used EXCEPT ![c] = None]
    /\ UNCHANGED <<sessionId, closed, renewTimer, loginPromise, awaits, attempt>>

ReloginsOnAnyError(c) == wire[c].rep # "ok"
Relogins(c) == wire[c].rep = "auth"

\* The id to compare with after the re-login is the one the request carried.
SessionAtCatch(c) == sessionId
UsedSid(c) == wire[c].sid

\* Only an AUTH error leads to a second attempt, and only after a login().
CallAnswered(c) ==
    /\ pc[c] = "call" /\ Settled(c)
    /\ \/ wire[c].rep = "ok" /\ Return(c, "ok")
       \/ wire[c].rep # "ok" /\ ~Relogins(c) /\ Return(c, "failed")
       \/ Relogins(c) /\ Login(c, "relogin") /\ used' = [used EXCEPT ![c] = UsedSid(c)]
    /\ UNCHANGED <<execs, file, cred, ccuVars, faults, restarts>>

RetryAnswered(c) ==
    /\ pc[c] = "retry" /\ Settled(c)
    /\ Return(c, IF wire[c].rep = "ok" THEN "ok" ELSE "failed")
    /\ UNCHANGED <<execs, file, cred, ccuVars, faults, restarts>>

----------------------------------------------------------------------------
(* The renewal loop.  The callback of a handle that fires with no session    *)
(* re-arms at once, a step that changes nothing.  Bound: the callbacks in    *)
(* progress leave one handle for the next setTimeout.                        *)

RenewalFires(h) ==
    /\ pc[h] = "armed" /\ sessionId # None
    /\ \E k \in Handles : pc[k] = "idle"
    /\ pc' = [pc EXCEPT ![h] = "renew"]
    /\ wire' = [wire EXCEPT ![h] = Request("renew", sessionId)]
    /\ UNCHANGED <<sessionId, closed, renewTimer, loginPromise, awaits, attempt,
                   callVars, file, cred, ccuVars, faults, restarts>>

RenewalAnswered(h) ==
    /\ pc[h] = "renew" /\ Settled(h)
    /\ \/ /\ wire[h].rep = "ok"
          /\ pc' = [pc EXCEPT ![h] = IF Rearms(h, renewTimer) THEN "armed" ELSE "idle"]
          /\ wire' = [wire EXCEPT ![h] = Quiet]
          /\ UNCHANGED <<sessionId, closed, renewTimer, loginPromise, awaits, attempt>>
       \/ wire[h].rep # "ok" /\ Login(h, "relogin")
    /\ UNCHANGED <<callVars, file, cred, ccuVars, faults, restarts>>

----------------------------------------------------------------------------
(* The process: start-up, then shutdown's logoutAll() and destroyAll().      *)

\* The default target logs in before the server serves; the others do not.
Boot ==
    /\ pc[Main] = "boot"
    /\ \/ Login(Main, "starting")
       \/ /\ pc' = [pc EXCEPT ![Main] = "up"]
          /\ UNCHANGED <<sessionId, closed, renewTimer, loginPromise, awaits, wire, attempt>>
    /\ UNCHANGED <<callVars, file, cred, ccuVars, faults, restarts>>

\* logout() lets a login in flight settle first.
AwaitsNothing == FALSE
AwaitsLogin == loginPromise # None

Logout ==
    /\ pc[Main] = "up"
    /\ closed' = TRUE /\ renewTimer' = None
    /\ LET at(p) == [Stopped(pc) EXCEPT ![Main] = p]
       IN \/ /\ AwaitsLogin
             /\ pc' = at("await")
             /\ awaits' = [awaits EXCEPT ![Main] = loginPromise]
             /\ UNCHANGED wire
          \/ /\ ~AwaitsLogin /\ sessionId # None
             /\ pc' = at("logout")
             /\ wire' = [wire EXCEPT ![Main] = Request("logout", sessionId)]
             /\ UNCHANGED awaits
          \/ /\ ~AwaitsLogin /\ sessionId = None
             /\ pc' = at("out")
             /\ UNCHANGED <<awaits, wire>>
    /\ UNCHANGED <<sessionId, loginPromise, attempt, callVars, file, cred, ccuVars,
                   faults, restarts>>

LogoutAnswered ==
    /\ pc[Main] = "logout" /\ Settled(Main)
    /\ sessionId' = None
    /\ pc' = [pc EXCEPT ![Main] = "unlink"]
    /\ wire' = [wire EXCEPT ![Main] = Quiet]
    /\ UNCHANGED <<closed, renewTimer, loginPromise, awaits, attempt, callVars, file, cred,
                   ccuVars, faults, restarts>>

ClearPersisted ==
    /\ pc[Main] = "unlink"
    /\ pc' = [pc EXCEPT ![Main] = "out"]
    /\ file' \in {NoFile, file}
    /\ UNCHANGED <<sessionId, closed, renewTimer, loginPromise, awaits, wire, attempt,
                   callVars, cred, ccuVars, faults, restarts>>

Destroy ==
    /\ pc[Main] = "out"
    /\ closed' = TRUE /\ renewTimer' = None
    /\ pc' = [Stopped(pc) EXCEPT ![Main] = "gone"]
    /\ UNCHANGED <<sessionId, loginPromise, awaits, wire, attempt, callVars, file, cred,
                   ccuVars, faults, restarts>>

----------------------------------------------------------------------------
(* The CCU and the wire, as the code in session.ts takes them to be.         *)

Pending(a) == wire[a].op # "none" /\ wire[a].rep = "none"
Answered(a, rep) == wire' = [wire EXCEPT ![a].rep = rep]
Reply(a, rep) == Answered(a, rep) \/ (a \in Callers /\ Answered(a, "fault"))

\* A tool call: 400 for a dead session and for a missing privilege alike.  Its
\* reply may be lost at no cost to the bound: the manager does not act on that.
ProcessCall(c) ==
    /\ wire[c].op = "call"
    /\ IF wire[c].sid \in live /\ c \notin Unprivileged
       THEN Reply(c, "ok") /\ execs' = [execs EXCEPT ![c] = @ + 1]
       ELSE Reply(c, "auth") /\ UNCHANGED execs
    /\ UNCHANGED <<ccuVars, faults>>

ProcessRenew(a) ==
    /\ wire[a].op = "renew"
    /\ Answered(a, IF wire[a].sid \in live THEN "ok" ELSE "auth")
    /\ UNCHANGED <<execs, ccuVars, faults>>

Mint(s) ==
    /\ s \notin minted
    /\ minted' = minted \cup {s} /\ live' = live \cup {s}
    /\ credOf' = [credOf EXCEPT ![s] = cred]

ProcessLogin(f) ==
    /\ wire[f].op = "login"
    /\ \/ \E s \in Sids : Mint(s) /\ wire' = [wire EXCEPT ![f].rep = "ok", ![f].sid = s]
       \/ Answered(f, "busy") /\ UNCHANGED ccuVars
    /\ UNCHANGED <<execs, faults>>

ProcessLogout ==
    /\ wire[Main].op = "logout"
    /\ live' = live \ {wire[Main].sid}
    /\ Answered(Main, "ok")
    /\ UNCHANGED <<execs, minted, credOf, faults>>

\* A request of the manager times out: before the CCU saw it, or after it acted.
Lose(a) ==
    /\ wire[a].op \in {"renew", "login", "logout"}
    /\ faults < MaxFaults /\ faults' = faults + 1
    /\ Answered(a, "fault")
    /\ \/ UNCHANGED ccuVars
       \/ wire[a].op = "login" /\ \E s \in Sids : Mint(s)
       \/ wire[a].op = "logout" /\ live' = live \ {wire[a].sid} /\ UNCHANGED <<minted, credOf>>
    /\ UNCHANGED execs

CcuStep(a) ==
    /\ Pending(a)
    /\ \/ a \in Callers /\ ProcessCall(a)
       \/ ProcessRenew(a)
       \/ a \in Flights /\ ProcessLogin(a)
       \/ a = Main /\ ProcessLogout
       \/ Lose(a)
    /\ UNCHANGED <<sessionId, closed, renewTimer, loginPromise, pc, awaits, attempt, used,
                   file, cred, restarts>>

\* A session ends on the CCU: idle too long, or logged out by someone else.
Expire(s) ==
    /\ s \in live
    /\ live' = live \ {s}
    /\ UNCHANGED <<sessionId, closed, renewTimer, loginPromise, pc, awaits, wire, attempt,
                   callVars, file, cred, minted, credOf, faults, restarts>>

\* The process is killed or exits (shutdown forces that after 10 s), and a new
\* one starts, perhaps with other credentials in its configuration.
Restart ==
    /\ restarts < MaxRestarts /\ restarts' = restarts + 1
    /\ sessionId' = None /\ closed' = FALSE
    /\ renewTimer' = None /\ loginPromise' = None
    /\ pc' = FreshPc
    /\ awaits' = [a \in Actors |-> None]
    /\ wire' = [a \in Actors |-> Quiet]
    /\ attempt' = 0
    /\ used' = [c \in Callers |-> None]
    /\ execs' = [c \in Callers |-> 0]
    /\ cred' \in {cred, cred + 1}
    /\ UNCHANGED <<file, ccuVars, faults>>

FlightStep(f) ==
    \/ RenewAnswered(f) \/ ReadFile(f) \/ RestoreAnswered(f)
    \/ LoginAnswered(f) \/ Wake(f) \/ Persist(f)
CallerStep(c) == CallAnswered(c) \/ RetryAnswered(c)
HandleStep(h) == RenewalAnswered(h)
MainStep == LogoutAnswered \/ ClearPersisted \/ Destroy

Next ==
    \/ \E f \in Flights : FlightStep(f)
    \/ \E c \in Callers : Call(c) \/ CallerStep(c)
    \/ \E h \in Handles : RenewalFires(h) \/ HandleStep(h)
    \/ Boot \/ Logout \/ MainStep
    \/ \E a \in Actors : CcuStep(a)
    \/ \E s \in Sids : Expire(s)
    \/ Restart

Spec == Init /\ [][Next]_vars

\* Every request is answered or times out (CcuClient arms a timeout on each),
\* and the event loop runs whatever continuation is due.
Fairness ==
    /\ \A a \in Actors : WF_vars(CcuStep(a))
    /\ \A f \in Flights : WF_vars(FlightStep(f))
    /\ \A c \in Callers : WF_vars(CallerStep(c))
    /\ \A h \in Handles : WF_vars(HandleStep(h))
    /\ WF_vars(MainStep)

FairSpec == Spec /\ Fairness

----------------------------------------------------------------------------
(* What must hold.                                                           *)

\* login() is single-flight: concurrent callers and the renewal timer share
\* one doLogin() instead of stampeding Session.login.
SingleFlight == \A f, g \in Flights : pc[f] # "idle" /\ pc[g] # "idle" => f = g

\* The sessions that are valid on the CCU and that nothing will ever log out:
\* not the one in memory, nor the one a login reply carries to it.
Held == {sessionId} \cup {wire[f].sid : f \in {g \in Flights : pc[g] = "login"}}
Orphans == live \ Held

\* Each session lost on the CCU is paid for by a lost request or a dead
\* process: no order of expiries, privilege denials, renewals and concurrent
\* re-logins leaks one, so the manager does not drive the CCU into its limit.
LeaksOnlyByFaults == Cardinality(Orphans) <= faults + restarts

\* "Exactly one renewal timer survives a relogin": no timeout is armed but
\* the one stopRenewal() can reach.
OneRenewalTimer == \A h \in Handles : pc[h] = "armed" => h = renewTimer

\* A manager with a session keeps it alive: its loop has a timeout armed or
\* its callback running, and that callback will re-arm.
RenewalAlive ==
    sessionId # None /\ ~closed =>
        renewTimer # None /\ pc[renewTimer] \in {"armed", "renew", "relogin"}

\* After logout() has returned there is no session, no timer and no login in
\* flight, whatever was in flight when it was called.
LoggedOut ==
    pc[Main] \in {"out", "gone"} =>
        /\ sessionId = None /\ renewTimer = None
        /\ \A f \in Flights : pc[f] = "idle"
        /\ \A h \in Handles : pc[h] # "armed"

\* The re-login's second attempt repeats nothing the CCU has already done: a
\* call runs at most once, exactly once if it succeeded, never if denied.
RunsAtMostOnce ==
    \A c \in Callers :
        /\ execs[c] <= 1
        /\ pc[c] = "ok" => execs[c] = 1
        /\ pc[c] \in {"denied", "relogin", "lazy"} => execs[c] = 0

\* A session made with other credentials is never taken back from the file.
SessionOfTheseCredentials == sessionId # None => credOf[sessionId] = cred

\* A running login keeps the ids it works on consistent: the renewal it sent
\* is for the session in memory, and a restore or a fresh login has none.
LoginOwnsSession ==
    \A f \in Flights :
        /\ pc[f] = "renew" => sessionId # None /\ wire[f].sid = sessionId
        /\ pc[f] \in {"read", "restore", "login", "sleep"} => sessionId = None
        /\ pc[f] = "persist" => sessionId # None

\* A closed manager arms no timer and creates no session once logout() is
\* past the login it waited for.
ClosedStaysClosed ==
    [][pc[Main] \in {"logout", "unlink", "out", "gone"} /\ restarts' = restarts =>
          /\ minted' = minted
          /\ \A h \in Handles : pc'[h] = "armed" => pc[h] = "armed"]_vars

\* "Access denied: the CCU user lacks the required privilege" is said to a call
\* only if it is so, whoever logs in again in between; or if the session has
\* ended while a renewal that the call then joined was already confirmed.
DenialsAreTrue ==
    [][\A c \in Callers :
          pc[c] # "denied" /\ pc'[c] = "denied" => c \in Unprivileged \/ sessionId' \notin live]_vars

\* Every tool call returns, whatever fails under it.
CallsReturn == \A c \in Callers : pc[c] \notin Returned ~> pc[c] \in Returned

\* logout() returns, whatever login it found in flight.
LogoutReturns == closed ~> pc[Main] \in {"out", "gone", "boot"}

----------------------------------------------------------------------------
(* Why it holds: what makes the properties above inductive.                  *)

\* loginPromise refers to the one flight under way, and to nothing else.
PromiseIsFlight == \A f \in Flights : pc[f] # "idle" <=> f = loginPromise

\* Whoever is suspended at `await this.loginPromise` awaits that flight.
WaitersAwaitIt ==
    \A a \in Actors :
        /\ awaits[a] # None => awaits[a] = loginPromise
        /\ awaits[a] # None <=> \/ a \in Callers /\ pc[a] \in {"lazy", "relogin"}
                                \/ a \in Handles /\ pc[a] = "relogin"
                                \/ a = Main /\ pc[a] \in {"starting", "await"}

\* A flight's request is the one its place in doLogin() calls for, and a
\* successful reply to it carries a session id.
FlightRequests ==
    \A a \in Actors :
        /\ wire[a].op = "login" => a \in Flights /\ pc[a] = "login"
        /\ a \in Flights /\ pc[a] = "renew" => wire[a].sid = sessionId
        /\ a \in Flights /\ pc[a] = "restore" => wire[a].sid # None
        /\ a \in Flights /\ pc[a] = "login" /\ wire[a].rep = "ok" => wire[a].sid # None
        /\ a \in Flights /\ pc[a] = "sleep" => attempt < LOGIN_MAX_RETRIES

\* The process closes the manager before it logs out, and once the login that
\* logout() waited for has settled, none follows.
Shutdown ==
    /\ closed <=> pc[Main] \in {"await", "logout", "unlink", "out", "gone"}
    /\ pc[Main] \in {"logout", "unlink", "out", "gone"} =>
          loginPromise = None /\ renewTimer = None
    /\ pc[Main] \in {"unlink", "out", "gone"} => sessionId = None

TimerKept ==
    /\ sessionId # None /\ ~closed => renewTimer # None
    /\ renewTimer # None /\ ~closed => pc[renewTimer] # "idle"

SessionInv ==
    /\ TypeOK /\ PromiseIsFlight /\ WaitersAwaitIt /\ FlightRequests
    /\ LoginOwnsSession /\ Shutdown /\ TimerKept /\ OneRenewalTimer
    /\ (file.sid = None => file = NoFile)

=============================================================================
