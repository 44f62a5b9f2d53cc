------------------------- MODULE SessionManagerProofs -------------------------
(***************************************************************************)
(* Theorems about SessionManager, for any number of callers, timers,       *)
(* session ids, lost requests and restarts.  SessionInv is inductive; most *)
(* safety properties are read off it.  Three need a second invariant on    *)
(* top of it: RunsInv, CredInv and LeakInv, at the end of the module.      *)
(***************************************************************************)
EXTENDS SessionManager, FiniteSetTheorems, TLAPS

USE ActorsAssumption, BoundsAssumption
USE DEF Joins, Barred, Opening, Rearms, RetriesLeft, Relogins, AwaitsLogin, Settled

----------------------------------------------------------------------------
(* What a continuation does.                                                 *)

LEMMA ContinuationType ==
    ASSUME NEW a \in Actors, NEW ok, NEW s, NEW t
    PROVE  /\ a \in Callers => Continuation(a, ok, s, t) \in {"failed", "call", "denied", "retry"}
           /\ a \in Handles => /\ Continuation(a, ok, s, t) \in {"armed", "idle"}
                               /\ Continuation(a, ok, s, t) = "armed" <=> ~closed /\ t = a
           /\ a = Main => /\ pc[a] = "starting" => Continuation(a, ok, s, t) = "up"
                          /\ pc[a] # "starting" =>
                                Continuation(a, ok, s, t) = IF s # None THEN "logout" ELSE "out"
<1>1. ASSUME a \in Callers
      PROVE  Continuation(a, ok, s, t) \in {"failed", "call", "denied", "retry"}
  BY <1>1 DEF Continuation
<1>2. ASSUME a \in Handles
      PROVE  Continuation(a, ok, s, t) = IF ~closed /\ t = a THEN "armed" ELSE "idle"
  BY <1>2 DEF Continuation
<1>3. ASSUME a = Main
      PROVE  Continuation(a, ok, s, t) = IF pc[a] = "starting" THEN "up"
                                         ELSE IF s # None THEN "logout" ELSE "out"
  BY <1>3 DEF Continuation
<1> QED BY <1>1, <1>2, <1>3

LEMMA RequestOfType ==
    ASSUME NEW p, NEW s \in Sids \cup {None}
    PROVE  /\ RequestOf(p, s) \in Wires
           /\ RequestOf(p, s).op # "login"
BY DEF RequestOf, Request, Quiet, Wires

\* What the steps of a flight have in common: they act on the one promise.
LEMMA OneFlight ==
    ASSUME SessionInv, NEW f \in Flights, pc[f] # "idle"
    PROVE  f = loginPromise /\ loginPromise # None /\ \A g \in Flights \ {f} : pc[g] = "idle"
BY DEF SessionInv, PromiseIsFlight

\* The handles as a flight may leave them: a new timeout t armed, or none
\* touched; nothing else armed.
TimersAs(p, t) ==
    /\ p \in [Actors -> CallerPcs \cup FlightPcs \cup HandlePcs \cup MainPcs]
    /\ \A a \in Actors : a \notin Handles => p[a] = pc[a]
    /\ \A h \in Handles :
          /\ p[h] = pc[h] \/ (p[h] \in {"idle", "armed"} /\ pc[h] \in {"idle", "armed"})
          /\ p[h] = "armed" => h = t
    /\ t # None /\ ~closed => p[t] # "idle"

\* Settling keeps the invariant, whatever the flight leaves behind.
LEMMA SettleKeeps ==
    ASSUME SessionInv, NEW f \in Flights, pc[f] # "idle",
           NEW ok \in BOOLEAN, NEW s \in Sids \cup {None}, NEW t \in Handles \cup {None}, NEW p,
           TimersAs(p, t), s # None /\ ~closed => t # None,
           Settle(f, ok, s, t, p),
           attempt' \in 0 .. LOGIN_MAX_RETRIES,
           file' \in [sid : Sids \cup {None}, cred : Nat], file'.sid = None => file' = NoFile,
           UNCHANGED <<closed, execs, cred, ccuVars, faults, restarts>>
    PROVE  SessionInv'
<1> DEFINE stopping == awaits[Main] = f /\ pc[Main] = "await"
<1> USE DEF Actors
<1>0. /\ TypeOK /\ f = loginPromise /\ f # None /\ Main \in Actors
      /\ \A g \in Flights \ {f} : pc[g] = "idle"
  BY OneFlight DEF SessionInv
<1>1. /\ sessionId' = s /\ loginPromise' = None
      /\ renewTimer' = IF stopping THEN None ELSE t
  BY DEF Settle
<1>2. \A a \in Actors :
        pc'[a] = IF awaits[a] = f THEN Continuation(a, ok, s, t)
                 ELSE IF a = f \/ (stopping /\ a = t /\ p[a] = "armed") THEN "idle" ELSE p[a]
  BY DEF Settle
<1>3. \A a \in Actors :
        wire'[a] = IF awaits[a] = f THEN RequestOf(Continuation(a, ok, s, t), s)
                   ELSE IF a = f THEN Quiet ELSE wire[a]
  BY DEF Settle
<1>4. \A a \in Actors : awaits'[a] = IF awaits[a] = f THEN None ELSE awaits[a]
  BY DEF Settle
<1>5. \A a \in Actors :
        awaits[a] = f <=> \/ a \in Callers /\ pc[a] \in {"lazy", "relogin"}
                          \/ a \in Handles /\ pc[a] = "relogin"
                          \/ a = Main /\ pc[a] \in {"starting", "await"}
  BY <1>0 DEF SessionInv, WaitersAwaitIt
<1>6. \A g \in Flights : pc'[g] = "idle"
  BY <1>0, <1>2, <1>5 DEF TimersAs
<1>7. \A h \in Handles : /\ pc'[h] \in HandlePcs
                         /\ pc'[h] = "armed" => h = t /\ ~stopping
                         /\ pc'[h] # "relogin"
  <2> TAKE h \in Handles
  <2>0. pc[h] \in HandlePcs BY <1>0 DEF TypeOK
  <2>1. h \in Actors /\ h # f BY <1>0
  <2>2. CASE awaits[h] = f
    <3>1. stopping => closed BY DEF SessionInv, Shutdown
    <3> QED BY <1>2, <2>1, <2>2, <3>1, ContinuationType DEF HandlePcs
  <2>3. CASE awaits[h] # f
    <3>1. pc[h] # "relogin" BY <1>5, <2>1, <2>3
    <3>2. pc'[h] = IF stopping /\ h = t /\ p[h] = "armed" THEN "idle" ELSE p[h]
      BY <1>2, <2>1, <2>3
    <3>3. /\ p[h] = pc[h] \/ (p[h] \in {"idle", "armed"} /\ pc[h] \in {"idle", "armed"})
          /\ p[h] = "armed" => h = t
      BY DEF TimersAs
    <3> QED BY <2>0, <3>1, <3>2, <3>3 DEF HandlePcs
  <2> QED BY <2>2, <2>3
<1>8. \A c \in Callers : /\ pc'[c] \in CallerPcs
                         /\ pc'[c] \notin {"lazy", "relogin"}
  <2> TAKE c \in Callers
  <2>0. pc[c] \in CallerPcs BY <1>0 DEF TypeOK
  <2>1. c \in Actors /\ c # f /\ c \notin Handles /\ c # t BY <1>0
  <2>2. CASE awaits[c] = f BY <1>2, <2>1, <2>2, ContinuationType DEF CallerPcs, Returned
  <2>3. CASE awaits[c] # f
    <3>1. pc[c] \notin {"lazy", "relogin"} BY <1>5, <2>1, <2>3
    <3>2. pc'[c] = p[c] /\ p[c] = pc[c] BY <1>2, <2>1, <2>3 DEF TimersAs
    <3> QED BY <2>0, <3>1, <3>2
  <2> QED BY <2>2, <2>3
<1>9. /\ pc'[Main] \in MainPcs /\ pc'[Main] \notin {"starting", "await"}
      /\ awaits[Main] # f => pc'[Main] = pc[Main]
      /\ awaits[Main] = f /\ pc[Main] = "starting" => pc'[Main] = "up"
      /\ stopping => pc'[Main] = IF s # None THEN "logout" ELSE "out"
  <2>0. pc[Main] \in MainPcs BY <1>0 DEF TypeOK
  <2>1. Main # f /\ Main \notin Handles /\ Main # t BY <1>0
  <2>2. CASE awaits[Main] = f
    <3>1. pc[Main] \in {"starting", "await"} BY <1>0, <1>5, <2>1, <2>2
    <3> QED BY <1>0, <1>2, <2>2, <3>1, ContinuationType DEF MainPcs
  <2>3. CASE awaits[Main] # f
    <3>1. pc[Main] \notin {"starting", "await"} BY <1>0, <1>5, <2>3
    <3>2. pc'[Main] = p[Main] /\ p[Main] = pc[Main] BY <1>0, <1>2, <2>1, <2>3 DEF TimersAs
    <3> QED BY <2>0, <2>3, <3>1, <3>2
  <2> QED BY <2>2, <2>3
<1>10. TypeOK'
  <2>1. pc' \in [Actors -> CallerPcs \cup FlightPcs \cup HandlePcs \cup MainPcs]
    <3>1. pc' = [a \in Actors |-> pc'[a]] BY DEF Settle
    <3>2. \A a \in Actors : pc'[a] \in CallerPcs \cup FlightPcs \cup HandlePcs \cup MainPcs
      BY <1>6, <1>7, <1>8, <1>9 DEF FlightPcs
    <3> QED BY <3>1, <3>2
  <2>2. awaits' \in [Actors -> Flights \cup {None}]
    BY <1>0 DEF Settle, TypeOK
  <2>3. wire' \in [Actors -> Wires]
    <3>1. Quiet \in Wires BY DEF Quiet, Wires
    <3>2. \A a \in Actors : wire'[a] \in Wires
      BY <1>0, <1>3, <3>1, RequestOfType DEF TypeOK
    <3>3. wire' = [a \in Actors |-> wire'[a]] BY DEF Settle
    <3> QED BY <3>2, <3>3
  <2>4. used' \in [Callers -> Sids \cup {None}]
    BY <1>0 DEF Settle, TypeOK
  <2>5. /\ sessionId' \in Sids \cup {None} /\ loginPromise' \in Flights \cup {None}
        /\ renewTimer' \in Handles \cup {None}
    BY <1>1
  <2>6. \A g \in Flights : pc'[g] \in FlightPcs BY <1>6 DEF FlightPcs
  <2>7. /\ closed' \in BOOLEAN /\ execs' \in [Callers -> Nat] /\ cred' \in Nat
        /\ live' \in SUBSET Sids /\ minted' \in SUBSET Sids /\ credOf' \in [Sids -> Nat]
        /\ faults' \in 0 .. MaxFaults /\ restarts' \in 0 .. MaxRestarts
    BY <1>0 DEF TypeOK, ccuVars
  <2> QED BY <1>7, <1>8, <1>9, <2>1, <2>2, <2>3, <2>4, <2>5, <2>6, <2>7 DEF TypeOK
<1>11. PromiseIsFlight' BY <1>1, <1>6 DEF PromiseIsFlight
<1>12. WaitersAwaitIt'
  <2>1. \A a \in Actors : awaits'[a] = None
    BY <1>0, <1>4 DEF SessionInv, WaitersAwaitIt
  <2>2. \A a \in Actors : ~ \/ a \in Callers /\ pc'[a] \in {"lazy", "relogin"}
                            \/ a \in Handles /\ pc'[a] = "relogin"
                            \/ a = Main /\ pc'[a] \in {"starting", "await"}
    BY <1>7, <1>8, <1>9
  <2> QED BY <2>1, <2>2 DEF WaitersAwaitIt
<1>13. FlightRequests'
  <2>1. \A a \in Actors : wire'[a].op # "login"
    <3> TAKE a \in Actors
    <3>1. wire[a].op = "login" => a = f
      BY <1>0 DEF SessionInv, FlightRequests
    <3>2. Quiet.op # "login" BY DEF Quiet
    <3> QED BY <1>3, <3>1, <3>2, RequestOfType
  <2> QED BY <1>6, <2>1 DEF FlightRequests
<1>14. LoginOwnsSession' BY <1>6 DEF LoginOwnsSession
<1>15. Shutdown'
  <2>1. Shutdown BY DEF SessionInv
  <2>2. closed' = closed OBVIOUS
  <2>3. pc[Main] \notin {"logout", "unlink", "out", "gone"}
    BY <1>0, <2>1 DEF Shutdown
  <2>4. CASE awaits[Main] # f
    BY <1>0, <1>9, <2>1, <2>2, <2>3, <2>4 DEF Shutdown
  <2>5. CASE awaits[Main] = f /\ pc[Main] = "starting"
    BY <1>9, <2>1, <2>2, <2>5 DEF Shutdown
  <2>6. CASE stopping
    BY <1>1, <1>9, <2>1, <2>2, <2>6 DEF Shutdown
  <2>7. awaits[Main] = f => pc[Main] \in {"starting", "await"}
    BY <1>0, <1>5
  <2> QED BY <2>4, <2>5, <2>6, <2>7
<1>16. TimerKept'
  <2> SUFFICES ASSUME ~closed PROVE TimerKept'
    BY DEF TimerKept
  <2>1. ~stopping BY DEF SessionInv, Shutdown
  <2>2. renewTimer' = t BY <1>1, <2>1
  <2>3. ASSUME t # None PROVE pc'[t] # "idle"
    <3>1. t \in Handles /\ t # f /\ t \in Actors BY <1>0, <2>3
    <3>2. p[t] # "idle" BY <2>3 DEF TimersAs
    <3>3. CASE awaits[t] = f BY <1>2, <3>1, <3>3, ContinuationType
    <3>4. CASE awaits[t] # f BY <1>2, <2>1, <3>1, <3>2, <3>4
    <3> QED BY <3>3, <3>4
  <2> QED BY <1>1, <2>2, <2>3 DEF TimerKept
<1>17. OneRenewalTimer' BY <1>1, <1>7 DEF OneRenewalTimer
<1>18. (file.sid = None => file = NoFile)' OBVIOUS
<1> HIDE DEF Actors
<1> QED
  BY <1>10, <1>11, <1>12, <1>13, <1>14, <1>15, <1>16, <1>17, <1>18 DEF SessionInv

----------------------------------------------------------------------------
(* A step inside a flight: f goes on to x with the request w outstanding.    *)

LEMMA FlightMoves ==
    ASSUME SessionInv, NEW f \in Flights, pc[f] # "idle",
           NEW x \in FlightPcs \ {"idle", "renew"}, NEW w \in Wires,
           NEW s \in Sids \cup {None}, NEW t \in Handles \cup {None}, NEW p,
           TimersAs(p, t), s # None /\ ~closed => t # None,
           x = "persist" <=> s # None,
           w.op = "login" => x = "login",
           x = "restore" => w.sid # None, x = "login" => w.rep # "ok",
           x = "sleep" => attempt' < LOGIN_MAX_RETRIES,
           sessionId' = s, renewTimer' = t,
           pc' = [p EXCEPT ![f] = x], wire' = [wire EXCEPT ![f] = w],
           attempt' \in 0 .. LOGIN_MAX_RETRIES,
           UNCHANGED <<closed, loginPromise, awaits, used, execs, file, cred, ccuVars,
                       faults, restarts>>
    PROVE  SessionInv'
<1> USE DEF Actors
<1>0. /\ TypeOK /\ f = loginPromise /\ f # None /\ f \in Actors /\ Main \in Actors
      /\ \A g \in Flights \ {f} : pc[g] = "idle"
      /\ DOMAIN p = Actors
  BY OneFlight DEF SessionInv, TimersAs
<1>1. pc'[f] = x /\ \A a \in Actors \ {f} : pc'[a] = p[a]
  BY <1>0
<1>2. \A a \in Actors : a # f /\ a \notin Handles => pc'[a] = pc[a]
  BY <1>1 DEF TimersAs
<1>3. \A h \in Handles : /\ h # f
                         /\ pc'[h] = pc[h] \/ (pc'[h] \in {"idle", "armed"} /\ pc[h] \in {"idle", "armed"})
                         /\ pc'[h] = "armed" => h = t
  BY <1>1 DEF TimersAs
<1>4. wire'[f] = w /\ \A a \in Actors \ {f} : wire'[a] = wire[a]
  BY <1>0 DEF TypeOK
<1>5. TypeOK'
  <2>1. pc' \in [Actors -> CallerPcs \cup FlightPcs \cup HandlePcs \cup MainPcs]
    BY <1>0 DEF TimersAs
  <2>2. \A c \in Callers : pc'[c] \in CallerPcs BY <1>0, <1>2 DEF TypeOK
  <2>3. \A g \in Flights : pc'[g] \in FlightPcs BY <1>0, <1>1, <1>2 DEF TypeOK
  <2>4. \A h \in Handles : pc'[h] \in HandlePcs BY <1>0, <1>3 DEF TypeOK, HandlePcs
  <2>5. pc'[Main] \in MainPcs BY <1>0, <1>2 DEF TypeOK
  <2>6. wire' \in [Actors -> Wires] BY <1>0 DEF TypeOK
  <2> QED BY <1>0, <2>1, <2>2, <2>3, <2>4, <2>5, <2>6 DEF TypeOK, ccuVars
<1>6. PromiseIsFlight'
  BY <1>0, <1>1, <1>2 DEF SessionInv, PromiseIsFlight
<1>7. WaitersAwaitIt'
  BY <1>0, <1>2, <1>3 DEF SessionInv, WaitersAwaitIt
<1>8. FlightRequests'
  <2>1. FlightRequests BY DEF SessionInv
  <2>2. \A a \in Actors \ {f} : a \in Flights => pc'[a] = "idle"
    BY <1>0, <1>2
  <2>3. \A a \in Actors \ {f} : wire'[a].op # "login"
    <3> TAKE a \in Actors \ {f}
    <3>1. wire[a].op = "login" => pc[a] = "login" /\ a \in Flights BY <2>1 DEF FlightRequests
    <3> QED BY <1>0, <1>4, <3>1
  <2> QED BY <1>0, <1>1, <1>4, <2>2, <2>3 DEF FlightRequests
<1>9. LoginOwnsSession'
  <2>1. \A g \in Flights \ {f} : pc'[g] = "idle" BY <1>0, <1>2
  <2> QED BY <1>1, <2>1 DEF LoginOwnsSession, FlightPcs
<1>10. Shutdown'
  <2>1. pc'[Main] = pc[Main] BY <1>0, <1>2
  <2>2. pc[Main] \notin {"logout", "unlink", "out", "gone"}
    BY <1>0 DEF SessionInv, Shutdown
  <2> QED BY <2>1, <2>2 DEF SessionInv, Shutdown
<1>11. TimerKept'
  BY <1>0, <1>1 DEF TimerKept, TimersAs
<1>12. OneRenewalTimer' BY <1>3 DEF OneRenewalTimer
<1>13. (file.sid = None => file = NoFile)' BY DEF SessionInv
<1> HIDE DEF Actors
<1> QED
  BY <1>5, <1>6, <1>7, <1>8, <1>9, <1>10, <1>11, <1>12, <1>13 DEF SessionInv

\* The handles of the current state, and those after startRenewal().
LEMMA TimersUntouched == SessionInv => TimersAs(pc, renewTimer)
BY DEF SessionInv, TypeOK, TimersAs, TimerKept, OneRenewalTimer

LEMMA TimersRestarted ==
    ASSUME SessionInv, NEW h \in FreeHandles
    PROVE  TimersAs(Rescheduled(h), h)
<1>1. /\ pc \in [Actors -> CallerPcs \cup FlightPcs \cup HandlePcs \cup MainPcs]
      /\ h \in Handles /\ h \in Actors /\ pc[h] \in {"idle", "armed"}
      /\ \A k \in Handles : pc[k] = "armed" => k = renewTimer
  BY DEF SessionInv, TypeOK, OneRenewalTimer, FreeHandles, Actors
<1>2. renewTimer \in Handles \cup {None} BY DEF SessionInv, TypeOK
<1>3. Rescheduled(h)[h] = "armed" BY <1>1 DEF Rescheduled, Stopped
<1>4. \A a \in Actors \ {h} :
         Rescheduled(h)[a] = IF a = renewTimer /\ pc[a] = "armed" THEN "idle" ELSE pc[a]
  BY <1>1 DEF Rescheduled, Stopped
<1>5. Rescheduled(h) = [a \in Actors |-> Rescheduled(h)[a]]
  BY <1>1 DEF Rescheduled, Stopped
<1>6. Rescheduled(h) \in [Actors -> CallerPcs \cup FlightPcs \cup HandlePcs \cup MainPcs]
  <2>1. \A a \in Actors : Rescheduled(h)[a] \in CallerPcs \cup FlightPcs \cup HandlePcs \cup MainPcs
    BY <1>1, <1>3, <1>4 DEF HandlePcs
  <2> QED BY <1>5, <2>1
<1>7. \A a \in Actors : a \notin Handles => Rescheduled(h)[a] = pc[a]
  BY <1>1, <1>2, <1>4 DEF Actors
<1>8. \A k \in Handles :
         /\ Rescheduled(h)[k] = pc[k] \/ (Rescheduled(h)[k] \in {"idle", "armed"} /\ pc[k] \in {"idle", "armed"})
         /\ Rescheduled(h)[k] = "armed" => k = h
  BY <1>1, <1>3, <1>4 DEF Actors
<1> QED BY <1>3, <1>6, <1>7, <1>8 DEF TimersAs

----------------------------------------------------------------------------
(* doLogin() keeps the invariant.                                            *)

LEMMA WireTypes ==
    ASSUME NEW x \in Sids \cup {None}
    PROVE  /\ Quiet \in Wires /\ Quiet.op # "login" /\ Quiet.rep = "none"
           /\ Request("renew", x) \in Wires /\ Request("renew", x).op = "renew"
           /\ Request("renew", x).sid = x
           /\ Request("login", x) \in Wires /\ Request("login", x).rep = "none"
BY DEF Quiet, Request, Wires

LEMMA TryLoginKeeps ==
    ASSUME SessionInv, NEW f \in Flights, pc[f] \in {"read", "restore", "sleep"},
           NEW n \in 0 .. LOGIN_MAX_RETRIES, TryLogin(f, n)
    PROVE  SessionInv'
<1>1. /\ sessionId = None /\ TypeOK /\ TimersAs(pc, renewTimer)
      /\ (file.sid = None => file = NoFile)
  BY TimersUntouched DEF SessionInv, LoginOwnsSession
<1>2. sessionId \in Sids \cup {None} /\ renewTimer \in Handles \cup {None} /\ pc[f] # "idle"
  BY <1>1 DEF TypeOK
<1>3. CASE closed
  <2>1. /\ Settle(f, FALSE, sessionId, renewTimer, pc)
        /\ UNCHANGED <<closed, attempt, execs, file, cred, ccuVars, faults, restarts>>
    BY <1>3 DEF TryLogin
  <2>2. /\ attempt' \in 0 .. LOGIN_MAX_RETRIES
        /\ file' \in [sid : Sids \cup {None}, cred : Nat]
        /\ (file'.sid = None => file' = NoFile)
    BY <1>1, <2>1 DEF TypeOK
  <2> QED BY <1>1, <1>2, <2>1, <2>2, SettleKeeps
<1>4. CASE ~closed
  <2>1. Request("login", None) \in Wires /\ Request("login", None).rep # "ok"
    BY WireTypes
  <2>2. /\ pc' = [pc EXCEPT ![f] = "login"]
        /\ wire' = [wire EXCEPT ![f] = Request("login", None)]
        /\ attempt' = n /\ sessionId' = sessionId /\ renewTimer' = renewTimer
        /\ UNCHANGED <<closed, loginPromise, awaits, used, execs, file, cred, ccuVars,
                       faults, restarts>>
    BY <1>4 DEF TryLogin
  <2>3. "login" \in FlightPcs \ {"idle", "renew"} BY DEF FlightPcs
  <2> QED BY <1>1, <1>2, <2>1, <2>2, <2>3, FlightMoves
<1> QED BY <1>3, <1>4

LEMMA RenewAnsweredKeeps ==
    ASSUME SessionInv, NEW f \in Flights, RenewAnswered(f) PROVE SessionInv'
<1>1. /\ sessionId # None /\ TypeOK /\ TimersAs(pc, renewTimer) /\ TimerKept
      /\ (file.sid = None => file = NoFile) /\ pc[f] # "idle"
      /\ UNCHANGED <<closed, attempt, execs, file, cred, ccuVars, faults, restarts>>
  BY TimersUntouched DEF SessionInv, LoginOwnsSession, RenewAnswered
<1>2. sessionId \in Sids \cup {None} /\ renewTimer \in Handles \cup {None}
      /\ attempt' \in 0 .. LOGIN_MAX_RETRIES
      /\ file' \in [sid : Sids \cup {None}, cred : Nat] /\ (file'.sid = None => file' = NoFile)
      /\ (sessionId # None /\ ~closed => renewTimer # None)
  BY <1>1 DEF TypeOK, TimerKept
<1>3. CASE wire[f].rep = "ok"
  <2>1. Settle(f, TRUE, sessionId, renewTimer, pc) BY <1>3 DEF RenewAnswered
  <2> QED BY <1>1, <1>2, <2>1, SettleKeeps
<1>4. CASE wire[f].rep # "ok"
  <2>1. /\ sessionId' = None /\ renewTimer' = renewTimer
        /\ pc' = [pc EXCEPT ![f] = "read"] /\ wire' = [wire EXCEPT ![f] = Quiet]
        /\ UNCHANGED <<loginPromise, awaits, used>>
    BY <1>4 DEF RenewAnswered
  <2>2. "read" \in FlightPcs \ {"idle", "renew"} /\ None \in Sids \cup {None} BY DEF FlightPcs
  <2>3. Quiet \in Wires /\ Quiet.op # "login" BY WireTypes
  <2> QED BY <1>1, <1>2, <2>1, <2>2, <2>3, FlightMoves
<1> QED BY <1>3, <1>4

LEMMA ReadFileKeeps ==
    ASSUME SessionInv, NEW f \in Flights, ReadFile(f) PROVE SessionInv'
<1>1. /\ sessionId = None /\ TypeOK /\ TimersAs(pc, renewTimer) /\ pc[f] = "read"
      /\ (file.sid = None => file = NoFile)
  BY TimersUntouched DEF SessionInv, LoginOwnsSession, ReadFile
<1>2. /\ sessionId \in Sids \cup {None} /\ renewTimer \in Handles \cup {None}
      /\ file.sid \in Sids \cup {None}
  BY <1>1 DEF TypeOK
<1>3. CASE ~Restorable
  <2>1. TryLogin(f, 0) BY <1>3 DEF ReadFile
  <2>2. 0 \in 0 .. LOGIN_MAX_RETRIES OBVIOUS
  <2> QED BY <1>1, <2>1, <2>2, TryLoginKeeps
<1>4. CASE Restorable
  <2> DEFINE w == Request("renew", file.sid)
  <2>1. file.sid # None BY <1>1, <1>4 DEF Restorable
  <2>2. /\ pc' = [pc EXCEPT ![f] = "restore"]
        /\ wire' = [wire EXCEPT ![f] = w]
        /\ attempt' = attempt /\ sessionId' = None /\ renewTimer' = renewTimer
        /\ UNCHANGED <<closed, loginPromise, awaits, used, execs, file, cred, ccuVars,
                       faults, restarts>>
    BY <1>1, <1>4 DEF ReadFile, callVars
  <2>3. w \in Wires /\ w.op # "login" /\ w.sid # None
    BY <1>2, <2>1, WireTypes
  <2>4. "restore" \in FlightPcs \ {"idle", "renew"} BY DEF FlightPcs
  <2>5. attempt' \in 0 .. LOGIN_MAX_RETRIES BY <1>1, <2>2 DEF TypeOK
  <2>6. pc[f] # "idle" /\ None \in Sids \cup {None} BY <1>1
  <2> HIDE DEF w
  <2> QED BY <1>1, <1>2, <2>2, <2>3, <2>4, <2>5, <2>6, FlightMoves
<1> QED BY <1>3, <1>4

LEMMA RestoreAnsweredKeeps ==
    ASSUME SessionInv, NEW f \in Flights, RestoreAnswered(f) PROVE SessionInv'
<1>1. /\ TypeOK /\ pc[f] = "restore" /\ wire[f].sid # None
      /\ (file.sid = None => file = NoFile)
  BY DEF SessionInv, FlightRequests, RestoreAnswered, Actors
<1>2. wire[f].sid \in Sids \cup {None}
  <2>1. wire[f] \in Wires BY <1>1 DEF TypeOK, Actors
  <2> QED BY <2>1 DEF Wires
<1>3. CASE wire[f].rep # "ok"
  <2>1. TryLogin(f, 0) BY <1>3 DEF RestoreAnswered
  <2>2. 0 \in 0 .. LOGIN_MAX_RETRIES OBVIOUS
  <2> QED BY <1>1, <2>1, <2>2, TryLoginKeeps
<1>4. CASE wire[f].rep = "ok"
  <2>1. PICK h \in FreeHandles : Settle(f, TRUE, wire[f].sid, h, Rescheduled(h))
    BY <1>4 DEF RestoreAnswered
  <2>2. UNCHANGED <<closed, attempt, execs, file, cred, ccuVars, faults, restarts>>
    BY <1>4 DEF RestoreAnswered
  <2>3. /\ attempt' \in 0 .. LOGIN_MAX_RETRIES
        /\ file' \in [sid : Sids \cup {None}, cred : Nat]
        /\ (file'.sid = None => file' = NoFile)
    BY <1>1, <2>2 DEF TypeOK
  <2>4. h \in Handles \cup {None} /\ h # None /\ TimersAs(Rescheduled(h), h)
    BY TimersRestarted DEF FreeHandles
  <2> QED BY <1>1, <1>2, <2>1, <2>2, <2>3, <2>4, SettleKeeps
<1> QED BY <1>3, <1>4

LEMMA LoginAnsweredKeeps ==
    ASSUME SessionInv, NEW f \in Flights, LoginAnswered(f) PROVE SessionInv'
<1>1. /\ TypeOK /\ pc[f] = "login" /\ sessionId = None /\ TimersAs(pc, renewTimer)
      /\ (wire[f].rep = "ok" => wire[f].sid # None)
      /\ (file.sid = None => file = NoFile)
      /\ UNCHANGED <<closed, attempt, execs, file, cred, ccuVars, faults, restarts>>
  BY TimersUntouched DEF SessionInv, FlightRequests, LoginOwnsSession, LoginAnswered, Actors
<1>2. wire[f].sid \in Sids \cup {None}
  <2>1. wire[f] \in Wires BY <1>1 DEF TypeOK, Actors
  <2> QED BY <2>1 DEF Wires
<1>3. /\ attempt' \in 0 .. LOGIN_MAX_RETRIES
      /\ file' \in [sid : Sids \cup {None}, cred : Nat] /\ (file'.sid = None => file' = NoFile)
      /\ sessionId \in Sids \cup {None} /\ renewTimer \in Handles \cup {None}
  BY <1>1 DEF TypeOK
<1>4. Quiet \in Wires /\ Quiet.op # "login" BY WireTypes
<1>5. CASE wire[f].rep = "ok"
  <2>1. PICK h \in FreeHandles :
           renewTimer' = h /\ pc' = [Rescheduled(h) EXCEPT ![f] = "persist"]
    BY <1>5 DEF LoginAnswered
  <2>2. /\ sessionId' = wire[f].sid /\ wire' = [wire EXCEPT ![f] = Quiet]
        /\ UNCHANGED <<loginPromise, awaits, used>>
    BY <1>5 DEF LoginAnswered
  <2>3. h \in Handles \cup {None} /\ h # None /\ TimersAs(Rescheduled(h), h)
    BY TimersRestarted DEF FreeHandles
  <2>4. "persist" \in FlightPcs \ {"idle", "renew"} BY DEF FlightPcs
  <2> QED BY <1>1, <1>2, <1>3, <1>4, <1>5, <2>1, <2>2, <2>3, <2>4, FlightMoves
<1>6. CASE wire[f].rep = "busy" /\ attempt < LOGIN_MAX_RETRIES
  <2>0. attempt \in Nat /\ attempt # LOGIN_MAX_RETRIES /\ wire[f].rep # "ok"
    BY <1>1, <1>6 DEF TypeOK
  <2>1. /\ sessionId' = sessionId /\ renewTimer' = renewTimer
        /\ pc' = [pc EXCEPT ![f] = "sleep"] /\ wire' = [wire EXCEPT ![f] = Quiet]
        /\ UNCHANGED <<loginPromise, awaits, used>>
    BY <1>6, <2>0 DEF LoginAnswered
  <2>2. "sleep" \in FlightPcs \ {"idle", "renew"} BY DEF FlightPcs
  <2>3. attempt' < LOGIN_MAX_RETRIES BY <1>1, <1>6
  <2> QED BY <1>1, <1>3, <1>4, <2>1, <2>2, <2>3, FlightMoves
<1>7. CASE ~(wire[f].rep = "ok") /\ ~(wire[f].rep = "busy" /\ attempt < LOGIN_MAX_RETRIES)
  <2>1. Settle(f, FALSE, sessionId, renewTimer, pc) BY <1>7 DEF LoginAnswered
  <2> QED BY <1>1, <1>3, <2>1, SettleKeeps
<1> QED BY <1>5, <1>6, <1>7

LEMMA PersistKeeps ==
    ASSUME SessionInv, NEW f \in Flights, Persist(f) PROVE SessionInv'
<1>1. /\ TypeOK /\ pc[f] # "idle" /\ sessionId # None /\ TimersAs(pc, renewTimer) /\ TimerKept
      /\ (file.sid = None => file = NoFile)
  BY TimersUntouched DEF SessionInv, LoginOwnsSession, Persist
<1>2. /\ Settle(f, TRUE, sessionId, renewTimer, pc)
      /\ file' \in {[sid |-> sessionId, cred |-> cred], file}
      /\ UNCHANGED <<closed, attempt, execs, cred, ccuVars, faults, restarts>>
  BY DEF Persist
<1>3. /\ sessionId \in Sids \cup {None} /\ renewTimer \in Handles \cup {None}
      /\ attempt' \in 0 .. LOGIN_MAX_RETRIES
      /\ file' \in [sid : Sids \cup {None}, cred : Nat] /\ (file'.sid = None => file' = NoFile)
      /\ (sessionId # None /\ ~closed => renewTimer # None)
  BY <1>1, <1>2 DEF TypeOK, TimerKept
<1> QED BY <1>1, <1>2, <1>3, SettleKeeps

LEMMA FlightStepKeeps ==
    ASSUME SessionInv, NEW f \in Flights, FlightStep(f) PROVE SessionInv'
<1>1. CASE Wake(f)
  <2>1. pc[f] = "sleep" /\ TryLogin(f, attempt + 1) BY <1>1 DEF Wake
  <2>2. attempt + 1 \in 0 .. LOGIN_MAX_RETRIES
    BY <2>1 DEF SessionInv, TypeOK, FlightRequests, Actors
  <2> QED BY <2>1, <2>2, TryLoginKeeps
<1> QED BY <1>1, RenewAnsweredKeeps, ReadFileKeeps, RestoreAnsweredKeeps, LoginAnsweredKeeps,
           PersistKeeps DEF FlightStep

----------------------------------------------------------------------------
(* Outside a flight.                                                         *)

\* A step that leaves the flight alone keeps what the invariant says of it.
LEMMA OutsideAFlight ==
    ASSUME SessionInv, loginPromise' = loginPromise, attempt' = attempt,
           sessionId' = sessionId \/ loginPromise = None,
           \A g \in Flights : pc'[g] = pc[g] /\ wire'[g] = wire[g],
           \A b \in Actors \ Flights : wire'[b] = wire[b] \/ wire'[b].op # "login"
    PROVE  PromiseIsFlight' /\ FlightRequests' /\ LoginOwnsSession'
<1>1. /\ PromiseIsFlight /\ FlightRequests /\ LoginOwnsSession
      /\ \A g \in Flights : g # None /\ g \in Actors
  BY DEF SessionInv, Actors
<1>2. PromiseIsFlight' BY <1>1 DEF PromiseIsFlight
<1>3. loginPromise = None => \A g \in Flights : pc'[g] = "idle"
  BY <1>1 DEF PromiseIsFlight
<1>4. \A b \in Actors : wire'[b].op = "login" => b \in Flights /\ pc'[b] = "login"
  BY <1>1 DEF FlightRequests
<1>5. FlightRequests'
  <2>1. \A b \in Flights :
           /\ pc'[b] = "renew" => wire'[b].sid = sessionId'
           /\ pc'[b] = "restore" => wire'[b].sid # None
           /\ pc'[b] = "login" /\ wire'[b].rep = "ok" => wire'[b].sid # None
           /\ pc'[b] = "sleep" => attempt' < LOGIN_MAX_RETRIES
    BY <1>1, <1>3 DEF FlightRequests
  <2> QED BY <1>4, <2>1 DEF FlightRequests
<1>6. LoginOwnsSession'
  BY <1>1, <1>3 DEF LoginOwnsSession
<1> QED BY <1>2, <1>5, <1>6

\* One actor that is no flight goes to y, where it awaits nothing, with the
\* request w outstanding; callers, timers and the process alike.
LEMMA ActorMoves ==
    ASSUME SessionInv, NEW a \in Actors \ Flights, NEW y, NEW w \in Wires, w.op # "login",
           awaits[a] = None,
           a \in Callers => y \in CallerPcs \ {"lazy", "relogin"},
           a \in Handles => /\ y \in {"armed", "renew", "idle"}
                            /\ y = "armed" => a = renewTimer
                            /\ y = "idle" => closed \/ a # renewTimer,
           a = Main => /\ y \in MainPcs \ {"starting", "await"}
                       /\ closed <=> y \in {"logout", "unlink", "out", "gone"}
                       /\ closed => loginPromise = None /\ renewTimer = None
                       /\ y \in {"unlink", "out", "gone"} => sessionId' = None,
           sessionId' = sessionId \/ (a = Main /\ closed /\ sessionId' = None),
           pc' = [pc EXCEPT ![a] = y], wire' = [wire EXCEPT ![a] = w],
           used' \in [Callers -> Sids \cup {None}], execs' \in [Callers -> Nat],
           file' \in {NoFile, file},
           UNCHANGED <<closed, renewTimer, loginPromise, awaits, attempt, cred, ccuVars,
                       faults, restarts>>
    PROVE  SessionInv'
<1> USE DEF Actors
<1>0. /\ TypeOK /\ Shutdown /\ TimerKept /\ OneRenewalTimer /\ WaitersAwaitIt
      /\ Main \in Actors /\ (file.sid = None => file = NoFile)
  BY DEF SessionInv
<1>1. pc'[a] = y /\ \A b \in Actors \ {a} : pc'[b] = pc[b]
  BY <1>0 DEF TypeOK
<1>2. wire'[a] = w /\ \A b \in Actors \ {a} : wire'[b] = wire[b]
  BY <1>0 DEF TypeOK
<1>3. PromiseIsFlight' /\ FlightRequests' /\ LoginOwnsSession'
  <2>1. \A g \in Flights : pc'[g] = pc[g] /\ wire'[g] = wire[g] BY <1>1, <1>2
  <2>2. \A b \in Actors \ Flights : wire'[b] = wire[b] \/ wire'[b].op # "login" BY <1>2
  <2> HIDE DEF Actors
  <2> QED BY <2>1, <2>2, OutsideAFlight
<1>4. TypeOK'
  <2>1. pc' \in [Actors -> CallerPcs \cup FlightPcs \cup HandlePcs \cup MainPcs]
    BY <1>0 DEF TypeOK, HandlePcs
  <2>2. \A c \in Callers : pc'[c] \in CallerPcs BY <1>0, <1>1 DEF TypeOK
  <2>3. \A g \in Flights : pc'[g] \in FlightPcs BY <1>0, <1>1 DEF TypeOK
  <2>4. \A h \in Handles : pc'[h] \in HandlePcs BY <1>0, <1>1 DEF TypeOK, HandlePcs
  <2>5. pc'[Main] \in MainPcs BY <1>0, <1>1 DEF TypeOK
  <2>6. wire' \in [Actors -> Wires] BY <1>0 DEF TypeOK
  <2>7. file' \in [sid : Sids \cup {None}, cred : Nat] BY <1>0 DEF TypeOK, NoFile
  <2>8. sessionId' \in Sids \cup {None} BY <1>0 DEF TypeOK
  <2>9. closed' \in BOOLEAN /\ renewTimer' \in Handles \cup {None}
        /\ loginPromise' \in Flights \cup {None} /\ attempt' \in 0 .. LOGIN_MAX_RETRIES
        /\ awaits' \in [Actors -> Flights \cup {None}]
    BY <1>0 DEF TypeOK
  <2> QED BY <1>0, <2>1, <2>2, <2>3, <2>4, <2>5, <2>6, <2>7, <2>8, <2>9 DEF TypeOK, ccuVars
<1>5. WaitersAwaitIt'
  <2>1. \A b \in Actors \ {a} :
           /\ awaits'[b] # None => awaits'[b] = loginPromise'
           /\ awaits'[b] # None <=> \/ b \in Callers /\ pc'[b] \in {"lazy", "relogin"}
                                    \/ b \in Handles /\ pc'[b] = "relogin"
                                    \/ b = Main /\ pc'[b] \in {"starting", "await"}
    BY <1>0, <1>1 DEF WaitersAwaitIt
  <2>2. /\ awaits'[a] = None
        /\ ~ \/ a \in Callers /\ pc'[a] \in {"lazy", "relogin"}
             \/ a \in Handles /\ pc'[a] = "relogin"
             \/ a = Main /\ pc'[a] \in {"starting", "await"}
    BY <1>1
  <2> QED BY <2>1, <2>2 DEF WaitersAwaitIt
<1>6. Shutdown'
  <2>1. CASE a = Main BY <1>0, <1>1, <2>1 DEF Shutdown
  <2>2. CASE a # Main
    <3>1. pc'[Main] = pc[Main] /\ sessionId' = sessionId BY <1>0, <1>1, <2>2
    <3> QED BY <1>0, <3>1 DEF Shutdown
  <2> QED BY <2>1, <2>2
<1>7. TimerKept'
  <2>1. renewTimer \in Handles \cup {None} BY <1>0 DEF TypeOK
  <2>2. ~closed => sessionId' = sessionId OBVIOUS
  <2>3. renewTimer # None /\ ~closed => pc'[renewTimer] # "idle"
    <3> SUFFICES ASSUME renewTimer # None, ~closed PROVE pc'[renewTimer] # "idle" OBVIOUS
    <3>1. pc[renewTimer] # "idle" BY <1>0 DEF TimerKept
    <3>2. CASE a = renewTimer BY <1>1, <2>1, <3>2
    <3>3. CASE a # renewTimer BY <1>1, <2>1, <3>1, <3>3
    <3> QED BY <3>2, <3>3
  <2> QED BY <1>0, <2>2, <2>3 DEF TimerKept
<1>8. OneRenewalTimer'
  <2>1. \A h \in Handles : pc'[h] = "armed" => h = renewTimer
    BY <1>0, <1>1 DEF OneRenewalTimer
  <2> QED BY <2>1 DEF OneRenewalTimer
<1>9. (file.sid = None => file = NoFile)' BY <1>0
<1> HIDE DEF Actors
<1> QED BY <1>3, <1>4, <1>5, <1>6, <1>7, <1>8, <1>9 DEF SessionInv

\* login() keeps the invariant, whoever calls it.
LEMMA LoginKeeps ==
    ASSUME SessionInv, NEW a \in Actors \ Flights, NEW waiting,
           a \in Callers => waiting \in {"lazy", "relogin"},
           a \in Handles => waiting = "relogin",
           a = Main => waiting = "starting" /\ ~closed,
           awaits[a] = None, Login(a, waiting),
           used' \in [Callers -> Sids \cup {None}], execs' \in [Callers -> Nat],
           UNCHANGED <<file, cred, ccuVars, faults, restarts>>
    PROVE  SessionInv'
<1> USE DEF Actors
<1>0. /\ TypeOK /\ Shutdown /\ TimerKept /\ OneRenewalTimer /\ WaitersAwaitIt
      /\ PromiseIsFlight /\ FlightRequests /\ LoginOwnsSession
      /\ Main \in Actors /\ (file.sid = None => file = NoFile)
      /\ UNCHANGED <<sessionId, closed, renewTimer, attempt>>
  BY DEF SessionInv, Login
<1>1. Quiet \in Wires /\ Quiet.op # "login" BY WireTypes
<1>2. CASE loginPromise = None /\ closed
  <2>1. /\ pc' = [pc EXCEPT ![a] = Rejected(a)] /\ wire' = [wire EXCEPT ![a] = Quiet]
        /\ UNCHANGED <<loginPromise, awaits>>
    BY <1>2 DEF Login
  <2>2. /\ a \in Callers => Rejected(a) \in CallerPcs \ {"lazy", "relogin"}
        /\ a \in Handles => Rejected(a) = "idle"
    BY DEF Rejected, CallerPcs, Returned
  <2>3. file' \in {NoFile, file} OBVIOUS
  <2> HIDE DEF Actors
  <2> QED BY <1>0, <1>1, <1>2, <2>1, <2>2, <2>3, ActorMoves
<1>3. CASE loginPromise # None \/ ~closed
  <2>1. PICK f \in Flights :
           /\ loginPromise' = f /\ f # a /\ f # None /\ f # Main
           /\ loginPromise = None \/ loginPromise = f
           /\ awaits' = [awaits EXCEPT ![a] = f]
           /\ pc'[a] = waiting /\ wire'[a] = Quiet
           /\ \A b \in Actors \ {a, f} : pc'[b] = pc[b] /\ wire'[b] = wire[b]
           /\ pc'[f] \in FlightPcs \ {"idle"}
           /\ wire'[f] \in Wires
           /\ pc' \in [Actors -> CallerPcs \cup FlightPcs \cup HandlePcs \cup MainPcs]
           /\ wire' \in [Actors -> Wires]
           /\ \/ loginPromise = f /\ pc'[f] = pc[f] /\ wire'[f] = wire[f]
              \/ /\ loginPromise = None
                 /\ wire'[f].op # "login"
                 /\ \/ pc'[f] = "read" /\ sessionId = None
                    \/ pc'[f] = "renew" /\ sessionId # None /\ wire'[f].sid = sessionId
    <3>0. waiting \in CallerPcs \cup FlightPcs \cup HandlePcs \cup MainPcs
      BY DEF CallerPcs, HandlePcs, MainPcs
    <3>1. CASE loginPromise # None
      <4>1. /\ pc' = [pc EXCEPT ![a] = waiting]
            /\ awaits' = [awaits EXCEPT ![a] = loginPromise]
            /\ wire' = [wire EXCEPT ![a] = Quiet]
            /\ UNCHANGED loginPromise
        BY <3>1 DEF Login
      <4>2. loginPromise \in Flights /\ pc[loginPromise] \in FlightPcs \ {"idle"}
        BY <1>0, <3>1 DEF TypeOK, PromiseIsFlight
      <4> QED BY <1>0, <1>1, <3>0, <3>1, <4>1, <4>2 DEF TypeOK
    <3>2. CASE loginPromise = None
      <4>1. ~closed BY <1>3, <3>2
      <4>2. PICK f \in Flights :
                /\ pc[f] = "idle"
                /\ loginPromise' = f
                /\ pc' = [pc EXCEPT ![a] = waiting,
                                    ![f] = IF sessionId = None THEN "read" ELSE "renew"]
                /\ awaits' = [awaits EXCEPT ![a] = f]
                /\ wire' = [wire EXCEPT ![a] = Quiet,
                                        ![f] = IF sessionId = None THEN Quiet
                                               ELSE Request("renew", sessionId)]
        BY <3>2, <4>1 DEF Login
      <4> DEFINE w == IF sessionId = None THEN Quiet ELSE Request("renew", sessionId)
                 x == IF sessionId = None THEN "read" ELSE "renew"
      <4>3. sessionId \in Sids \cup {None} BY <1>0 DEF TypeOK
      <4>4. /\ w \in Wires /\ w.op # "login"
            /\ sessionId # None => w.sid = sessionId
        BY <1>1, <4>3, WireTypes
      <4>5. /\ x \in FlightPcs \ {"idle"}
            /\ (x = "read" /\ sessionId = None) \/ (x = "renew" /\ sessionId # None)
        BY DEF FlightPcs
      <4>6. /\ pc' = [pc EXCEPT ![a] = waiting, ![f] = x]
            /\ wire' = [wire EXCEPT ![a] = Quiet, ![f] = w]
            /\ f \in Actors /\ f # a /\ f # None /\ f # Main
        BY <4>2
      <4> HIDE DEF w, x
      <4>7. /\ pc'[a] = waiting /\ wire'[a] = Quiet /\ pc'[f] = x /\ wire'[f] = w
            /\ \A b \in Actors \ {a, f} : pc'[b] = pc[b] /\ wire'[b] = wire[b]
            /\ pc' \in [Actors -> CallerPcs \cup FlightPcs \cup HandlePcs \cup MainPcs]
            /\ wire' \in [Actors -> Wires]
        BY <1>0, <1>1, <3>0, <4>4, <4>5, <4>6 DEF TypeOK
      <4> QED BY <3>2, <4>2, <4>4, <4>5, <4>6, <4>7
    <3> QED BY <3>1, <3>2
  <2>2. \A g \in Flights \ {f} : pc[g] = "idle" /\ pc'[g] = "idle" /\ wire'[g] = wire[g]
    BY <1>0, <2>1 DEF PromiseIsFlight
  <2>3. \A b \in Actors \ {a} : b \notin Flights => pc'[b] = pc[b]
    BY <2>1
  <2>4. TypeOK'
    <3>1. \A c \in Callers : pc'[c] \in CallerPcs
      BY <1>0, <2>1, <2>3 DEF TypeOK, CallerPcs
    <3>2. \A g \in Flights : pc'[g] \in FlightPcs
      BY <2>1, <2>2 DEF FlightPcs
    <3>3. \A h \in Handles : pc'[h] \in HandlePcs
      BY <1>0, <2>1, <2>3 DEF TypeOK, HandlePcs
    <3>4. pc'[Main] \in MainPcs
      BY <1>0, <2>1, <2>3 DEF TypeOK, MainPcs
    <3>5. awaits' \in [Actors -> Flights \cup {None}]
      BY <1>0, <2>1 DEF TypeOK
    <3> QED BY <1>0, <2>1, <3>1, <3>2, <3>3, <3>4, <3>5 DEF TypeOK, ccuVars
  <2>5. PromiseIsFlight' BY <2>1, <2>2 DEF PromiseIsFlight
  <2>6. WaitersAwaitIt'
    <3>1. \A b \in Actors \ {a} :
             /\ awaits'[b] # None => awaits'[b] = loginPromise'
             /\ awaits'[b] # None <=> \/ b \in Callers /\ pc'[b] \in {"lazy", "relogin"}
                                      \/ b \in Handles /\ pc'[b] = "relogin"
                                      \/ b = Main /\ pc'[b] \in {"starting", "await"}
      <4> TAKE b \in Actors \ {a}
      <4>1. awaits'[b] = awaits[b] BY <1>0, <2>1 DEF TypeOK
      <4>2. /\ awaits[b] # None => awaits[b] = loginPromise
            /\ awaits[b] # None <=> \/ b \in Callers /\ pc[b] \in {"lazy", "relogin"}
                                    \/ b \in Handles /\ pc[b] = "relogin"
                                    \/ b = Main /\ pc[b] \in {"starting", "await"}
        BY <1>0 DEF WaitersAwaitIt
      <4>3. awaits[b] # None => loginPromise' = loginPromise BY <2>1, <4>2
      <4>4. CASE b \in Flights BY <4>1, <4>2, <4>3, <4>4
      <4>5. CASE b \notin Flights
        <5>1. pc'[b] = pc[b] BY <2>3, <4>5
        <5> QED BY <4>1, <4>2, <4>3, <5>1
      <4> QED BY <4>4, <4>5
    <3>2. /\ awaits'[a] = f
          /\ \/ a \in Callers /\ pc'[a] \in {"lazy", "relogin"}
             \/ a \in Handles /\ pc'[a] = "relogin"
             \/ a = Main /\ pc'[a] \in {"starting", "await"}
      BY <1>0, <2>1 DEF TypeOK
    <3> QED BY <2>1, <3>1, <3>2 DEF WaitersAwaitIt
  <2>7. FlightRequests'
    <3>1. \A b \in Actors : wire'[b].op = "login" => b \in Flights /\ pc'[b] = "login"
      BY <1>0, <1>1, <2>1, <2>2 DEF FlightRequests
    <3>2. /\ pc'[f] = "renew" => wire'[f].sid = sessionId'
          /\ pc'[f] = "restore" => wire'[f].sid # None
          /\ pc'[f] = "login" /\ wire'[f].rep = "ok" => wire'[f].sid # None
          /\ pc'[f] = "sleep" => attempt' < LOGIN_MAX_RETRIES
      BY <1>0, <2>1 DEF FlightRequests
    <3> QED BY <2>2, <3>1, <3>2 DEF FlightRequests
  <2>8. LoginOwnsSession'
    <3>1. /\ pc'[f] = "renew" => sessionId' # None /\ wire'[f].sid = sessionId'
          /\ pc'[f] \in {"read", "restore", "login", "sleep"} => sessionId' = None
          /\ pc'[f] = "persist" => sessionId' # None
      BY <1>0, <2>1 DEF LoginOwnsSession
    <3> QED BY <2>2, <3>1 DEF LoginOwnsSession
  <2>9. Shutdown'
    <3>1. CASE a = Main BY <1>0, <2>1, <3>1 DEF Shutdown
    <3>2. CASE a # Main
      <4>1. pc'[Main] = pc[Main] BY <1>0, <2>3, <3>2
      <4>2. pc[Main] \in {"logout", "unlink", "out", "gone"} => loginPromise = None /\ closed
        BY <1>0 DEF Shutdown
      <4>3. pc[Main] \notin {"logout", "unlink", "out", "gone"} BY <1>3, <4>2
      <4> QED BY <1>0, <4>1, <4>3 DEF Shutdown
    <3> QED BY <3>1, <3>2
  <2>10. TimerKept'
    <3>1. renewTimer \in Handles \cup {None} BY <1>0 DEF TypeOK
    <3>2. ~closed /\ renewTimer # None => pc'[renewTimer] # "idle"
      BY <1>0, <2>1, <2>3, <3>1 DEF TimerKept
    <3> QED BY <1>0, <3>2 DEF TimerKept
  <2>11. OneRenewalTimer'
    <3>1. \A h \in Handles : pc'[h] = "armed" => h = renewTimer
      BY <1>0, <2>1, <2>3 DEF OneRenewalTimer
    <3> QED BY <1>0, <3>1 DEF OneRenewalTimer
  <2> HIDE DEF Actors
  <2> QED BY <1>0, <2>4, <2>5, <2>6, <2>7, <2>8, <2>9, <2>10, <2>11 DEF SessionInv
<1> QED BY <1>2, <1>3

----------------------------------------------------------------------------
(* Every other step keeps the invariant.                                     *)

\* Where nobody waits for a flight.
LEMMA NotWaiting ==
    ASSUME SessionInv, NEW a \in Actors,
           pc[a] \notin {"lazy", "relogin", "starting", "await"}
    PROVE  awaits[a] = None
BY DEF SessionInv, WaitersAwaitIt

LEMMA CallKeeps ==
    ASSUME SessionInv, NEW c \in Callers, Call(c) PROVE SessionInv'
<1>1. /\ TypeOK /\ c \in Actors \ Flights /\ pc[c] \in Returned
      /\ c \notin Handles /\ c # Main
  BY DEF SessionInv, Call, Actors
<1>2. awaits[c] = None BY <1>1, NotWaiting DEF Returned
<1>3. execs' \in [Callers -> Nat] BY <1>1 DEF Call, TypeOK
<1>4. UNCHANGED <<file, cred, ccuVars, faults, restarts>> BY DEF Call
<1>5. sessionId \in Sids \cup {None} /\ used \in [Callers -> Sids \cup {None}]
  BY <1>1 DEF TypeOK
<1>6. CASE sessionId # None
  <2> DEFINE w == Request("call", sessionId)
  <2>1. w \in Wires /\ w.op # "login" BY <1>5 DEF Request, Wires
  <2>2. /\ pc' = [pc EXCEPT ![c] = "call"] /\ wire' = [wire EXCEPT ![c] = w]
        /\ used' = [used EXCEPT ![c] = sessionId]
        /\ UNCHANGED <<sessionId, closed, renewTimer, loginPromise, awaits, attempt>>
    BY <1>6 DEF Call
  <2>3. used' \in [Callers -> Sids \cup {None}] BY <1>5, <2>2
  <2>4. "call" \in CallerPcs \ {"lazy", "relogin"} BY DEF CallerPcs
  <2>5. file' \in {NoFile, file} BY <1>4
  <2> HIDE DEF w
  <2> QED BY <1>1, <1>2, <1>3, <1>4, <2>1, <2>2, <2>3, <2>4, <2>5, ActorMoves
<1>7. CASE sessionId = None
  <2>1. Login(c, "lazy") /\ used' = used BY <1>7 DEF Call
  <2> QED BY <1>1, <1>2, <1>3, <1>4, <1>5, <2>1, LoginKeeps
<1> QED BY <1>6, <1>7

LEMMA ReturnKeeps ==
    ASSUME SessionInv, NEW c \in Callers, NEW outcome \in Returned, Return(c, outcome),
           pc[c] \in {"call", "retry"},
           UNCHANGED <<execs, file, cred, ccuVars, faults, restarts>>
    PROVE  SessionInv'
<1>1. TypeOK /\ c \in Actors \ Flights /\ c \notin Handles /\ c # Main
  BY DEF SessionInv, Actors
<1>2. awaits[c] = None BY <1>1, NotWaiting
<1>3. Quiet \in Wires /\ Quiet.op # "login" BY WireTypes
<1>4. /\ pc' = [pc EXCEPT ![c] = outcome] /\ wire' = [wire EXCEPT ![c] = Quiet]
      /\ used' \in [Callers -> Sids \cup {None}] /\ execs' \in [Callers -> Nat]
      /\ UNCHANGED <<sessionId, closed, renewTimer, loginPromise, awaits, attempt>>
  BY <1>1 DEF Return, TypeOK
<1>5. outcome \in CallerPcs \ {"lazy", "relogin"} /\ file' \in {NoFile, file}
  BY DEF CallerPcs, Returned
<1> QED BY <1>1, <1>2, <1>3, <1>4, <1>5, ActorMoves

LEMMA CallerStepKeeps ==
    ASSUME SessionInv, NEW c \in Callers, CallerStep(c) PROVE SessionInv'
<1>1. CASE CallAnswered(c)
  <2>1. /\ pc[c] = "call" /\ UNCHANGED <<execs, file, cred, ccuVars, faults, restarts>>
    BY <1>1 DEF CallAnswered
  <2>2. ASSUME NEW o \in {"ok", "failed"}, Return(c, o) PROVE SessionInv'
    <3>1. o \in Returned BY DEF Returned
    <3> QED BY <2>1, <2>2, <3>1, ReturnKeeps
  <2>3. CASE Login(c, "relogin") /\ used' = [used EXCEPT ![c] = UsedSid(c)]
    <3>1. /\ c \in Actors \ Flights /\ c \notin Handles /\ c # Main /\ TypeOK
      BY DEF Actors, SessionInv
    <3>2. awaits[c] = None BY <2>1, <3>1, NotWaiting
    <3>3. UsedSid(c) \in Sids \cup {None} BY <3>1 DEF UsedSid, TypeOK, Wires
    <3>4. used' \in [Callers -> Sids \cup {None}] /\ execs' \in [Callers -> Nat]
      BY <2>1, <2>3, <3>1, <3>3 DEF TypeOK
    <3> QED BY <2>1, <2>3, <3>1, <3>2, <3>4, LoginKeeps
  <2> QED BY <1>1, <2>2, <2>3 DEF CallAnswered
<1>2. CASE RetryAnswered(c)
  <2> DEFINE o == IF wire[c].rep = "ok" THEN "ok" ELSE "failed"
  <2>1. /\ pc[c] = "retry" /\ Return(c, o)
        /\ UNCHANGED <<execs, file, cred, ccuVars, faults, restarts>>
    BY <1>2 DEF RetryAnswered
  <2>2. o \in Returned BY DEF Returned
  <2> HIDE DEF o
  <2> QED BY <2>1, <2>2, ReturnKeeps
<1> QED BY <1>1, <1>2 DEF CallerStep

LEMMA HandleMoves ==
    ASSUME SessionInv, NEW h \in Handles, pc[h] \in {"armed", "renew"},
           RenewalFires(h) \/ RenewalAnswered(h)
    PROVE  SessionInv'
<1>1. /\ TypeOK /\ h \in Actors \ Flights /\ h \notin Callers /\ h # Main
      /\ UNCHANGED <<callVars, file, cred, ccuVars, faults, restarts>>
  BY DEF SessionInv, Actors, RenewalFires, RenewalAnswered
<1>2. awaits[h] = None BY <1>1, NotWaiting
<1>3. Quiet \in Wires /\ Quiet.op # "login" BY WireTypes
<1>4. /\ used' \in [Callers -> Sids \cup {None}] /\ execs' \in [Callers -> Nat]
      /\ file' \in {NoFile, file} /\ sessionId \in Sids \cup {None}
      /\ UNCHANGED <<file, cred, ccuVars, faults, restarts>>
  BY <1>1 DEF TypeOK, callVars
<1>5. CASE RenewalFires(h)
  <2> DEFINE w == Request("renew", sessionId)
  <2>1. w \in Wires /\ w.op # "login" BY <1>4, WireTypes
  <2>2. /\ pc' = [pc EXCEPT ![h] = "renew"] /\ wire' = [wire EXCEPT ![h] = w]
        /\ UNCHANGED <<sessionId, closed, renewTimer, loginPromise, awaits, attempt>>
    BY <1>5 DEF RenewalFires
  <2> HIDE DEF w
  <2> QED BY <1>1, <1>2, <1>4, <2>1, <2>2, ActorMoves
<1>6. CASE RenewalAnswered(h) /\ wire[h].rep = "ok"
  <2> DEFINE y == IF ~closed /\ renewTimer = h THEN "armed" ELSE "idle"
  <2>1. /\ pc' = [pc EXCEPT ![h] = y] /\ wire' = [wire EXCEPT ![h] = Quiet]
        /\ UNCHANGED <<sessionId, closed, renewTimer, loginPromise, awaits, attempt>>
    BY <1>6 DEF RenewalAnswered
  <2>2. /\ y \in {"armed", "renew", "idle"} /\ (y = "armed" => h = renewTimer)
        /\ (y = "idle" => closed \/ h # renewTimer)
    OBVIOUS
  <2> HIDE DEF y
  <2> QED BY <1>1, <1>2, <1>3, <1>4, <2>1, <2>2, ActorMoves
<1>7. CASE RenewalAnswered(h) /\ wire[h].rep # "ok"
  <2>1. Login(h, "relogin") BY <1>7 DEF RenewalAnswered
  <2> QED BY <1>1, <1>2, <1>4, <2>1, LoginKeeps
<1> QED BY <1>5, <1>6, <1>7 DEF RenewalAnswered

LEMMA HandleStepKeeps ==
    ASSUME SessionInv, NEW h \in Handles, RenewalFires(h) \/ HandleStep(h) PROVE SessionInv'
BY HandleMoves DEF RenewalFires, RenewalAnswered, HandleStep

\* Boot, the steps after logout()'s await, and destroy().
LEMMA MainMoves ==
    ASSUME SessionInv, Boot \/ MainStep PROVE SessionInv'
<1>1. /\ TypeOK /\ Shutdown /\ Main \in Actors \ Flights /\ Main \notin Callers \cup Handles
  BY DEF SessionInv, Actors
<1>2. pc[Main] \in {"boot", "logout", "unlink", "out"}
  BY DEF Boot, MainStep, LogoutAnswered, ClearPersisted, Destroy
<1>3. awaits[Main] = None BY <1>1, <1>2, NotWaiting
<1>4. Quiet \in Wires /\ Quiet.op # "login" BY WireTypes
<1>5. /\ used' \in [Callers -> Sids \cup {None}] /\ execs' \in [Callers -> Nat]
      /\ UNCHANGED <<cred, ccuVars, faults, restarts>>
  BY <1>1 DEF Boot, MainStep, LogoutAnswered, ClearPersisted, Destroy, TypeOK, callVars
<1>6. CASE Boot
  <2>1. /\ pc[Main] = "boot" /\ ~closed
        /\ UNCHANGED <<file, cred, ccuVars, faults, restarts>>
    BY <1>1, <1>6 DEF Boot, Shutdown
  <2>2. CASE Login(Main, "starting")
    BY <1>1, <1>3, <1>5, <2>1, <2>2, LoginKeeps
  <2>3. CASE ~Login(Main, "starting")
    <3>1. /\ pc' = [pc EXCEPT ![Main] = "up"]
          /\ UNCHANGED <<sessionId, closed, renewTimer, loginPromise, awaits, wire, attempt>>
      BY <1>6, <2>3 DEF Boot
    <3>2. SessionInv'
      <4> DEFINE w == wire[Main]
      <4>1. w \in Wires BY <1>1 DEF TypeOK
      <4>2. w.op # "login" BY <1>1 DEF SessionInv, FlightRequests
      <4>3. wire' = [wire EXCEPT ![Main] = w] BY <1>1, <3>1 DEF TypeOK
      <4>4. "up" \in MainPcs \ {"starting", "await"} BY DEF MainPcs
      <4>5. file' \in {NoFile, file} BY <2>1
      <4> HIDE DEF w
      <4> QED BY <1>1, <1>3, <1>5, <2>1, <3>1, <4>1, <4>2, <4>3, <4>4, <4>5, ActorMoves
    <3> QED BY <3>2
  <2> QED BY <2>2, <2>3
<1>7. CASE MainStep
  <2>1. closed /\ loginPromise = None /\ renewTimer = None
    BY <1>1, <1>7 DEF Shutdown, MainStep, LogoutAnswered, ClearPersisted, Destroy
  <2>2. wire[Main] \in Wires /\ wire[Main].op # "login" /\ wire = [wire EXCEPT ![Main] = wire[Main]]
    BY <1>1 DEF SessionInv, FlightRequests, TypeOK
  <2>3. UNCHANGED <<closed, renewTimer, loginPromise, awaits, attempt>>
    BY <1>7, <2>1 DEF MainStep, LogoutAnswered, ClearPersisted, Destroy
  <2>4. PICK y \in {"unlink", "out", "gone"}, w \in {Quiet, wire[Main]} :
           /\ pc' = [pc EXCEPT ![Main] = y] /\ wire' = [wire EXCEPT ![Main] = w]
           /\ sessionId' = None /\ (sessionId' = sessionId \/ sessionId' = None)
           /\ file' \in {NoFile, file}
    <3>1. CASE LogoutAnswered BY <3>1 DEF LogoutAnswered
    <3>2. CASE ClearPersisted BY <1>1, <2>2, <3>2 DEF ClearPersisted, Shutdown
    <3>3. CASE Destroy
      <4>1. pc[Main] = "out" BY <3>3 DEF Destroy
      <4>2. Stopped(pc) = pc
        <5>1. \A b \in Actors : b # None BY DEF Actors
        <5> QED BY <1>1, <2>1, <5>1 DEF Stopped, TypeOK
      <4>3. pc' = [pc EXCEPT ![Main] = "gone"] BY <3>3, <4>2 DEF Destroy
      <4>4. sessionId = None BY <1>1, <4>1 DEF Shutdown
      <4>5. wire' = wire /\ file' = file /\ sessionId' = sessionId BY <3>3 DEF Destroy
      <4> QED BY <2>2, <4>3, <4>4, <4>5
    <3> QED BY <1>7, <3>1, <3>2, <3>3 DEF MainStep
  <2>5. w \in Wires /\ w.op # "login" BY <1>4, <2>2
  <2>6. y \in MainPcs \ {"starting", "await"} BY DEF MainPcs
  <2> QED BY <1>1, <1>3, <1>5, <2>1, <2>3, <2>4, <2>5, <2>6, ActorMoves
<1> QED BY <1>6, <1>7

LEMMA LogoutKeeps == ASSUME SessionInv, Logout PROVE SessionInv'
<1> USE DEF Actors
<1>0. /\ TypeOK /\ Shutdown /\ OneRenewalTimer /\ WaitersAwaitIt /\ Main \in Actors
      /\ (file.sid = None => file = NoFile) /\ pc[Main] = "up"
      /\ closed' = TRUE /\ renewTimer' = None
      /\ UNCHANGED <<sessionId, loginPromise, attempt, callVars, file, cred, ccuVars,
                     faults, restarts>>
  BY DEF SessionInv, Logout
<1>1. PICK y \in {"await", "logout", "out"}, w \in Wires :
         /\ pc' = [Stopped(pc) EXCEPT ![Main] = y]
         /\ wire' = [wire EXCEPT ![Main] = w] /\ w.op # "login"
         /\ y = "await" => loginPromise # None /\ awaits' = [awaits EXCEPT ![Main] = loginPromise]
         /\ y # "await" => loginPromise = None /\ awaits' = awaits
         /\ y = "out" => sessionId = None
  <2>1. wire[Main] \in Wires /\ wire[Main].op # "login" /\ wire = [wire EXCEPT ![Main] = wire[Main]]
    BY <1>0 DEF SessionInv, FlightRequests, TypeOK
  <2>2. Request("logout", sessionId) \in Wires /\ Request("logout", sessionId).op # "login"
    BY <1>0 DEF TypeOK, Request, Wires
  <2>3. CASE loginPromise # None BY <2>1, <2>3 DEF Logout
  <2>4. CASE loginPromise = None /\ sessionId # None BY <2>2, <2>4 DEF Logout
  <2>5. CASE loginPromise = None /\ sessionId = None BY <2>1, <2>5 DEF Logout
  <2> QED BY <2>3, <2>4, <2>5
<1>2. /\ pc'[Main] = y
      /\ \A a \in Actors \ {Main} :
            pc'[a] = IF a = renewTimer /\ pc[a] = "armed" THEN "idle" ELSE pc[a]
      /\ pc' = [a \in Actors |-> pc'[a]]
  BY <1>0, <1>1 DEF Stopped, TypeOK
<1>3. \A a \in Actors \ {Main} : /\ a \notin Handles => pc'[a] = pc[a]
                                 /\ wire'[a] = wire[a]
  BY <1>0, <1>1, <1>2 DEF TypeOK
<1>4. \A h \in Handles : /\ pc'[h] \in HandlePcs /\ pc'[h] # "armed"
                         /\ pc'[h] = "relogin" <=> pc[h] = "relogin"
  BY <1>0, <1>2 DEF TypeOK, OneRenewalTimer, HandlePcs
<1>5. PromiseIsFlight' /\ FlightRequests' /\ LoginOwnsSession'
  <2>1. \A g \in Flights : pc'[g] = pc[g] /\ wire'[g] = wire[g] BY <1>3
  <2>2. \A b \in Actors \ Flights : wire'[b] = wire[b] \/ wire'[b].op # "login"
    BY <1>0, <1>1, <1>3 DEF TypeOK
  <2> HIDE DEF Actors
  <2> QED BY <1>0, <2>1, <2>2, OutsideAFlight
<1>6. TypeOK'
  <2>1. \A c \in Callers : pc'[c] \in CallerPcs BY <1>0, <1>3 DEF TypeOK
  <2>2. \A g \in Flights : pc'[g] \in FlightPcs BY <1>0, <1>3 DEF TypeOK
  <2>3. pc'[Main] \in MainPcs BY <1>2 DEF MainPcs
  <2>4. pc' \in [Actors -> CallerPcs \cup FlightPcs \cup HandlePcs \cup MainPcs]
    BY <1>2, <1>4, <2>1, <2>2, <2>3
  <2>5. wire' \in [Actors -> Wires] BY <1>0, <1>1 DEF TypeOK
  <2>6. awaits' \in [Actors -> Flights \cup {None}] BY <1>0, <1>1 DEF TypeOK
  <2> QED BY <1>0, <1>4, <2>1, <2>2, <2>3, <2>4, <2>5, <2>6 DEF TypeOK, callVars, ccuVars
<1>7. WaitersAwaitIt'
  <2>1. \A a \in Actors \ {Main} : awaits'[a] = awaits[a] BY <1>0, <1>1 DEF TypeOK
  <2>2. awaits[Main] = None BY <1>0 DEF WaitersAwaitIt
  <2>3. awaits'[Main] # None <=> y = "await" BY <1>0, <1>1, <2>2 DEF TypeOK
  <2>4. awaits'[Main] # None => awaits'[Main] = loginPromise BY <1>0, <1>1, <2>2 DEF TypeOK
  <2> QED BY <1>0, <1>2, <1>3, <1>4, <2>1, <2>3, <2>4 DEF WaitersAwaitIt
<1>8. Shutdown' BY <1>0, <1>1, <1>2 DEF Shutdown
<1>9. TimerKept' BY <1>0 DEF TimerKept
<1>10. OneRenewalTimer' BY <1>4 DEF OneRenewalTimer
<1> HIDE DEF Actors
<1> QED BY <1>0, <1>5, <1>6, <1>7, <1>8, <1>9, <1>10 DEF SessionInv

\* A step of the CCU, or of the wire, answers one request.
LEMMA CcuStepKeeps ==
    ASSUME SessionInv, NEW a \in Actors, CcuStep(a) PROVE SessionInv'
<1>0. /\ TypeOK /\ PromiseIsFlight /\ WaitersAwaitIt /\ FlightRequests /\ LoginOwnsSession
      /\ Shutdown /\ TimerKept /\ OneRenewalTimer /\ (file.sid = None => file = NoFile)
      /\ UNCHANGED <<sessionId, closed, renewTimer, loginPromise, pc, awaits, attempt, used,
                     file, cred, restarts>>
  BY DEF SessionInv, CcuStep
<1>1. wire[a] \in Wires BY <1>0 DEF TypeOK
<1>2. PICK r \in {"ok", "auth", "busy", "fault"}, s \in Sids \cup {None} :
         /\ wire' = [wire EXCEPT ![a] = [op |-> wire[a].op, sid |-> s, rep |-> r]]
         /\ s = wire[a].sid \/ (pc[a] = "login" /\ a \in Flights)
         /\ a \in Flights /\ r = "ok" => s # None
  <2>0. /\ wire[a].sid \in Sids \cup {None}
        /\ a \in DOMAIN wire
    BY <1>0, <1>1 DEF Wires, TypeOK
  <2>1. ASSUME NEW r \in {"ok", "auth", "busy", "fault"}, Answered(a, r)
        PROVE  wire' = [wire EXCEPT ![a] = [op |-> wire[a].op, sid |-> wire[a].sid, rep |-> r]]
    <3>1. [wire[a] EXCEPT !.rep = r] = [op |-> wire[a].op, sid |-> wire[a].sid, rep |-> r]
      BY <1>1 DEF Wires
    <3>2. wire' = [wire EXCEPT ![a] = [wire[a] EXCEPT !.rep = r]]
      BY <2>1 DEF Answered
    <3> QED BY <3>1, <3>2
  <2>2. CASE a \in Callers /\ ProcessCall(a)
    <3>1. a \notin Flights BY <2>2
    <3>2. PICK r \in {"ok", "auth", "fault"} : Answered(a, r) BY <2>2 DEF ProcessCall, Reply
    <3>3. wire' = [wire EXCEPT ![a] = [op |-> wire[a].op, sid |-> wire[a].sid, rep |-> r]] BY <2>1, <3>2
    <3> QED BY <2>0, <3>1, <3>3
  <2>3. CASE ProcessRenew(a)
    <3> DEFINE r == IF wire[a].sid \in live THEN "ok" ELSE "auth"
    <3>1. Answered(a, r) BY <2>3 DEF ProcessRenew
    <3>2. r = "ok" => wire[a].sid # None BY <1>0 DEF TypeOK
    <3>3. r \in {"ok", "auth", "busy", "fault"} OBVIOUS
    <3> HIDE DEF r
    <3>4. wire' = [wire EXCEPT ![a] = [op |-> wire[a].op, sid |-> wire[a].sid, rep |-> r]] BY <2>1, <3>1, <3>3
    <3> QED BY <2>0, <3>2, <3>3, <3>4
  <2>4. CASE a \in Flights /\ ProcessLogin(a)
    <3>1. pc[a] = "login" BY <1>0, <2>4 DEF ProcessLogin, FlightRequests
    <3>2. CASE \E s \in Sids : Mint(s) /\ wire' = [wire EXCEPT ![a].rep = "ok", ![a].sid = s]
      <4>1. PICK s \in Sids : wire' = [wire EXCEPT ![a].rep = "ok", ![a].sid = s]
        BY <3>2
      <4>2. wire' = [wire EXCEPT ![a] = [[wire[a] EXCEPT !.rep = "ok"] EXCEPT !.sid = s]]
        BY <2>0, <4>1
      <4>3. [[wire[a] EXCEPT !.rep = "ok"] EXCEPT !.sid = s] = [op |-> wire[a].op, sid |-> s, rep |-> "ok"]
        <5>1. [wire[a] EXCEPT !.rep = "ok"] = [op |-> wire[a].op, sid |-> wire[a].sid, rep |-> "ok"]
          BY <1>1 DEF Wires
        <5>2. [[op |-> wire[a].op, sid |-> wire[a].sid, rep |-> "ok"] EXCEPT !.sid = s]
                = [op |-> wire[a].op, sid |-> s, rep |-> "ok"]
          OBVIOUS
        <5> QED BY <5>1, <5>2
      <4>4. s # None OBVIOUS
      <4> QED BY <2>4, <3>1, <4>2, <4>3, <4>4
    <3>3. CASE Answered(a, "busy")
      <4>1. wire' = [wire EXCEPT ![a] = [op |-> wire[a].op, sid |-> wire[a].sid, rep |-> "busy"]] BY <2>1, <3>3
      <4> QED BY <2>0, <4>1
    <3> QED BY <2>4, <3>2, <3>3 DEF ProcessLogin
  <2>5. CASE a = Main /\ ProcessLogout
    <3>1. Answered(a, "ok") /\ a \notin Flights BY <2>5 DEF ProcessLogout
    <3>2. wire' = [wire EXCEPT ![a] = [op |-> wire[a].op, sid |-> wire[a].sid, rep |-> "ok"]] BY <2>1, <3>1
    <3> QED BY <2>0, <3>1, <3>2
  <2>6. CASE Lose(a)
    <3>1. Answered(a, "fault") BY <2>6 DEF Lose
    <3>2. wire' = [wire EXCEPT ![a] = [op |-> wire[a].op, sid |-> wire[a].sid, rep |-> "fault"]] BY <2>1, <3>1
    <3> QED BY <2>0, <3>2
  <2> QED BY <2>2, <2>3, <2>4, <2>5, <2>6 DEF CcuStep
<1>3. /\ \A b \in Actors \ {a} : wire'[b] = wire[b]
      /\ wire'[a] \in Wires /\ wire'[a].op = wire[a].op
      /\ wire'[a].rep = r /\ wire'[a].sid = s
      /\ wire' \in [Actors -> Wires]
  <2>1. wire'[a] = [op |-> wire[a].op, sid |-> s, rep |-> r] BY <1>0, <1>2 DEF TypeOK
  <2>2. wire'[a] \in Wires /\ wire'[a].op = wire[a].op /\ wire'[a].rep = r /\ wire'[a].sid = s
    BY <1>1, <2>1 DEF Wires
  <2> QED BY <1>0, <1>2, <2>2 DEF TypeOK
<1>4. FlightRequests'
  <2>1. \A b \in Actors : wire'[b].op = "login" => b \in Flights /\ pc'[b] = "login"
    BY <1>0, <1>3 DEF FlightRequests
  <2>2. \A b \in Flights \cap Actors :
           /\ pc'[b] = "renew" => wire'[b].sid = sessionId'
           /\ pc'[b] = "restore" => wire'[b].sid # None
           /\ pc'[b] = "login" /\ wire'[b].rep = "ok" => wire'[b].sid # None
           /\ pc'[b] = "sleep" => attempt' < LOGIN_MAX_RETRIES
    BY <1>0, <1>2, <1>3 DEF FlightRequests
  <2> QED BY <2>1, <2>2 DEF FlightRequests
<1>5. LoginOwnsSession'
  <2>1. \A b \in Flights : wire'[b].sid = wire[b].sid \/ pc[b] = "login"
    BY <1>2, <1>3 DEF Actors
  <2> QED BY <1>0, <2>1 DEF LoginOwnsSession
<1>6. TypeOK'
  <2>1. execs' \in [Callers -> Nat]
    BY <1>0 DEF CcuStep, ProcessCall, ProcessRenew, ProcessLogin, ProcessLogout, Lose, TypeOK
  <2>2. faults' \in 0 .. MaxFaults
    BY <1>0 DEF CcuStep, ProcessCall, ProcessRenew, ProcessLogin, ProcessLogout, Lose, TypeOK
  <2>3. live' \in SUBSET Sids /\ minted' \in SUBSET Sids /\ credOf' \in [Sids -> Nat]
    BY <1>0 DEF CcuStep, ProcessCall, ProcessRenew, ProcessLogin, ProcessLogout, Lose, Mint,
                ccuVars, TypeOK
  <2> QED BY <1>0, <1>3, <2>1, <2>2, <2>3 DEF TypeOK
<1>7. PromiseIsFlight' /\ WaitersAwaitIt' /\ Shutdown' /\ TimerKept' /\ OneRenewalTimer'
  BY <1>0 DEF PromiseIsFlight, WaitersAwaitIt, Shutdown, TimerKept, OneRenewalTimer
<1> QED BY <1>0, <1>4, <1>5, <1>6, <1>7 DEF SessionInv

----------------------------------------------------------------------------
(* The inductive invariant and the properties it gives.                      *)

\* A process that has just started, whatever it finds in the file and on the CCU.
LEMMA FreshKeeps ==
    ASSUME sessionId' = None, closed' = FALSE, renewTimer' = None, loginPromise' = None,
           pc' = FreshPc, awaits' = [a \in Actors |-> None], wire' = [a \in Actors |-> Quiet],
           TypeOK', (file.sid = None => file = NoFile)'
    PROVE  SessionInv'
<1>1. /\ \A a \in Actors : pc'[a] = IF a = Main THEN "boot" ELSE "idle"
      /\ \A a \in Actors : awaits'[a] = None /\ wire'[a].op = "none"
  BY DEF FreshPc, Quiet
<1>2. Main \in Actors /\ \A f \in Flights \cup Handles : f \in Actors /\ f # Main /\ f # None
  BY DEF Actors
<1> QED
  BY <1>1, <1>2 DEF SessionInv, PromiseIsFlight, WaitersAwaitIt, FlightRequests,
     LoginOwnsSession, Shutdown, TimerKept, OneRenewalTimer

LEMMA InitEstablishes == Init => SessionInv
<1> SUFFICES ASSUME Init PROVE SessionInv OBVIOUS
<1>1. /\ \A a \in Actors : pc[a] = IF a = Main THEN "boot" ELSE "idle"
      /\ \A a \in Actors : awaits[a] = None /\ wire[a].op = "none"
  BY DEF Init, FreshPc, Quiet
<1>2. /\ Main \in Actors
      /\ \A a \in Callers \cup Flights \cup Handles : a \in Actors /\ a # Main /\ a # None
  BY DEF Actors
<1>3. TypeOK
  <2>1. Quiet \in Wires BY DEF Quiet, Wires
  <2>2. pc \in [Actors -> CallerPcs \cup FlightPcs \cup HandlePcs \cup MainPcs]
    BY DEF Init, FreshPc, FlightPcs, MainPcs
  <2>3. /\ \A c \in Callers : pc[c] \in CallerPcs
        /\ \A f \in Flights : pc[f] \in FlightPcs
        /\ \A h \in Handles : pc[h] \in HandlePcs
        /\ pc[Main] \in MainPcs
    BY <1>1, <1>2 DEF CallerPcs, Returned, FlightPcs, HandlePcs, MainPcs
  <2>4. wire \in [Actors -> Wires] /\ awaits \in [Actors -> Flights \cup {None}]
    BY <2>1 DEF Init
  <2>5. attempt \in 0 .. LOGIN_MAX_RETRIES /\ faults \in 0 .. MaxFaults
        /\ restarts \in 0 .. MaxRestarts
    <3>1. attempt = 0 /\ faults = 0 /\ restarts = 0 BY DEF Init
    <3> QED BY <3>1
  <2>6. /\ used \in [Callers -> Sids \cup {None}] /\ execs \in [Callers -> Nat]
        /\ file \in [sid : Sids \cup {None}, cred : Nat] /\ cred \in Nat
        /\ live \in SUBSET Sids /\ minted \in SUBSET Sids /\ credOf \in [Sids -> Nat]
    BY DEF Init, NoFile
  <2>7. /\ sessionId \in Sids \cup {None} /\ closed \in BOOLEAN
        /\ renewTimer \in Handles \cup {None} /\ loginPromise \in Flights \cup {None}
    BY DEF Init
  <2> QED BY <2>2, <2>3, <2>4, <2>5, <2>6, <2>7 DEF TypeOK
<1> QED
  BY <1>1, <1>2, <1>3 DEF Init, SessionInv, PromiseIsFlight, WaitersAwaitIt, FlightRequests,
     LoginOwnsSession, Shutdown, TimerKept, OneRenewalTimer

LEMMA RestartKeeps == ASSUME SessionInv, Restart PROVE SessionInv'
<1>1. TypeOK /\ (file.sid = None => file = NoFile) BY DEF SessionInv
<1>2. /\ \A a \in Actors : pc'[a] = IF a = Main THEN "boot" ELSE "idle"
      /\ \A a \in Actors : awaits'[a] = None /\ wire'[a] = Quiet
      /\ pc' = [a \in Actors |-> pc'[a]]
  BY DEF Restart, FreshPc
<1>3. /\ Main \in Actors
      /\ \A a \in Callers \cup Flights \cup Handles : a \in Actors /\ a # Main /\ a # None
  BY DEF Actors
<1>4. TypeOK'
  <2>1. \A c \in Callers : pc'[c] \in CallerPcs BY <1>2, <1>3 DEF CallerPcs, Returned
  <2>2. /\ \A f \in Flights : pc'[f] \in FlightPcs
        /\ \A h \in Handles : pc'[h] \in HandlePcs
        /\ pc'[Main] \in MainPcs
    BY <1>2, <1>3 DEF FlightPcs, HandlePcs, MainPcs
  <2>3. pc' \in [Actors -> CallerPcs \cup FlightPcs \cup HandlePcs \cup MainPcs]
    BY <1>2 DEF FlightPcs, MainPcs
  <2>4. wire' \in [Actors -> Wires] /\ awaits' \in [Actors -> Flights \cup {None}]
    BY WireTypes DEF Restart
  <2>5. /\ used' \in [Callers -> Sids \cup {None}] /\ execs' \in [Callers -> Nat]
        /\ attempt' \in 0 .. LOGIN_MAX_RETRIES /\ restarts' \in 0 .. MaxRestarts
        /\ cred' \in Nat
    BY <1>1 DEF Restart, TypeOK
  <2> QED BY <1>1, <2>1, <2>2, <2>3, <2>4, <2>5 DEF Restart, TypeOK, ccuVars
<1> QED BY <1>1, <1>4, FreshKeeps DEF Restart

LEMMA ExpireKeeps == ASSUME SessionInv, NEW s \in Sids, Expire(s) PROVE SessionInv'
BY DEF SessionInv, Expire, TypeOK, PromiseIsFlight, WaitersAwaitIt, FlightRequests,
   LoginOwnsSession, Shutdown, TimerKept, OneRenewalTimer, callVars

LEMMA StutterKeeps == ASSUME SessionInv, UNCHANGED vars PROVE SessionInv'
BY DEF SessionInv, vars, TypeOK, PromiseIsFlight, WaitersAwaitIt, FlightRequests,
   LoginOwnsSession, Shutdown, TimerKept, OneRenewalTimer, callVars, ccuVars

LEMMA NextKeeps == SessionInv /\ [Next]_vars => SessionInv'
<1> SUFFICES ASSUME SessionInv, [Next]_vars PROVE SessionInv' OBVIOUS
<1>1. ASSUME NEW f \in Flights, FlightStep(f) PROVE SessionInv' BY <1>1, FlightStepKeeps
<1>2. ASSUME NEW c \in Callers, Call(c) \/ CallerStep(c) PROVE SessionInv'
  BY <1>2, CallKeeps, CallerStepKeeps
<1>3. ASSUME NEW h \in Handles, RenewalFires(h) \/ HandleStep(h) PROVE SessionInv'
  BY <1>3, HandleStepKeeps
<1>4. CASE Boot \/ MainStep BY <1>4, MainMoves
<1>5. CASE Logout BY <1>5, LogoutKeeps
<1>6. ASSUME NEW a \in Actors, CcuStep(a) PROVE SessionInv' BY <1>6, CcuStepKeeps
<1>7. ASSUME NEW s \in Sids, Expire(s) PROVE SessionInv' BY <1>7, ExpireKeeps
<1>8. CASE Restart BY <1>8, RestartKeeps
<1>9. CASE UNCHANGED vars BY <1>9, StutterKeeps
<1> QED BY <1>1, <1>2, <1>3, <1>4, <1>5, <1>6, <1>7, <1>8, <1>9 DEF Next

\* The invariant holds of every run of the session manager.
THEOREM SessionCorrect == Spec => []SessionInv
BY InitEstablishes, NextKeeps, PTL DEF Spec

\* Every variable of the session manager stays within its type.
THEOREM TypeCorrect == Spec => []TypeOK
<1>1. SessionInv => TypeOK BY DEF SessionInv
<1> QED BY <1>1, SessionCorrect, PTL

\* login() never runs doLogin() twice at the same time.
THEOREM LoginIsSingleFlight == Spec => []SingleFlight
<1>1. SessionInv => SingleFlight BY DEF SessionInv, PromiseIsFlight, SingleFlight
<1> QED BY <1>1, SessionCorrect, PTL

\* No renewal timeout is armed that stopRenewal() could not clear.
THEOREM OneTimerOnly == Spec => []OneRenewalTimer
<1>1. SessionInv => OneRenewalTimer BY DEF SessionInv
<1> QED BY <1>1, SessionCorrect, PTL

\* As long as there is a session, the renewal loop is running.
THEOREM RenewalGoesOn == Spec => []RenewalAlive
<1>1. SessionInv => RenewalAlive
  <2> SUFFICES ASSUME SessionInv, sessionId # None, ~closed PROVE
         renewTimer # None /\ pc[renewTimer] \in {"armed", "renew", "relogin"}
    BY DEF RenewalAlive
  <2>1. renewTimer # None /\ renewTimer \in Handles /\ pc[renewTimer] # "idle"
    BY DEF SessionInv, TypeOK, TimerKept
  <2> QED BY <2>1 DEF SessionInv, TypeOK, HandlePcs
<1> QED BY <1>1, SessionCorrect, PTL

\* logout() returns with no session, no timer and no login in flight.
THEOREM LogoutIsFinal == Spec => []LoggedOut
<1>1. SessionInv => LoggedOut
  BY DEF SessionInv, Shutdown, PromiseIsFlight, OneRenewalTimer, LoggedOut
<1> QED BY <1>1, SessionCorrect, PTL

\* A running login works on the session in memory, or on none.
THEOREM LoginKeepsItsSession == Spec => []LoginOwnsSession
<1>1. SessionInv => LoginOwnsSession BY DEF SessionInv
<1> QED BY <1>1, SessionCorrect, PTL

\* Once logout() is past the login it waited for, no step of any other actor
\* creates a session or arms a timer.
THEOREM ClosedForGood == Spec => ClosedStaysClosed
<1> DEFINE ending == pc[Main] \in {"logout", "unlink", "out", "gone"}
           Quietly == minted' = minted /\ \A h \in Handles : pc'[h] = "armed" => pc[h] = "armed"
<1>1. ASSUME SessionInv, Next, ending, restarts' = restarts PROVE Quietly
  <2>0. /\ TypeOK /\ closed /\ loginPromise = None /\ renewTimer = None
        /\ \A f \in Flights : pc[f] = "idle"
        /\ \A a \in Actors : wire[a].op # "login"
        /\ \A h \in Handles : h \in Actors /\ h # Main /\ h # None
    BY <1>1 DEF SessionInv, Shutdown, PromiseIsFlight, FlightRequests, Actors
  <2>1. ASSUME NEW a \in Actors \ Handles, NEW y, pc' = [pc EXCEPT ![a] = y], minted' = minted
        PROVE  Quietly
    BY <2>0, <2>1 DEF TypeOK
  <2>2. ASSUME NEW a \in Actors, NEW x, Login(a, x), minted' = minted PROVE Quietly
    <3>1. pc' = [pc EXCEPT ![a] = Rejected(a)] BY <2>0, <2>2 DEF Login
    <3>2. a \in Handles => Rejected(a) = "idle" BY DEF Rejected
    <3> QED BY <2>0, <2>2, <3>1, <3>2 DEF TypeOK
  <2>3. \A c \in Callers : c \in Actors \ Handles BY DEF Actors
  <2>4. Main \in Actors \ Handles BY DEF Actors
  <2>5. ASSUME NEW f \in Flights, FlightStep(f) PROVE FALSE
    BY <2>0, <2>5 DEF FlightStep, RenewAnswered, ReadFile, RestoreAnswered, LoginAnswered,
                      Wake, Persist
  <2>6. ASSUME NEW c \in Callers, Call(c) \/ CallerStep(c) PROVE Quietly
    <3>1. minted' = minted
      BY <2>6 DEF Call, CallerStep, CallAnswered, RetryAnswered, ccuVars
    <3>2. CASE \E x : Login(c, x) BY <2>2, <2>3, <3>1, <3>2
    <3>3. CASE \E y : pc' = [pc EXCEPT ![c] = y] BY <2>1, <2>3, <3>1, <3>3
    <3> QED BY <2>6, <3>2, <3>3 DEF Call, CallerStep, CallAnswered, RetryAnswered, Return
  <2>7. ASSUME NEW h \in Handles, RenewalFires(h) \/ HandleStep(h) PROVE Quietly
    <3>1. minted' = minted BY <2>7 DEF RenewalFires, HandleStep, RenewalAnswered, ccuVars
    <3>2. CASE Login(h, "relogin") BY <2>0, <2>2, <3>1, <3>2
    <3>3. CASE pc' = [pc EXCEPT ![h] = "renew"] BY <2>0, <3>1, <3>3 DEF TypeOK
    <3>4. CASE pc' = [pc EXCEPT ![h] = "idle"] BY <2>0, <3>1, <3>4 DEF TypeOK
    <3> QED BY <2>0, <2>7, <3>2, <3>3, <3>4 DEF RenewalFires, HandleStep, RenewalAnswered
  <2>8. CASE Boot \/ Logout BY <1>1, <2>8 DEF Boot, Logout
  <2>9. CASE MainStep
    <3>1. minted' = minted
      BY <2>9 DEF MainStep, LogoutAnswered, ClearPersisted, Destroy, ccuVars
    <3>2. CASE \E y : pc' = [pc EXCEPT ![Main] = y] BY <2>1, <2>4, <3>1, <3>2
    <3>3. CASE pc' = [Stopped(pc) EXCEPT ![Main] = "gone"]
      BY <2>0, <3>1, <3>3 DEF Stopped, TypeOK
    <3> QED BY <2>9, <3>2, <3>3 DEF MainStep, LogoutAnswered, ClearPersisted, Destroy
  <2>10. ASSUME NEW a \in Actors, CcuStep(a) PROVE Quietly
    <3>1. pc' = pc BY <2>10 DEF CcuStep
    <3>2. minted' = minted
      BY <2>0, <2>10 DEF CcuStep, ProcessCall, ProcessRenew, ProcessLogin, ProcessLogout, Lose,
                         ccuVars
    <3> QED BY <3>1, <3>2
  <2>11. ASSUME NEW s \in Sids, Expire(s) PROVE Quietly BY <2>11 DEF Expire
  <2>12. CASE Restart BY <1>1, <2>0, <2>12 DEF Restart, TypeOK
  <2> QED
    BY <1>1, <2>5, <2>6, <2>7, <2>8, <2>9, <2>10, <2>11, <2>12 DEF Next
<1>2. SessionInv /\ [Next]_vars => [ending /\ restarts' = restarts => Quietly]_vars
  BY <1>1
<1> QED BY <1>2, SessionCorrect, PTL DEF ClosedStaysClosed, Spec

----------------------------------------------------------------------------
(* What a step of a flight leaves behind, as far as calls, sessions and the  *)
(* CCU are concerned.                                                        *)

\* A waiting call goes on when the flight has settled, any other one does not.
CallServed(c) ==
    \/ /\ pc[c] \in {"lazy", "relogin"} /\ pc'[c] \in {"failed", "denied"} /\ wire'[c] = Quiet
       /\ pc'[c] = "denied" => pc[c] = "relogin" /\ sessionId' = used[c]
    \/ pc[c] \in {"lazy", "relogin"} /\ pc'[c] \in {"call", "retry"} /\ wire'[c] = Request("call", sessionId')
    \/ pc[c] \notin {"lazy", "relogin"} /\ pc'[c] = pc[c] /\ wire'[c] = wire[c]

MainServed ==
    \/ pc'[Main] = "logout" /\ wire'[Main] = Request("logout", sessionId')
    \/ pc'[Main] \in {"up", "out"} /\ wire'[Main] = Quiet
    \/ pc[Main] # "logout" /\ pc'[Main] = pc[Main] /\ wire'[Main] = wire[Main]

FlightEnds(f) ==
    /\ \A g \in Flights : pc'[g] = "idle"
    /\ \A c \in Callers : CallServed(c)
    /\ MainServed
    /\ \/ pc[f] = "renew" /\ sessionId' = sessionId /\ file' = file
       \/ pc[f] \in {"read", "restore", "sleep"} /\ sessionId' = sessionId /\ file' = file
       \/ pc[f] = "login" /\ wire[f].rep # "ok" /\ sessionId' = sessionId /\ file' = file
       \/ pc[f] = "restore" /\ sessionId' = wire[f].sid /\ file' = file
       \/ pc[f] = "persist" /\ sessionId' = sessionId /\ file' \in {[sid |-> sessionId, cred |-> cred], file}

FlightGoesOn(f) ==
    /\ \A a \in Actors : a \notin Handles /\ a # f => pc'[a] = pc[a]
    /\ \A a \in Actors : a # f => wire'[a] = wire[a]
    /\ file' = file /\ used' = used
    /\ \/ pc[f] = "renew" /\ wire[f].rep \notin {"none", "ok"} /\ sessionId' = None
             /\ pc'[f] = "read" /\ wire'[f] = Quiet
       \/ pc[f] = "read" /\ Restorable /\ sessionId' = sessionId
             /\ pc'[f] = "restore" /\ wire'[f] = Request("renew", file.sid)
       \/ pc[f] \in {"read", "restore", "sleep"} /\ sessionId' = sessionId
             /\ pc'[f] = "login" /\ wire'[f] = Request("login", None)
       \/ pc[f] = "login" /\ wire[f].rep = "ok" /\ sessionId' = wire[f].sid
             /\ pc'[f] = "persist" /\ wire'[f] = Quiet
       \/ pc[f] = "login" /\ wire[f].rep # "ok" /\ sessionId' = sessionId
             /\ pc'[f] = "sleep" /\ wire'[f] = Quiet

LEMMA SettleServes ==
    ASSUME SessionInv, SessionInv', NEW f \in Flights, pc[f] # "idle",
           NEW ok \in BOOLEAN, NEW s, NEW t, NEW p, t \in Handles \cup {None},
           \A a \in Actors : a \notin Handles => p[a] = pc[a],
           Settle(f, ok, s, t, p)
    PROVE  /\ sessionId' = s
           /\ \A g \in Flights : pc'[g] = "idle"
           /\ \A c \in Callers : CallServed(c)
           /\ MainServed
<1> USE DEF Actors
<1>0. f = loginPromise /\ f # None /\ Main \in Actors /\ TypeOK BY OneFlight DEF SessionInv
<1>1. sessionId' = s /\ loginPromise' = None BY DEF Settle
<1>2. \A g \in Flights : pc'[g] = "idle" BY <1>1 DEF SessionInv, PromiseIsFlight
<1>3. \A a \in Actors : a \notin Handles /\ a # f /\ awaits[a] # f => pc'[a] = pc[a] /\ wire'[a] = wire[a]
  BY DEF Settle
<1>4. \A a \in Actors : awaits[a] = f =>
         pc'[a] = Continuation(a, ok, s, t) /\ wire'[a] = RequestOf(Continuation(a, ok, s, t), s)
  BY DEF Settle
<1>5. \A a \in Actors :
        awaits[a] = f <=> \/ a \in Callers /\ pc[a] \in {"lazy", "relogin"}
                          \/ a \in Handles /\ pc[a] = "relogin"
                          \/ a = Main /\ pc[a] \in {"starting", "await"}
  BY <1>0 DEF SessionInv, WaitersAwaitIt
<1>6. ASSUME NEW c \in Callers PROVE CallServed(c)
  <2>0. c \in Actors /\ c \notin Handles /\ c # f /\ c # Main OBVIOUS
  <2>1. CASE awaits[c] = f
    <3>1. Continuation(c, ok, s, t) \in {"failed", "call", "denied", "retry"} BY <2>0, ContinuationType
    <3>2. pc[c] \in {"lazy", "relogin"} BY <1>5, <2>0, <2>1
    <3>3. Continuation(c, ok, s, t) = "denied" => pc[c] = "relogin" /\ s = used[c]
      BY <2>0, <3>2 DEF Continuation
    <3> QED BY <1>1, <1>4, <2>0, <2>1, <3>1, <3>2, <3>3 DEF CallServed, RequestOf
  <2>2. CASE awaits[c] # f BY <1>3, <1>5, <2>0, <2>2 DEF CallServed
  <2> QED BY <2>1, <2>2
<1>7. MainServed
  <2>0. Main \notin Handles /\ Main \notin Callers /\ Main # f OBVIOUS
  <2>1. CASE awaits[Main] = f
    <3>1. pc[Main] \in {"starting", "await"} BY <1>0, <1>5, <2>0, <2>1
    <3>2. Continuation(Main, ok, s, t) \in {"up", "logout", "out"} BY <1>0, <3>1, ContinuationType
    <3>3. /\ RequestOf("up", s) = Quiet /\ RequestOf("out", s) = Quiet
          /\ RequestOf("logout", s) = Request("logout", s)
      BY DEF RequestOf
    <3> QED BY <1>0, <1>1, <1>4, <2>1, <3>2, <3>3 DEF MainServed
  <2>2. CASE awaits[Main] # f
    <3>1. pc[Main] # "logout" BY <1>0 DEF SessionInv, Shutdown
    <3> QED BY <1>0, <1>3, <2>0, <2>2, <3>1 DEF MainServed
  <2> QED BY <2>1, <2>2
<1> QED BY <1>1, <1>2, <1>6, <1>7

LEMMA FlightStepShape ==
    ASSUME SessionInv, NEW f \in Flights, FlightStep(f), SessionInv'
    PROVE  /\ pc[f] # "idle" /\ UNCHANGED <<execs, cred, live, minted, credOf, faults, restarts>>
           /\ FlightEnds(f) \/ FlightGoesOn(f)
<1>0. /\ TypeOK /\ f \in Actors /\ f \notin Handles /\ renewTimer \in Handles \cup {None}
      /\ pc[f] # "idle" /\ UNCHANGED <<execs, cred, live, minted, credOf, faults, restarts>>
  BY DEF SessionInv, TypeOK, Actors, FlightStep, RenewAnswered, ReadFile, RestoreAnswered, LoginAnswered, Wake,
         Persist, TryLogin, ccuVars, callVars
<1> SUFFICES FlightEnds(f) \/ FlightGoesOn(f) BY <1>0
<1>1. ASSUME NEW x, NEW w, pc' = [pc EXCEPT ![f] = x], wire' = [wire EXCEPT ![f] = w]
      PROVE  /\ \A a \in Actors : a \notin Handles /\ a # f => pc'[a] = pc[a]
             /\ \A a \in Actors : a # f => wire'[a] = wire[a]
             /\ pc'[f] = x /\ wire'[f] = w
  BY <1>0, <1>1 DEF TypeOK
<1>2. ASSUME NEW ok \in BOOLEAN, Settle(f, ok, sessionId, renewTimer, pc)
      PROVE  /\ sessionId' = sessionId /\ \A g \in Flights : pc'[g] = "idle"
             /\ \A c \in Callers : CallServed(c)
             /\ MainServed
  <2>1. \A a \in Actors : a \notin Handles => pc[a] = pc[a] OBVIOUS
  <2> QED BY <1>0, <1>2, <2>1, SettleServes
<1>3. ASSUME NEW h \in FreeHandles
      PROVE  h \in Handles /\ \A a \in Actors : a \notin Handles => Rescheduled(h)[a] = pc[a]
  BY TimersRestarted DEF TimersAs, FreeHandles
<1>4. ASSUME NEW n, pc[f] \in {"read", "restore", "sleep"}, TryLogin(f, n) PROVE FlightEnds(f) \/ FlightGoesOn(f)
  <2>1. CASE closed BY <1>2, <1>4, <2>1 DEF TryLogin, FlightEnds
  <2>2. CASE ~closed
    <3>1. /\ pc' = [pc EXCEPT ![f] = "login"] /\ wire' = [wire EXCEPT ![f] = Request("login", None)]
          /\ sessionId' = sessionId /\ file' = file /\ used' = used
      BY <1>4, <2>2 DEF TryLogin
    <3> QED BY <1>1, <1>4, <3>1 DEF FlightGoesOn
  <2> QED BY <2>1, <2>2
<1>5. CASE RenewAnswered(f)
  <2>1. CASE wire[f].rep = "ok" BY <1>2, <1>5, <2>1 DEF RenewAnswered, FlightEnds
  <2>2. CASE wire[f].rep # "ok"
    <3>1. /\ pc' = [pc EXCEPT ![f] = "read"] /\ wire' = [wire EXCEPT ![f] = Quiet] /\ pc[f] = "renew"
          /\ sessionId' = None /\ file' = file /\ used' = used /\ wire[f].rep # "none"
      BY <1>5, <2>2 DEF RenewAnswered
    <3> QED BY <1>1, <2>2, <3>1 DEF FlightGoesOn
  <2> QED BY <2>1, <2>2
<1>6. CASE ReadFile(f)
  <2>1. CASE Restorable
    <3>1. /\ pc' = [pc EXCEPT ![f] = "restore"] /\ wire' = [wire EXCEPT ![f] = Request("renew", file.sid)]
          /\ pc[f] = "read" /\ sessionId' = sessionId /\ file' = file /\ used' = used
      BY <1>6, <2>1 DEF ReadFile, callVars
    <3> QED BY <1>1, <2>1, <3>1 DEF FlightGoesOn
  <2>2. CASE ~Restorable BY <1>4, <1>6, <2>2 DEF ReadFile
  <2> QED BY <2>1, <2>2
<1>7. CASE RestoreAnswered(f)
  <2>1. CASE wire[f].rep = "ok"
    <3>1. PICK h \in FreeHandles : Settle(f, TRUE, wire[f].sid, h, Rescheduled(h)) BY <1>7, <2>1 DEF RestoreAnswered
    <3>2. h \in Handles \cup {None} /\ \A a \in Actors : a \notin Handles => Rescheduled(h)[a] = pc[a] BY <1>3
    <3>3. PICK p, s : p = Rescheduled(h) /\ s = wire[f].sid OBVIOUS
    <3>4. Settle(f, TRUE, s, h, p) /\ \A a \in Actors : a \notin Handles => p[a] = pc[a] BY <3>1, <3>2, <3>3
    <3>5. /\ sessionId' = s /\ \A g \in Flights : pc'[g] = "idle"
          /\ \A c \in Callers : CallServed(c)
          /\ MainServed
      BY <1>0, <3>2, <3>4, SettleServes
    <3> QED BY <1>7, <2>1, <3>3, <3>5 DEF RestoreAnswered, FlightEnds
  <2>2. CASE wire[f].rep # "ok"
    <3>1. pc[f] = "restore" /\ TryLogin(f, 0) BY <1>7, <2>2 DEF RestoreAnswered
    <3> QED BY <1>4, <3>1
  <2> QED BY <2>1, <2>2
<1>8. CASE LoginAnswered(f)
  <2>1. CASE wire[f].rep = "ok"
    <3>1. PICK h \in FreeHandles : pc' = [Rescheduled(h) EXCEPT ![f] = "persist"]
      BY <1>8, <2>1 DEF LoginAnswered
    <3>2. DOMAIN Rescheduled(h) = Actors BY DEF Rescheduled, Stopped
    <3>3. pc'[f] = "persist" /\ \A a \in Actors : a \notin Handles /\ a # f => pc'[a] = pc[a]
      BY <1>0, <1>3, <3>1, <3>2
    <3>4. /\ wire' = [wire EXCEPT ![f] = Quiet] /\ sessionId' = wire[f].sid /\ file' = file /\ pc[f] = "login"
          /\ used' = used
      BY <1>8, <2>1 DEF LoginAnswered
    <3>5. wire'[f] = Quiet /\ \A a \in Actors : a # f => wire'[a] = wire[a] BY <1>0, <3>4 DEF TypeOK
    <3> QED BY <2>1, <3>3, <3>4, <3>5 DEF FlightGoesOn
  <2>2. CASE wire[f].rep # "ok" /\ pc' = [pc EXCEPT ![f] = "sleep"]
              /\ wire' = [wire EXCEPT ![f] = Quiet] /\ sessionId' = sessionId /\ used' = used
    BY <1>1, <1>8, <2>2 DEF LoginAnswered, FlightGoesOn
  <2>3. CASE wire[f].rep # "ok" /\ Settle(f, FALSE, sessionId, renewTimer, pc)
    BY <1>2, <1>8, <2>3 DEF LoginAnswered, FlightEnds
  <2> QED BY <1>8, <2>1, <2>2, <2>3 DEF LoginAnswered
<1>9. CASE Wake(f) BY <1>4, <1>9 DEF Wake
<1>10. CASE Persist(f) BY <1>2, <1>10 DEF Persist, FlightEnds
<1> QED BY <1>5, <1>6, <1>7, <1>8, <1>9, <1>10 DEF FlightStep

----------------------------------------------------------------------------
(* What the steps of everybody else leave behind, those of the CCU and a     *)
(* restart aside.                                                            *)

CallerGoesOn(c) ==
    \/ pc'[c] = pc[c] /\ wire'[c] = wire[c] /\ execs'[c] = execs[c] /\ used'[c] = used[c]
    \/ /\ pc[c] \in Returned /\ execs'[c] = 0
       /\ \/ pc'[c] = "call" /\ wire'[c] = Request("call", sessionId)
          \/ pc'[c] \in {"lazy", "failed"} /\ wire'[c] = Quiet
    \/ /\ pc[c] \in {"call", "retry"} /\ execs'[c] = execs[c] /\ wire'[c] = Quiet
       /\ \/ wire[c].rep = "ok" /\ pc'[c] = "ok"
          \/ /\ wire[c].rep = "auth" /\ pc'[c] \in {"relogin", "failed"}
             /\ pc[c] = "call" /\ used'[c] = wire[c].sid
          \/ pc'[c] = "failed"

FlightStarts(f) ==
    \/ pc'[f] = pc[f] /\ wire'[f] = wire[f]
    \/ pc[f] = "idle" /\ pc'[f] = "read" /\ wire'[f] = Quiet
    \/ pc[f] = "idle" /\ pc'[f] = "renew" /\ wire'[f] = Request("renew", sessionId)

MainGoesOn ==
    \/ pc'[Main] = pc[Main] /\ wire'[Main] = wire[Main] /\ sessionId' = sessionId
    \/ pc'[Main] = "logout" /\ wire'[Main] = Request("logout", sessionId) /\ sessionId' = sessionId
    \/ pc[Main] = "logout" /\ wire[Main].rep # "none" /\ sessionId' = None /\ pc'[Main] = "unlink"
    \/ pc[Main] # "logout" /\ pc'[Main] # "logout" /\ sessionId' = sessionId

Aside ==
    /\ \A c \in Callers : CallerGoesOn(c)
    /\ \A f \in Flights : FlightStarts(f)
    /\ MainGoesOn
    /\ file' \in {NoFile, file}
    /\ live' \subseteq live /\ UNCHANGED <<cred, minted, credOf, faults, restarts>>

\* A step of one actor that is no flight.
Alone(a) ==
    /\ \A b \in Actors \ Flights : b # a /\ b \notin Handles => pc'[b] = pc[b] /\ wire'[b] = wire[b]
    /\ \A f \in Flights : FlightStarts(f)

LEMMA LoginAlone ==
    ASSUME SessionInv, NEW a \in Actors \ Flights, NEW waiting, Login(a, waiting)
    PROVE  /\ Alone(a) /\ sessionId' = sessionId
           /\ pc'[a] \in {waiting, Rejected(a)} /\ wire'[a] = Quiet
<1>0. /\ DOMAIN pc = Actors /\ DOMAIN wire = Actors /\ Flights \subseteq Actors
      /\ sessionId' = sessionId
  BY DEF SessionInv, TypeOK, Actors, Login
<1>1. ASSUME NEW x, pc' = [pc EXCEPT ![a] = x], wire' = [wire EXCEPT ![a] = Quiet]
      PROVE  Alone(a) /\ pc'[a] = x /\ wire'[a] = Quiet
  BY <1>0, <1>1 DEF Alone, FlightStarts
<1>2. CASE Joins BY <1>0, <1>1, <1>2 DEF Login
<1>3. CASE ~Joins /\ Barred BY <1>0, <1>1, <1>3 DEF Login
<1>4. CASE ~Joins /\ ~Barred
  <2>1. PICK f \in Flights :
           /\ pc[f] = "idle"
           /\ pc' = [pc EXCEPT ![a] = waiting, ![f] = Opening]
           /\ wire' = [wire EXCEPT ![a] = Quiet,
                                   ![f] = IF Opening = "read" THEN Quiet ELSE Request("renew", sessionId)]
    BY <1>4 DEF Login
  <2>2. /\ \A b \in Actors : b # a /\ b # f => pc'[b] = pc[b] /\ wire'[b] = wire[b]
        /\ pc'[a] = waiting /\ wire'[a] = Quiet
        /\ pc'[f] = Opening
        /\ wire'[f] = IF Opening = "read" THEN Quiet ELSE Request("renew", sessionId)
    BY <1>0, <2>1
  <2>3. FlightStarts(f) BY <2>1, <2>2 DEF FlightStarts
  <2>4. \A g \in Flights : FlightStarts(g) BY <1>0, <2>2, <2>3 DEF FlightStarts
  <2> QED BY <1>0, <2>2, <2>4 DEF Alone
<1> QED BY <1>2, <1>3, <1>4

LEMMA AsideShape ==
    ASSUME SessionInv,
           \/ \E c \in Callers : Call(c) \/ CallerStep(c)
           \/ \E h \in Handles : RenewalFires(h) \/ HandleStep(h)
           \/ Boot \/ Logout \/ MainStep
           \/ \E s \in Sids : Expire(s)
           \/ UNCHANGED vars
    PROVE  Aside
<1>0. /\ DOMAIN pc = Actors /\ DOMAIN wire = Actors /\ DOMAIN execs = Callers /\ DOMAIN used = Callers
      /\ Callers \subseteq Actors \ (Flights \cup Handles) /\ Flights \subseteq Actors
      /\ Handles \subseteq Actors \ Flights
      /\ Main \in Actors \ (Flights \cup Handles) /\ Main \notin Callers
  BY DEF SessionInv, TypeOK, Actors
<1>1. ASSUME NEW a \in Actors \ Flights, NEW x, NEW w, pc' = [pc EXCEPT ![a] = x],
             wire' = [wire EXCEPT ![a] = w] \/ (wire' = wire /\ w = wire[a])
      PROVE  Alone(a) /\ pc'[a] = x /\ wire'[a] = w
  BY <1>0, <1>1 DEF Alone, FlightStarts
<1>2. ASSUME NEW c \in Callers, Call(c) \/ CallerStep(c) PROVE Aside
  <2>1. /\ UNCHANGED <<file, cred, live, minted, credOf, faults, restarts>> /\ sessionId' = sessionId
        /\ \A d \in Callers : d # c => execs'[d] = execs[d] /\ used'[d] = used[d]
    BY <1>0, <1>2 DEF Call, CallerStep, CallAnswered, RetryAnswered, Return, Login, ccuVars
  <2>2. Alone(c) /\ CallerGoesOn(c)
    <3>1. ASSUME NEW o, Return(c, o) PROVE Alone(c) /\ pc'[c] = o /\ wire'[c] = Quiet
      BY <1>0, <1>1, <3>1 DEF Return
    <3>2. ASSUME NEW x, Login(c, x) PROVE Alone(c) /\ pc'[c] \in {x, "failed"} /\ wire'[c] = Quiet
      BY <1>0, <3>2, LoginAlone DEF Rejected
    <3>3. CASE Call(c)
      <4>1. execs'[c] = 0 /\ pc[c] \in Returned BY <1>0, <3>3 DEF Call
      <4>2. CASE sessionId # None
        <5>1. pc' = [pc EXCEPT ![c] = "call"] /\ wire' = [wire EXCEPT ![c] = Request("call", sessionId)]
          BY <3>3, <4>2 DEF Call
        <5> QED BY <1>0, <1>1, <4>1, <5>1 DEF CallerGoesOn
      <4>3. CASE sessionId = None
        <5>1. Login(c, "lazy") BY <3>3, <4>3 DEF Call
        <5> QED BY <3>2, <4>1, <5>1 DEF CallerGoesOn
      <4> QED BY <4>2, <4>3
    <3>4. CASE CallAnswered(c)
      <4>1. execs' = execs /\ pc[c] = "call" BY <3>4 DEF CallAnswered
      <4>2. CASE wire[c].rep = "ok" /\ Return(c, "ok") BY <3>1, <4>1, <4>2 DEF CallerGoesOn
      <4>3. CASE Return(c, "failed") BY <3>1, <4>1, <4>3 DEF CallerGoesOn
      <4>4. CASE wire[c].rep = "auth" /\ Login(c, "relogin") /\ used' = [used EXCEPT ![c] = UsedSid(c)]
        <5>1. used'[c] = wire[c].sid BY <1>0, <4>4 DEF UsedSid
        <5> QED BY <3>2, <4>1, <4>4, <5>1 DEF CallerGoesOn
      <4> QED BY <3>4, <4>2, <4>3, <4>4 DEF CallAnswered, Relogins
    <3>5. CASE RetryAnswered(c) BY <3>1, <3>5 DEF RetryAnswered, CallerGoesOn
    <3> QED BY <1>2, <3>3, <3>4, <3>5 DEF CallerStep
  <2>3. \A d \in Callers : CallerGoesOn(d) BY <1>0, <2>1, <2>2 DEF Alone, CallerGoesOn
  <2>4. MainGoesOn BY <1>0, <2>1, <2>2 DEF Alone, MainGoesOn
  <2> QED BY <2>1, <2>2, <2>3, <2>4 DEF Aside, Alone
<1>3. ASSUME NEW h \in Handles, RenewalFires(h) \/ HandleStep(h) PROVE Aside
  <2>1. /\ UNCHANGED <<execs, used, file, cred, live, minted, credOf, faults, restarts>> /\ sessionId' = sessionId
    BY <1>3 DEF RenewalFires, HandleStep, RenewalAnswered, Login, callVars, ccuVars
  <2>2. Alone(h)
    <3>1. h \in Actors \ Flights BY <1>0
    <3>2. CASE Login(h, "relogin") BY <3>1, <3>2, LoginAlone
    <3>3. CASE \E x, w : pc' = [pc EXCEPT ![h] = x] /\ wire' = [wire EXCEPT ![h] = w] BY <1>1, <3>1, <3>3
    <3> QED BY <1>3, <3>2, <3>3 DEF RenewalFires, HandleStep, RenewalAnswered
  <2> QED BY <1>0, <2>1, <2>2 DEF Aside, Alone, CallerGoesOn, MainGoesOn
<1>4. CASE Boot \/ Logout \/ MainStep
  <2>1. /\ UNCHANGED <<execs, used, cred, live, minted, credOf, faults, restarts>> /\ file' \in {NoFile, file}
    BY <1>4 DEF Boot, Logout, MainStep, LogoutAnswered, ClearPersisted, Destroy, callVars, ccuVars
  <2>2. Alone(Main) /\ MainGoesOn
    <3>1. CASE Boot /\ Login(Main, "starting")
      <4>1. Rejected(Main) = "idle" BY <1>0 DEF Rejected
      <4> QED BY <1>0, <3>1, <4>1, LoginAlone DEF Boot, MainGoesOn
    <3>2. CASE Boot /\ pc' = [pc EXCEPT ![Main] = "up"] /\ wire' = wire /\ sessionId' = sessionId
      BY <1>0, <1>1, <3>2 DEF Boot, MainGoesOn
    <3>3. CASE LogoutAnswered BY <1>0, <1>1, <3>3 DEF LogoutAnswered, MainGoesOn
    <3>4. CASE ClearPersisted BY <1>0, <1>1, <3>4 DEF ClearPersisted, MainGoesOn
    <3>5. ASSUME NEW x, pc' = [Stopped(pc) EXCEPT ![Main] = x],
                 NEW w, wire' = [wire EXCEPT ![Main] = w] \/ (wire' = wire /\ w = wire[Main])
          PROVE  Alone(Main) /\ pc'[Main] = x /\ wire'[Main] = w
      <4>1. \A b \in Actors : b # Main => pc'[b] = Stopped(pc)[b] BY <3>5 DEF Stopped
      <4>2. \A b \in Actors : b \notin Handles => Stopped(pc)[b] = pc[b]
        <5>1. renewTimer \in Handles \/ renewTimer \notin Actors BY DEF SessionInv, TypeOK, Actors
        <5> QED BY <5>1 DEF Stopped
      <4> QED BY <1>0, <3>5, <4>1, <4>2 DEF Alone, FlightStarts, Stopped
    <3>6. CASE Destroy
      <4>1. /\ pc[Main] = "out" /\ pc' = [Stopped(pc) EXCEPT ![Main] = "gone"] /\ wire' = wire
            /\ sessionId' = sessionId
        BY <3>6 DEF Destroy
      <4> QED BY <3>5, <4>1 DEF MainGoesOn
    <3>7. CASE Logout
      <4>1. pc[Main] = "up" /\ sessionId' = sessionId BY <3>7 DEF Logout
      <4>2. CASE pc' = [Stopped(pc) EXCEPT ![Main] = "logout"] /\ wire' = [wire EXCEPT ![Main] = Request("logout", sessionId)]
        BY <3>5, <4>1, <4>2 DEF MainGoesOn
      <4>3. CASE wire' = wire /\ \E x \in {"await", "out"} : pc' = [Stopped(pc) EXCEPT ![Main] = x]
        BY <3>5, <4>1, <4>3 DEF MainGoesOn
      <4> QED BY <3>7, <4>2, <4>3 DEF Logout
    <3> QED BY <1>4, <3>1, <3>2, <3>3, <3>4, <3>6, <3>7 DEF Boot, MainStep
  <2> QED BY <1>0, <2>1, <2>2 DEF Aside, Alone, CallerGoesOn
<1>5. CASE (\E s \in Sids : Expire(s)) \/ UNCHANGED vars
  <2>1. /\ UNCHANGED <<sessionId, pc, wire, execs, used, file, cred, minted, credOf, faults, restarts>>
        /\ live' \subseteq live
    BY <1>5 DEF Expire, vars, callVars, ccuVars
  <2> QED BY <2>1 DEF Aside, CallerGoesOn, FlightStarts, MainGoesOn
<1> QED BY <1>2, <1>3, <1>4, <1>5

----------------------------------------------------------------------------
(* A call runs at most once.  What the CCU has answered tells how often it   *)
(* has run the call; an answer that was lost leaves it open, and ends it.    *)

RunsOnce(c) ==
    /\ execs[c] \in {0, 1}
    /\ pc[c] \notin {"call", "retry"} => wire[c].op = "none"
    /\ pc[c] \in {"call", "retry"} =>
          /\ wire[c].op = "call"
          /\ wire[c].rep \in {"none", "auth"} => execs[c] = 0
          /\ wire[c].rep = "ok" => execs[c] = 1
    /\ pc[c] = "ok" => execs[c] = 1
    /\ pc[c] \in {"denied", "relogin", "lazy"} => execs[c] = 0

RunsInv == \A c \in Callers : RunsOnce(c)

LEMMA Requests ==
    ASSUME NEW s PROVE /\ Request("call", s).op = "call" /\ Request("call", s).rep = "none"
                       /\ Quiet.op = "none" /\ Quiet.rep = "none"
BY DEF Request, Quiet

LEMMA RunsKept == ASSUME SessionInv, SessionInv', RunsInv, [Next]_vars PROVE RunsInv'
<1>0. /\ \A c \in Callers : RunsOnce(c) /\ c \in Actors /\ c \notin Flights /\ c # Main /\ c \notin Handles
      /\ TypeOK
  BY DEF RunsInv, Actors, SessionInv
<1>1. ASSUME NEW c \in Callers, pc'[c] = pc[c], wire'[c] = wire[c], execs'[c] = execs[c] PROVE RunsOnce(c)'
  BY <1>0, <1>1 DEF RunsOnce
<1>2. ASSUME NEW f \in Flights, FlightStep(f), NEW c \in Callers PROVE RunsOnce(c)'
  <2>1. execs' = execs /\ (FlightEnds(f) \/ FlightGoesOn(f)) BY <1>2, FlightStepShape
  <2>2. CASE FlightGoesOn(f) BY <1>0, <1>1, <1>2, <2>1, <2>2 DEF FlightGoesOn
  <2>3. CASE FlightEnds(f)
    <3>1. CallServed(c) BY <2>3 DEF FlightEnds
    <3> QED BY <1>0, <2>1, <3>1, Requests DEF RunsOnce, CallServed
  <2> QED BY <2>1, <2>2, <2>3
<1>3. ASSUME Aside, NEW c \in Callers PROVE RunsOnce(c)'
  <2>1. RunsOnce(c) /\ CallerGoesOn(c) BY <1>0, <1>3 DEF Aside
  <2>2. CASE pc'[c] = pc[c] /\ wire'[c] = wire[c] /\ execs'[c] = execs[c] BY <1>1, <2>2
  <2>3. CASE /\ pc[c] \in Returned /\ execs'[c] = 0
             /\ \/ pc'[c] = "call" /\ wire'[c] = Request("call", sessionId)
                \/ pc'[c] \in {"lazy", "failed"} /\ wire'[c] = Quiet
    BY <2>3, Requests DEF RunsOnce
  <2>4. CASE /\ pc[c] \in {"call", "retry"} /\ execs'[c] = execs[c] /\ wire'[c] = Quiet
             /\ \/ wire[c].rep = "ok" /\ pc'[c] = "ok"
                \/ /\ wire[c].rep = "auth" /\ pc'[c] \in {"relogin", "failed"}
                   /\ pc[c] = "call" /\ used'[c] = wire[c].sid
                \/ pc'[c] = "failed"
    BY <2>1, <2>4, Requests DEF RunsOnce
  <2> QED BY <2>1, <2>2, <2>3, <2>4 DEF CallerGoesOn
<1>4. ASSUME NEW a \in Actors, CcuStep(a), NEW c \in Callers PROVE RunsOnce(c)'
  <2>1. pc' = pc /\ Pending(a) BY <1>4 DEF CcuStep
  <2>2. CASE c # a
    <3>1. wire'[c] = wire[c]
      BY <1>0, <1>4, <2>2 DEF CcuStep, ProcessCall, ProcessRenew, ProcessLogin, ProcessLogout, Lose,
                              Reply, Answered, TypeOK
    <3>2. execs'[c] = execs[c]
      BY <1>0, <1>4, <2>2 DEF CcuStep, ProcessCall, ProcessRenew, ProcessLogin, ProcessLogout, Lose, TypeOK
    <3> QED BY <1>1, <2>1, <3>1, <3>2
  <2>3. CASE c = a
    <3>1. wire[c].op = "call" /\ execs[c] = 0 /\ pc[c] \in {"call", "retry"}
      BY <1>0, <2>1, <2>3 DEF RunsOnce, Pending
    <3>2. ProcessCall(c)
      BY <1>0, <1>4, <2>3, <3>1 DEF CcuStep, ProcessRenew, ProcessLogin, ProcessLogout, Lose
    <3>3. wire \in [Actors -> Wires] /\ execs \in [Callers -> Nat] /\ wire[c] \in Wires BY <1>0 DEF TypeOK
    <3>4. ASSUME NEW r, Answered(c, r) PROVE wire'[c].op = "call" /\ wire'[c].rep = r
      BY <1>0, <3>1, <3>3, <3>4 DEF Answered, Wires
    <3>5. CASE wire[c].sid \in live /\ c \notin Unprivileged
      <4>1. execs'[c] = 1 /\ Reply(c, "ok") BY <3>1, <3>2, <3>3, <3>5 DEF ProcessCall
      <4> QED BY <2>1, <3>1, <3>4, <4>1 DEF Reply, RunsOnce
    <3>6. CASE ~(wire[c].sid \in live /\ c \notin Unprivileged)
      <4>1. execs'[c] = 0 /\ Reply(c, "auth") BY <3>1, <3>2, <3>6 DEF ProcessCall
      <4> QED BY <2>1, <3>1, <3>4, <4>1 DEF Reply, RunsOnce
    <3> QED BY <3>5, <3>6
  <2> QED BY <2>2, <2>3
<1>5. ASSUME Restart, NEW c \in Callers PROVE RunsOnce(c)'
  <2>1. pc'[c] = "idle" /\ wire'[c] = Quiet /\ execs'[c] = 0 BY <1>0, <1>5 DEF Restart, FreshPc
  <2> QED BY <2>1, Requests DEF RunsOnce
<1>6. ASSUME NEW c \in Callers PROVE RunsOnce(c)'
  <2>1. ASSUME ~(\E f \in Flights : FlightStep(f)), ~(\E a \in Actors : CcuStep(a)), ~Restart PROVE Aside
    BY <2>1, AsideShape DEF Next
  <2> QED BY <1>2, <1>3, <1>4, <1>5, <2>1
<1> QED BY <1>6 DEF RunsInv

\* No call is executed twice by the CCU, whatever logins, denials and lost
\* answers come between its two attempts.
THEOREM CallsRunOnce == Spec => []RunsAtMostOnce
<1>1. Init => RunsInv
  <2> SUFFICES ASSUME Init, NEW c \in Callers PROVE RunsOnce(c) BY DEF RunsInv
  <2>1. c \in Actors /\ c # Main BY DEF Actors
  <2> QED BY <2>1, Requests DEF Init, FreshPc, RunsOnce
<1>2. RunsInv => RunsAtMostOnce BY DEF RunsInv, RunsOnce, RunsAtMostOnce
<1>3. SessionInv /\ RunsInv /\ [Next]_vars => (SessionInv /\ RunsInv)' BY NextKeeps, RunsKept
<1> QED BY <1>1, <1>2, <1>3, InitEstablishes, PTL DEF Spec

----------------------------------------------------------------------------
(* What a step of the CCU does, of all requests to one.                      *)

Effect(a) ==
    \/ /\ UNCHANGED <<live, minted, credOf, faults>> /\ wire'[a].sid = wire[a].sid
       /\ wire[a].op \in {"call", "renew", "login"}
       /\ a \notin Callers => wire'[a].rep # "fault"
       /\ wire[a].op = "renew" => wire'[a].rep = IF wire[a].sid \in live THEN "ok" ELSE "auth"
       /\ wire[a].op = "login" => wire'[a].rep = "busy"
    \/ /\ a \in Flights /\ wire[a].op = "login" /\ wire'[a].rep = "ok" /\ faults' = faults
       /\ \E s \in Sids : Mint(s) /\ wire'[a].sid = s
    \/ /\ a = Main /\ wire[a].op = "logout" /\ wire'[a].rep = "ok" /\ wire'[a].sid = wire[a].sid
       /\ live' = live \ {wire[a].sid} /\ UNCHANGED <<minted, credOf, faults>>
    \/ /\ wire'[a].rep = "fault" /\ wire'[a].sid = wire[a].sid /\ faults' = faults + 1
       /\ \/ live' \subseteq live /\ UNCHANGED <<minted, credOf>>
          \/ wire[a].op = "login" /\ \E s \in Sids : Mint(s)

LEMMA CcuShape ==
    ASSUME SessionInv, NEW a \in Actors, CcuStep(a)
    PROVE  /\ UNCHANGED <<sessionId, pc, file, cred, restarts>>
           /\ wire[a].op # "none" /\ wire[a].rep = "none" /\ wire'[a].op = wire[a].op
           /\ \A b \in Actors : b # a => wire'[b] = wire[b]
           /\ Effect(a)
<1>0. /\ wire \in [Actors -> Wires] /\ wire[a] \in Wires /\ Callers \cap Flights = {} /\ Main \notin Callers
      /\ UNCHANGED <<sessionId, pc, file, cred, restarts>> /\ wire[a].op # "none" /\ wire[a].rep = "none"
  BY DEF SessionInv, TypeOK, CcuStep, Pending
<1>1. ASSUME NEW r, Answered(a, r)
      PROVE  /\ wire'[a].op = wire[a].op /\ wire'[a].sid = wire[a].sid /\ wire'[a].rep = r
             /\ \A b \in Actors : b # a => wire'[b] = wire[b]
  BY <1>0, <1>1 DEF Answered, Wires
<1>2. CASE a \in Callers /\ ProcessCall(a)
  <2>1. PICK r : Answered(a, r) BY <1>2 DEF ProcessCall, Reply
  <2>2. wire[a].op = "call" /\ UNCHANGED <<live, minted, credOf, faults>> BY <1>2 DEF ProcessCall, ccuVars
  <2> QED BY <1>0, <1>1, <1>2, <2>1, <2>2 DEF Effect
<1>3. CASE ProcessRenew(a)
  <2>1. PICK r : r = (IF wire[a].sid \in live THEN "ok" ELSE "auth") OBVIOUS
  <2>2. Answered(a, r) /\ wire[a].op = "renew" /\ UNCHANGED <<live, minted, credOf, faults>>
    BY <1>3, <2>1 DEF ProcessRenew, ccuVars
  <2> QED BY <1>0, <1>1, <2>1, <2>2 DEF Effect
<1>4. CASE a \in Flights /\ ProcessLogin(a)
  <2>1. wire[a].op = "login" /\ faults' = faults BY <1>4 DEF ProcessLogin
  <2>2. CASE Answered(a, "busy") /\ UNCHANGED ccuVars BY <1>0, <1>1, <1>4, <2>1, <2>2 DEF Effect, ccuVars
  <2>3. ASSUME NEW s \in Sids, Mint(s), wire' = [wire EXCEPT ![a].rep = "ok", ![a].sid = s]
        PROVE  /\ wire'[a].op = wire[a].op /\ Effect(a)
               /\ \A b \in Actors : b # a => wire'[b] = wire[b]
    <3>1. wire'[a] = [wire[a] EXCEPT !.rep = "ok", !.sid = s] /\ \A b \in Actors : b # a => wire'[b] = wire[b]
      BY <1>0, <2>3
    <3>2. wire'[a].op = wire[a].op /\ wire'[a].rep = "ok" /\ wire'[a].sid = s BY <1>0, <3>1 DEF Wires
    <3> QED BY <1>4, <2>1, <2>3, <3>1, <3>2 DEF Effect
  <2> QED BY <1>0, <1>4, <2>2, <2>3 DEF ProcessLogin
<1>5. CASE a = Main /\ ProcessLogout
  BY <1>0, <1>1, <1>5 DEF ProcessLogout, Effect
<1>6. CASE Lose(a)
  <2>1. Answered(a, "fault") /\ faults' = faults + 1 BY <1>6 DEF Lose
  <2>2. \/ live' \subseteq live /\ UNCHANGED <<minted, credOf>>
        \/ wire[a].op = "login" /\ \E s \in Sids : Mint(s)
    BY <1>6 DEF Lose, ccuVars
  <2> QED BY <1>0, <1>1, <2>1, <2>2 DEF Effect
<1> QED BY <1>2, <1>3, <1>4, <1>5, <1>6 DEF CcuStep

----------------------------------------------------------------------------
(* Sessions belong to the credentials of the process.                        *)

Ours(s) == s \in minted /\ credOf[s] = cred

CredInv ==
    /\ sessionId # None => Ours(sessionId)
    /\ file.sid # None => file.sid \in minted /\ credOf[file.sid] = file.cred
    /\ \A f \in Flights : pc[f] = "restore" \/ (pc[f] = "login" /\ wire[f].rep = "ok") => Ours(wire[f].sid)
    /\ \A f \in Flights : pc[f] = "login" => wire[f].op = "login"

LEMMA CredKept == ASSUME SessionInv, SessionInv', CredInv, [Next]_vars PROVE CredInv'
<1>0. /\ TypeOK /\ Flights \subseteq Actors /\ CredInv /\ NoFile.sid = None /\ (file.sid = None => file = NoFile)
      /\ \A f \in Flights : wire[f].op = "login" => pc[f] = "login"
      /\ \A f \in Flights : wire'[f].op = "login" => pc'[f] = "login"
      /\ \A a \in Actors : wire[a].op = "login" => a \in Flights
  BY DEF SessionInv, Actors, NoFile, FlightRequests
<1>1. \A s : Request("renew", s).sid = s /\ Request("login", s).rep = "none" /\ Request("login", s).op = "login"
  BY DEF Request
<1>2. ASSUME NEW f \in Flights, FlightStep(f) PROVE CredInv'
  <2>1. /\ UNCHANGED <<cred, minted, credOf>> /\ pc[f] # "idle" /\ (FlightEnds(f) \/ FlightGoesOn(f))
    BY <1>2, FlightStepShape
  <2>2. \A s : Ours(s) => Ours(s)' BY <2>1 DEF Ours
  <2>3. sessionId' # None => Ours(sessionId')
    BY <1>0, <2>1 DEF FlightEnds, FlightGoesOn, CredInv
  <2>4. file'.sid # None => file'.sid \in minted /\ credOf[file'.sid] = file'.cred
    <3>1. CASE file' = file BY <1>0, <3>1 DEF CredInv
    <3>2. CASE pc[f] = "persist" /\ file' = [sid |-> sessionId, cred |-> cred]
      BY <1>0, <3>2 DEF CredInv, Ours
    <3> QED BY <2>1, <3>1, <3>2 DEF FlightEnds, FlightGoesOn
  <2>5. ASSUME NEW g \in Flights, pc'[g] = "restore" \/ (pc'[g] = "login" /\ wire'[g].rep = "ok")
        PROVE  Ours(wire'[g].sid)
    <3>1. FlightGoesOn(f) BY <2>1, <2>5 DEF FlightEnds
    <3>2. CASE g # f
      <4>1. g \notin Handles OBVIOUS
      <4> QED BY <1>0, <2>5, <3>1, <3>2, <4>1 DEF FlightGoesOn, CredInv
    <3>3. CASE g = f
      <4>1. Restorable /\ wire'[f] = Request("renew", file.sid) BY <1>1, <2>5, <3>1, <3>3 DEF FlightGoesOn
      <4> QED BY <1>0, <1>1, <3>3, <4>1 DEF Restorable, CredInv, Ours
    <3> QED BY <3>2, <3>3
  <2>6. ASSUME NEW g \in Flights, pc'[g] = "login" PROVE wire'[g].op = "login"
    <3>1. FlightGoesOn(f) /\ g \notin Handles BY <2>1, <2>6 DEF FlightEnds
    <3> QED BY <1>0, <1>1, <2>6, <3>1 DEF FlightGoesOn, CredInv
  <2> QED BY <2>1, <2>3, <2>4, <2>5, <2>6 DEF CredInv, Ours
<1>3. CASE Aside
  <2>1. UNCHANGED <<cred, minted, credOf>> /\ sessionId' \in {sessionId, None} /\ file' \in {NoFile, file}
    BY <1>3 DEF Aside, MainGoesOn
  <2>2. ASSUME NEW g \in Flights, pc'[g] = "restore" \/ (pc'[g] = "login" /\ wire'[g].rep = "ok")
        PROVE  Ours(wire'[g].sid)
    BY <1>0, <1>3, <2>2 DEF Aside, FlightStarts, CredInv
  <2>3. ASSUME NEW g \in Flights, pc'[g] = "login" PROVE wire'[g].op = "login"
    BY <1>0, <1>3, <2>3 DEF Aside, FlightStarts, CredInv
  <2> QED BY <1>0, <2>1, <2>2, <2>3 DEF CredInv, Ours
<1>4. ASSUME NEW a \in Actors, CcuStep(a) PROVE CredInv'
  <2>1. /\ UNCHANGED <<sessionId, pc, file, cred>> /\ wire[a].rep = "none" /\ wire'[a].op = wire[a].op
        /\ \A b \in Actors : b # a => wire'[b] = wire[b]
        /\ Effect(a)
    BY <1>4, CcuShape
  <2>2. ASSUME NEW s, s \in minted PROVE s \in minted' /\ credOf'[s] = credOf[s]
    <3>1. ASSUME NEW n \in Sids, Mint(n) PROVE s \in minted' /\ credOf'[s] = credOf[s]
      BY <1>0, <2>2, <3>1 DEF Mint, TypeOK
    <3> QED BY <2>1, <2>2, <3>1 DEF Effect
  <2>3. \A s : Ours(s) => s \in minted' /\ credOf'[s] = cred BY <2>2 DEF Ours
  <2>4. ASSUME NEW g \in Flights, pc'[g] = "restore" \/ (pc'[g] = "login" /\ wire'[g].rep = "ok")
        PROVE  wire'[g].sid \in minted' /\ credOf'[wire'[g].sid] = cred
    <3>1. CASE g # a BY <1>0, <2>1, <2>3, <2>4, <3>1 DEF CredInv
    <3>2. CASE g = a /\ wire'[a].sid = wire[a].sid /\ pc[a] = "restore" BY <2>3, <3>2, <1>0 DEF CredInv
    <3>3. ASSUME g = a, NEW s \in Sids, Mint(s), wire'[a].sid = s PROVE wire'[g].sid \in minted' /\ credOf'[wire'[g].sid] = cred
      BY <1>0, <3>3 DEF Mint, TypeOK
    <3>4. pc[a] = "login" /\ g = a => wire[a].op = "login" BY <1>0 DEF CredInv
    <3> QED BY <1>0, <2>1, <2>4, <3>1, <3>2, <3>3, <3>4 DEF Effect
  <2>5. \A g \in Flights : pc'[g] = "login" => wire'[g].op = "login" BY <1>0, <2>1 DEF CredInv
  <2> QED BY <1>0, <2>1, <2>2, <2>3, <2>4, <2>5 DEF CredInv, Ours
<1>5. CASE Restart
  <2>1. /\ sessionId' = None /\ UNCHANGED <<file, minted, credOf>>
        /\ \A f \in Flights : pc'[f] = "idle"
    BY <1>0, <1>5 DEF Restart, FreshPc, ccuVars
  <2> QED BY <1>0, <2>1 DEF CredInv
<1>6. ASSUME ~(\E f \in Flights : FlightStep(f)), ~(\E a \in Actors : CcuStep(a)), ~Restart PROVE Aside
  BY <1>6, AsideShape DEF Next
<1> QED BY <1>2, <1>3, <1>4, <1>5, <1>6

\* A session of other credentials never gets into memory, over restarts with
\* a changed configuration and whatever file they find.
THEOREM CredentialsKept == Spec => []SessionOfTheseCredentials
<1>1. Init => CredInv
  <2> SUFFICES ASSUME Init PROVE CredInv OBVIOUS
  <2>1. \A f \in Flights : f \in Actors /\ f # Main BY DEF Actors
  <2> QED BY <2>1 DEF Init, FreshPc, NoFile, CredInv
<1>2. CredInv => SessionOfTheseCredentials BY DEF CredInv, Ours, SessionOfTheseCredentials
<1>3. SessionInv /\ CredInv /\ [Next]_vars => (SessionInv /\ CredInv)' BY NextKeeps, CredKept
<1> QED BY <1>1, <1>2, <1>3, InitEstablishes, PTL DEF Spec

----------------------------------------------------------------------------
(* Denials are true.  An id that the CCU has refused to a call that it would *)
(* have served has ended, and an ended id never comes back: so if login()    *)
(* leaves that very id in memory, it has left a dead one.                    *)

Ended(s) == s \in minted \cup {None} /\ s \notin live

DenialOf(c) ==
    /\ pc[c] = "call" => wire[c].sid \in minted \cup {None}
    /\ pc[c] = "call" /\ wire[c].rep = "auth" /\ c \notin Unprivileged => Ended(wire[c].sid)
    /\ pc[c] = "relogin" /\ c \notin Unprivileged => Ended(used[c])

DenialInv == \A c \in Callers : DenialOf(c)

\* An ended session stays ended: the CCU hands out no id twice.
LEMMA EndedForGood ==
    ASSUME SessionInv, [Next]_vars
    PROVE  minted \subseteq minted' /\ live' \cap (minted \cup {None}) \subseteq live
<1>0. None \notin Sids BY ActorsAssumption
<1>1. ASSUME NEW n \in Sids, Mint(n)
      PROVE  minted \subseteq minted' /\ live' \cap (minted \cup {None}) \subseteq live
  BY <1>0, <1>1 DEF Mint
<1>2. ASSUME NEW f \in Flights, FlightStep(f) PROVE minted' = minted /\ live' \subseteq live
  BY <1>2 DEF FlightStep, RenewAnswered, ReadFile, RestoreAnswered, LoginAnswered, Wake, Persist, TryLogin, ccuVars
<1>3. ASSUME NEW a \in Actors, CcuStep(a)
      PROVE  (minted' = minted /\ live' \subseteq live) \/ \E n \in Sids : Mint(n)
  <2>1. Effect(a) BY <1>3, CcuShape
  <2> QED BY <2>1 DEF Effect
<1>4. CASE Restart BY <1>4 DEF Restart, ccuVars
<1>5. ASSUME ~(\E f \in Flights : FlightStep(f)), ~(\E a \in Actors : CcuStep(a)), ~Restart
      PROVE  minted' = minted /\ live' \subseteq live
  <2>1. Aside BY <1>5, AsideShape DEF Next
  <2> QED BY <2>1 DEF Aside
<1> QED BY <1>1, <1>2, <1>3, <1>4, <1>5

LEMMA DenialsKept ==
    ASSUME SessionInv, SessionInv', RunsInv, CredInv, CredInv', DenialInv, [Next]_vars
    PROVE  /\ DenialInv'
           /\ \A c \in Callers :
                 pc[c] # "denied" /\ pc'[c] = "denied" => c \in Unprivileged \/ sessionId' \notin live
<1>0. /\ \A c \in Callers : /\ DenialOf(c) /\ RunsOnce(c)
                             /\ c \in Actors /\ c \notin Flights /\ c # Main /\ c \notin Handles
      /\ TypeOK /\ sessionId \in minted \cup {None} /\ sessionId' \in minted' \cup {None}
      /\ \A s : Request("call", s).sid = s /\ Request("call", s).rep = "none"
  BY DEF DenialInv, RunsInv, CredInv, Ours, Actors, SessionInv, Request
<1>1. minted \subseteq minted' /\ live' \cap (minted \cup {None}) \subseteq live BY EndedForGood
<1> DEFINE Good(c) ==
       /\ pc'[c] = "call" => wire'[c].sid \in minted' \cup {None}
       /\ pc'[c] = "call" /\ wire'[c].rep = "auth" /\ c \notin Unprivileged =>
             wire'[c].sid \in minted' \cup {None} /\ wire'[c].sid \notin live'
       /\ pc'[c] = "relogin" /\ c \notin Unprivileged => used'[c] \in minted' \cup {None} /\ used'[c] \notin live'
       /\ pc[c] # "denied" /\ pc'[c] = "denied" => c \in Unprivileged \/ sessionId' \notin live
<1>2. ASSUME NEW c \in Callers, pc'[c] = pc[c], wire'[c] = wire[c], used'[c] = used[c] PROVE Good(c)
  <2>1. DenialOf(c) BY <1>0
  <2> QED BY <1>1, <1>2, <2>1 DEF DenialOf, Ended
<1>3. ASSUME NEW c \in Callers, pc'[c] \notin {"call", "relogin", "denied"} PROVE Good(c)
  BY <1>3
<1>4. ASSUME NEW f \in Flights, FlightStep(f), NEW c \in Callers PROVE Good(c)
  <2>1. FlightEnds(f) \/ FlightGoesOn(f) BY <1>4, FlightStepShape
  <2>2. CASE FlightGoesOn(f)
    <3>1. pc'[c] = pc[c] /\ wire'[c] = wire[c] /\ used'[c] = used[c] BY <1>0, <2>2 DEF FlightGoesOn
    <3> QED BY <1>2, <3>1
  <2>3. CASE FlightEnds(f)
    <3>1. CallServed(c) BY <2>3 DEF FlightEnds
    <3>2. CASE pc'[c] \notin {"call", "relogin", "denied"} BY <1>3, <3>2
    <3>3. CASE pc'[c] = "denied"
      <4>1. DenialOf(c) BY <1>0
      <4> QED BY <3>1, <3>3, <4>1 DEF CallServed, DenialOf, Ended
    <3>4. CASE pc'[c] = "call"
      <4>1. CASE wire'[c] = Request("call", sessionId') BY <1>0, <3>4, <4>1
      <4>2. CASE pc[c] = "call" /\ wire'[c] = wire[c]
        <5>1. DenialOf(c) BY <1>0
        <5> QED BY <1>1, <3>4, <4>2, <5>1 DEF DenialOf, Ended
      <4> QED BY <3>1, <3>4, <4>1, <4>2 DEF CallServed
    <3>5. pc'[c] # "relogin" BY <3>1 DEF CallServed
    <3> QED BY <3>2, <3>3, <3>4, <3>5
  <2> QED BY <2>1, <2>2, <2>3
<1>5. ASSUME Aside, NEW c \in Callers PROVE Good(c)
  <2>1. CallerGoesOn(c) /\ minted' = minted /\ live' \subseteq live BY <1>5 DEF Aside
  <2>2. CASE pc'[c] = pc[c] /\ wire'[c] = wire[c] /\ used'[c] = used[c] BY <1>2, <2>2
  <2>3. CASE pc'[c] \in {"lazy", "failed", "ok"} BY <1>3, <2>3
  <2>4. CASE pc'[c] = "call" /\ wire'[c] = Request("call", sessionId)
    <3>1. sessionId \in minted' \cup {None} BY <1>0, <1>1
    <3> QED BY <1>0, <2>4, <3>1
  <2>5. CASE wire[c].rep = "auth" /\ pc'[c] = "relogin" /\ pc[c] = "call" /\ used'[c] = wire[c].sid
    <3>1. DenialOf(c) BY <1>0
    <3> QED BY <1>1, <2>5, <3>1 DEF DenialOf, Ended
  <2> QED BY <2>1, <2>2, <2>3, <2>4, <2>5 DEF CallerGoesOn
<1>6. ASSUME NEW a \in Actors, CcuStep(a), NEW c \in Callers PROVE Good(c)
  <2>1. pc' = pc /\ used' = used /\ Pending(a) BY <1>6 DEF CcuStep
  <2>2. CASE c # a
    <3>1. wire'[c] = wire[c] BY <1>0, <1>6, <2>2, CcuShape
    <3> QED BY <1>2, <2>1, <3>1
  <2>3. CASE c = a /\ pc[c] = "call"
    <3>1. wire[c].op = "call" /\ wire[c].rep = "none" BY <1>0, <2>1, <2>3 DEF RunsOnce, Pending
    <3>2. ProcessCall(c)
      BY <1>0, <1>6, <2>3, <3>1 DEF CcuStep, ProcessRenew, ProcessLogin, ProcessLogout, Lose
    <3>3. wire \in [Actors -> Wires] /\ wire[c] \in Wires /\ UNCHANGED <<live, minted>>
      BY <1>0, <3>2 DEF TypeOK, ProcessCall, ccuVars
    <3>4. ASSUME NEW r, Answered(c, r) PROVE wire'[c].sid = wire[c].sid /\ wire'[c].rep = r
      BY <1>0, <3>3, <3>4 DEF Answered, Wires
    <3>5. /\ wire'[c].sid = wire[c].sid
          /\ wire'[c].rep = "auth" /\ c \notin Unprivileged => wire[c].sid \notin live
      BY <3>2, <3>4 DEF ProcessCall, Reply
    <3>6. DenialOf(c) BY <1>0
    <3> QED BY <2>1, <2>3, <3>3, <3>5, <3>6 DEF DenialOf
  <2>4. CASE c = a /\ pc[c] # "call"
    <3>1. DenialOf(c) BY <1>0
    <3> QED BY <1>1, <2>1, <2>4, <3>1 DEF DenialOf, Ended
  <2> QED BY <2>2, <2>3, <2>4
<1>7. ASSUME Restart, NEW c \in Callers PROVE Good(c)
  <2>1. pc'[c] = "idle" BY <1>0, <1>7 DEF Restart, FreshPc
  <2> QED BY <1>3, <2>1
<1>8. ASSUME NEW c \in Callers PROVE Good(c)
  <2>1. ASSUME ~(\E f \in Flights : FlightStep(f)), ~(\E a \in Actors : CcuStep(a)), ~Restart PROVE Aside
    BY <2>1, AsideShape DEF Next
  <2> QED BY <1>4, <1>5, <1>6, <1>7, <2>1
<1> QED BY <1>8 DEF DenialInv, DenialOf, Ended

\* No call is told that its user lacks the privilege because somebody else's
\* login changed the session under it.
THEOREM DenialsTrue == Spec => DenialsAreTrue
<1>1. Init => RunsInv /\ CredInv /\ DenialInv
  <2> SUFFICES ASSUME Init PROVE RunsInv /\ CredInv /\ DenialInv OBVIOUS
  <2>1. \A a \in Callers \cup Flights : a \in Actors /\ a # Main BY DEF Actors
  <2> QED BY <2>1, Requests DEF Init, FreshPc, RunsInv, RunsOnce, NoFile, CredInv, DenialInv, DenialOf
<1>2. SessionInv /\ RunsInv /\ CredInv /\ DenialInv /\ [Next]_vars =>
         (SessionInv /\ RunsInv /\ CredInv /\ DenialInv)'
  BY NextKeeps, RunsKept, CredKept, DenialsKept
<1>3. SessionInv /\ RunsInv /\ CredInv /\ DenialInv /\ [Next]_vars =>
         [\A c \in Callers :
            pc[c] # "denied" /\ pc'[c] = "denied" => c \in Unprivileged \/ sessionId' \notin live]_vars
  BY NextKeeps, CredKept, DenialsKept
<1> QED BY <1>1, <1>2, <1>3, InitEstablishes, PTL DEF Spec, DenialsAreTrue

----------------------------------------------------------------------------
(* Sessions that leak.  A fault is paid for before its session is lost: while *)
(* the renewal or the logout of the session in memory has failed but not yet *)
(* been heard of, one orphan is owed.                                        *)

Owing ==
    \/ \E f \in Flights : pc[f] = "renew" /\ wire[f].rep = "fault"
    \/ pc[Main] = "logout" /\ wire[Main].rep = "fault"
Owed == IF Owing THEN 1 ELSE 0

\* An answer that the session in memory is dead, or logged out, is true.
Dead ==
    /\ \A f \in Flights : pc[f] = "renew" =>
          wire[f].op = "renew" /\ (wire[f].rep \notin {"none", "ok", "fault"} => sessionId \notin live)
    /\ pc[Main] = "logout" =>
          /\ wire[Main].op = "logout" /\ wire[Main].sid = sessionId
          /\ wire[Main].rep \notin {"none", "fault"} => sessionId \notin live
    /\ \A f \in Flights : pc[f] = "login" /\ wire[f].rep # "ok" => wire[f].sid = None

LeakInv ==
    /\ IsFiniteSet(live) /\ live \subseteq minted /\ Dead
    /\ Cardinality(Orphans) + Owed <= faults + restarts

LEMMA OneMore ==
    ASSUME NEW S, NEW T, NEW x, IsFiniteSet(T)
    PROVE  /\ Cardinality(T) \in Nat
           /\ S \subseteq T => Cardinality(S) \in Nat /\ Cardinality(S) <= Cardinality(T)
           /\ S \subseteq T \cup {x} => Cardinality(S) \in Nat /\ Cardinality(S) <= Cardinality(T) + 1
<1>1. /\ IsFiniteSet(T \cup {x}) /\ Cardinality(T) \in Nat
      /\ Cardinality(T \cup {x}) \in Nat /\ Cardinality(T \cup {x}) <= Cardinality(T) + 1
  <2>1. IsFiniteSet(T \cup {x}) /\ Cardinality(T) \in Nat BY FS_AddElement, FS_CardinalityType
  <2>2. Cardinality(T \cup {x}) = IF x \in T THEN Cardinality(T) ELSE Cardinality(T) + 1 BY FS_AddElement
  <2> QED BY <2>1, <2>2
<1>2. S \subseteq T => Cardinality(S) \in Nat /\ Cardinality(S) <= Cardinality(T) BY FS_Subset, FS_CardinalityType
<1>3. S \subseteq T \cup {x} => Cardinality(S) \in Nat /\ Cardinality(S) <= Cardinality(T \cup {x})
  BY <1>1, FS_Subset, FS_CardinalityType
<1> QED BY <1>1, <1>2, <1>3

\* Of the sessions that are held, one at most is valid; without a login, it is
\* the one in memory.
LEMMA HeldIsOne ==
    ASSUME SessionInv
    PROVE  /\ \E x : Held \cap Sids \subseteq {x}
           /\ (\A f \in Flights : pc[f] # "login") => Held = {sessionId}
           /\ \A f \in Flights : pc[f] = "login" => Held = {None, wire[f].sid}
           /\ None \notin Sids
<1>1. (\A f \in Flights : pc[f] # "login") => Held = {sessionId} BY DEF Held
<1>2. ASSUME NEW f \in Flights, pc[f] = "login" PROVE Held = {None, wire[f].sid}
  <2>1. \A g \in Flights \ {f} : pc[g] = "idle" BY <1>2, OneFlight
  <2>2. sessionId = None BY <1>2 DEF SessionInv, LoginOwnsSession
  <2> QED BY <1>2, <2>1, <2>2 DEF Held
<1>3. None \notin Sids OBVIOUS
<1> QED BY <1>1, <1>2, <1>3

\* How a step may change the orphans, what is owed, and what has been paid.
Paid ==
    \/ /\ Orphans' \subseteq Orphans /\ (Owing' => Owing)
       /\ faults' + restarts' >= faults + restarts
    \/ /\ Orphans' \subseteq Orphans
       /\ faults' + restarts' = faults + restarts + 1
    \/ /\ \E x : Orphans' \subseteq Orphans \cup {x}
       /\ Owing /\ ~Owing' /\ faults' + restarts' = faults + restarts
    \/ /\ \E x : Orphans' \subseteq Orphans \cup {x}
       /\ (Owing' => Owing) /\ faults' + restarts' = faults + restarts + 1

LEMMA LeakStep ==
    ASSUME SessionInv, LeakInv, IsFiniteSet(live'), live' \subseteq minted', Dead',
           faults' \in Nat, restarts' \in Nat, Paid
    PROVE  LeakInv'
<1>0. PICK q \in Nat, r \in Nat : q = faults' /\ r = restarts' OBVIOUS
<1>1. PICK n \in Nat, m \in Nat, o \in {0, 1}, p \in {0, 1} :
         n = faults + restarts /\ m = faults' + restarts' /\ o = Owed /\ p = Owed'
  <2>1. faults \in Nat /\ restarts \in Nat BY DEF SessionInv, TypeOK
  <2>2. faults + restarts \in Nat BY <2>1
  <2>3. q + r \in Nat OBVIOUS
  <2>4. faults' + restarts' \in Nat BY <1>0, <2>3
  <2>5. Owed \in {0, 1} /\ Owed' \in {0, 1} BY DEF Owed
  <2> QED BY <2>2, <2>4, <2>5
<1>2. PICK S, T : S = Orphans' /\ T = Orphans OBVIOUS
<1>3. IsFiniteSet(T)
  <2>1. IsFiniteSet(Orphans) BY FS_Subset DEF LeakInv, Orphans
  <2> QED BY <1>2, <2>1
<1>4. Cardinality(T) + o <= n BY <1>1, <1>2 DEF LeakInv
<1>5. /\ (Owing' => Owing) => p <= o
      /\ Owing /\ ~Owing' => o = 1 /\ p = 0
  BY <1>1 DEF Owed
<1>6. \/ S \subseteq T /\ p <= o /\ m >= n
      \/ S \subseteq T /\ m = n + 1
      \/ (\E x : S \subseteq T \cup {x}) /\ o = 1 /\ p = 0 /\ m = n
      \/ (\E x : S \subseteq T \cup {x}) /\ p <= o /\ m = n + 1
  BY <1>1, <1>2, <1>5 DEF Paid
<1>7. Cardinality(S) + p <= m
  <2>1. /\ Cardinality(T) \in Nat
        /\ S \subseteq T => Cardinality(S) \in Nat /\ Cardinality(S) <= Cardinality(T)
        /\ (\E x : S \subseteq T \cup {x}) => Cardinality(S) \in Nat /\ Cardinality(S) <= Cardinality(T) + 1
    BY <1>3, OneMore
  <2> QED BY <1>4, <1>6, <2>1
<1>8. Cardinality(Orphans') + Owed' <= faults' + restarts' BY <1>1, <1>2, <1>7
<1> QED BY <1>8 DEF LeakInv

LEMMA Sums ==
    ASSUME NEW f \in Nat, NEW r \in Nat
    PROVE  /\ \A g, q : g = f /\ q = r => g + q = f + r /\ g + q >= f + r
           /\ \A g, q : (g = f + 1 /\ q = r) \/ (g = f /\ q = r + 1) => g + q = f + r + 1
OBVIOUS

\* What the steps have in common: which sessions are held after them.
LEMMA LeakFacts ==
    ASSUME SessionInv, LeakInv
    PROVE  /\ TypeOK /\ live \subseteq Sids /\ None \notin Sids /\ IsFiniteSet(live) /\ live \subseteq minted /\ Dead
           /\ faults \in Nat /\ restarts \in Nat
           /\ Flights \subseteq Actors /\ Main \in Actors \ Flights
           /\ \A f \in Flights : pc[f] # "idle" =>
                 pc[Main] # "logout" /\ \A g \in Flights \ {f} : pc[g] = "idle"
           /\ \A f \in Flights : pc[f] \in {"read", "restore", "login", "sleep"} => sessionId = None
           /\ \A f \in Flights : pc[f] = "renew" => sessionId # None /\ wire[f].sid = sessionId
           /\ \A a \in Actors : wire[a].op = "login" => a \in Flights /\ pc[a] = "login"
           /\ (\A f \in Flights : pc[f] # "login") => Held = {sessionId}
           /\ \A f \in Flights : pc[f] = "login" => Held = {None, wire[f].sid}
<1>1. \A f \in Flights : pc[f] # "idle" => pc[Main] # "logout" /\ \A g \in Flights \ {f} : pc[g] = "idle"
  BY OneFlight DEF SessionInv, Shutdown
<1>2. TypeOK /\ FlightRequests /\ LoginOwnsSession BY DEF SessionInv
<1>3. /\ live \subseteq Sids /\ None \notin Sids /\ faults \in Nat /\ restarts \in Nat
      /\ Flights \subseteq Actors /\ Main \in Actors \ Flights
  BY <1>2 DEF TypeOK, Actors
<1>4. /\ \A f \in Flights : pc[f] \in {"read", "restore", "login", "sleep"} => sessionId = None
      /\ \A f \in Flights : pc[f] = "renew" => sessionId # None /\ wire[f].sid = sessionId
      /\ \A a \in Actors : wire[a].op = "login" => a \in Flights /\ pc[a] = "login"
  BY <1>2 DEF FlightRequests, LoginOwnsSession
<1> QED BY <1>1, <1>2, <1>3, <1>4, HeldIsOne DEF LeakInv

\* A flight loses the session in memory only if it is dead, or if the
\* renewal has failed, which was paid for.
LEMMA LeakInFlight ==
    ASSUME SessionInv, SessionInv', LeakInv, NEW f \in Flights, FlightStep(f)
    PROVE  LeakInv'
<1>0. /\ TypeOK /\ live \subseteq Sids /\ None \notin Sids /\ IsFiniteSet(live) /\ live \subseteq minted /\ Dead
      /\ faults \in Nat /\ restarts \in Nat /\ Flights \subseteq Actors /\ Main \in Actors \ Flights
      /\ f \notin Handles /\ Main \notin Handles /\ f # Main
  BY LeakFacts
<1>1. /\ pc[f] # "idle" /\ UNCHANGED <<live, minted, faults, restarts>>
      /\ FlightEnds(f) \/ FlightGoesOn(f)
  BY FlightStepShape
<1>2. pc[Main] # "logout" /\ \A g \in Flights \ {f} : pc[g] = "idle" BY <1>1, LeakFacts
<1>3. /\ pc[f] \in {"read", "restore", "login", "sleep"} => sessionId = None
      /\ pc[f] = "renew" => wire[f].sid = sessionId
      /\ pc[f] # "login" => Held = {sessionId}
      /\ pc[f] = "login" => Held = {None, wire[f].sid}
  BY <1>2, LeakFacts
<1>4. faults' + restarts' = faults + restarts /\ faults' + restarts' >= faults + restarts
      /\ faults' \in Nat /\ restarts' \in Nat
  BY <1>0, <1>1, Sums
<1>5. \A x : Request("logout", x).op = "logout" /\ Request("logout", x).sid = x /\ Request("logout", x).rep = "none"
             /\ Request("renew", x).rep = "none" /\ Request("login", x).sid = x
  BY DEF Request
<1>6. CASE FlightEnds(f)
  <2>1. /\ \A g \in Flights : pc'[g] = "idle"
        /\ pc'[Main] = "logout" => wire'[Main] = Request("logout", sessionId')
    BY <1>2, <1>6 DEF FlightEnds, MainServed
  <2>2. Held' = {sessionId'} BY <2>1 DEF Held
  <2>3. Dead' /\ ~Owing' BY <1>5, <2>1 DEF Dead, Owing
  <2>4. Held \cap live \subseteq {sessionId'}
    BY <1>0, <1>3, <1>6 DEF FlightEnds, Dead
  <2>5. Orphans' \subseteq Orphans BY <1>1, <2>2, <2>4 DEF Orphans
  <2>6. Paid BY <1>4, <2>3, <2>5 DEF Paid
  <2> QED BY <1>0, <1>1, <1>4, <2>3, <2>6, LeakStep
<1>7. CASE FlightGoesOn(f)
  <2>1. /\ pc'[Main] # "logout"
        /\ \A g \in Flights \ {f} : pc'[g] = "idle"
        /\ pc'[f] # "renew"
    BY <1>0, <1>2, <1>7 DEF FlightGoesOn
  <2>2. /\ pc'[f] # "login" => Held' = {sessionId'}
        /\ pc'[f] = "login" => Held' = {sessionId', wire'[f].sid}
    BY <2>1 DEF Held
  <2>3. pc'[f] = "login" => wire'[f].sid = None BY <1>5, <1>7 DEF FlightGoesOn
  <2>4. Dead' /\ ~Owing' BY <2>1, <2>3 DEF Dead, Owing
  <2>5. CASE pc[f] = "renew" /\ wire[f].rep = "fault"
    <3>1. Owing BY <2>5 DEF Owing
    <3>2. Orphans' \subseteq Orphans \cup {sessionId} BY <1>1, <1>3, <2>5 DEF Orphans
    <3>3. Paid BY <1>4, <2>4, <3>1, <3>2 DEF Paid
    <3> QED BY <1>0, <1>1, <1>4, <2>4, <3>3, LeakStep
  <2>6. CASE ~(pc[f] = "renew" /\ wire[f].rep = "fault")
    <3>1. Held \cap live \subseteq Held'
      BY <1>0, <1>3, <1>7, <2>2, <2>6 DEF FlightGoesOn, Dead
    <3>2. Orphans' \subseteq Orphans BY <1>1, <3>1 DEF Orphans
    <3>3. Paid BY <1>4, <2>4, <3>2 DEF Paid
    <3> QED BY <1>0, <1>1, <1>4, <2>4, <3>3, LeakStep
  <2> QED BY <2>5, <2>6
<1> QED BY <1>1, <1>6, <1>7

\* Callers and timers touch no session; logout() drops one that is logged
\* out, or whose logout has failed, which was paid for.
LEMMA LeakAside == ASSUME SessionInv, SessionInv', LeakInv, Aside PROVE LeakInv'
<1>0. /\ TypeOK /\ IsFiniteSet(live) /\ live \subseteq minted /\ Dead
      /\ faults \in Nat /\ restarts \in Nat
      /\ UNCHANGED <<minted, faults, restarts>> /\ live' \subseteq live
      /\ \A f \in Flights : FlightStarts(f)
      /\ MainGoesOn
      /\ pc[Main] = "logout" => \A f \in Flights : pc[f] = "idle"
  BY LeakFacts DEF Aside
<1>1. /\ faults' + restarts' = faults + restarts /\ faults' + restarts' >= faults + restarts
      /\ faults' \in Nat /\ restarts' \in Nat /\ IsFiniteSet(live') /\ live' \subseteq minted'
  BY <1>0, Sums, FS_Subset
<1>2. \A x : Request("logout", x).op = "logout" /\ Request("logout", x).sid = x /\ Request("logout", x).rep = "none"
             /\ Request("renew", x).op = "renew" /\ Request("renew", x).rep = "none" /\ Quiet.rep = "none"
  BY DEF Request, Quiet
<1>3. \A f \in Flights :
         /\ pc'[f] = "login" <=> pc[f] = "login"
         /\ pc'[f] = "login" => wire'[f] = wire[f]
         /\ pc'[f] = "renew" => \/ pc[f] = "renew" /\ wire'[f] = wire[f]
                                \/ wire'[f].op = "renew" /\ wire'[f].rep = "none"
  BY <1>0, <1>2 DEF FlightStarts
<1>4. {wire'[f].sid : f \in {g \in Flights : pc'[g] = "login"}} = {wire[f].sid : f \in {g \in Flights : pc[g] = "login"}}
  BY <1>3
<1>5. Held' \cup {sessionId} = Held \cup {sessionId'} BY <1>4 DEF Held
<1>6. sessionId' = sessionId \/ (pc[Main] = "logout" /\ wire[Main].rep # "none" /\ pc'[Main] # "logout")
  BY <1>0 DEF MainGoesOn
<1>7. /\ pc'[Main] = "logout" =>
           /\ wire'[Main].op = "logout" /\ wire'[Main].sid = sessionId' /\ sessionId' = sessionId
           /\ wire'[Main].rep = "none" \/ (pc[Main] = "logout" /\ wire'[Main] = wire[Main])
  BY <1>0, <1>2 DEF MainGoesOn, Dead
<1>8. Dead'
  <2>1. \A f \in Flights : pc'[f] = "renew" =>
           wire'[f].op = "renew" /\ (wire'[f].rep \notin {"none", "ok", "fault"} => sessionId' \notin live')
    BY <1>0, <1>3, <1>6 DEF Dead
  <2>2. pc'[Main] = "logout" /\ wire'[Main].rep \notin {"none", "fault"} => sessionId' \notin live'
    BY <1>0, <1>7 DEF Dead
  <2>3. \A f \in Flights : pc'[f] = "login" /\ wire'[f].rep # "ok" => wire'[f].sid = None
    BY <1>0, <1>3 DEF Dead
  <2> QED BY <1>7, <2>1, <2>2, <2>3 DEF Dead
<1>9. Owing' => Owing BY <1>3, <1>7 DEF Owing
<1>10. CASE sessionId' = sessionId \/ sessionId \notin live
  <2>1. Orphans' \subseteq Orphans BY <1>0, <1>5, <1>10 DEF Orphans, Held
  <2>2. Paid BY <1>1, <1>9, <2>1 DEF Paid
  <2> QED BY <1>1, <1>8, <2>2, LeakStep
<1>11. CASE sessionId' # sessionId /\ sessionId \in live
  <2>1. pc[Main] = "logout" /\ wire[Main].rep = "fault" /\ pc'[Main] # "logout" BY <1>0, <1>6, <1>11 DEF Dead
  <2>2. Owing BY <2>1 DEF Owing
  <2>3. ~Owing' BY <1>0, <1>3, <2>1 DEF Owing
  <2>4. Orphans' \subseteq Orphans \cup {sessionId} BY <1>0, <1>5 DEF Orphans, Held
  <2>5. Paid BY <1>1, <2>2, <2>3, <2>4 DEF Paid
  <2> QED BY <1>1, <1>8, <2>5, LeakStep
<1> QED BY <1>10, <1>11

\* A process that dies loses the one session it held.
LEMMA LeakAtRestart == ASSUME SessionInv, LeakInv, Restart PROVE LeakInv'
<1>0. /\ TypeOK /\ live \subseteq Sids /\ None \notin Sids /\ IsFiniteSet(live) /\ live \subseteq minted
      /\ faults \in Nat /\ restarts \in Nat /\ restarts + 1 \in Nat
      /\ \A f \in Flights : f \in Actors /\ f # Main
      /\ Main \in Actors
      /\ live' = live /\ minted' = minted /\ faults' = faults /\ restarts' = restarts + 1 /\ sessionId' = None
  BY LeakFacts DEF Restart, ccuVars
<1>1. (\A f \in Flights : pc'[f] = "idle") /\ pc'[Main] = "boot" BY <1>0 DEF Restart, FreshPc
<1>2. Held' = {None} BY <1>0, <1>1 DEF Held
<1>3. Dead' /\ ~Owing' BY <1>1 DEF Dead, Owing
<1>4. PICK x : Held \cap Sids \subseteq {x} BY HeldIsOne
<1>5. Orphans' \subseteq Orphans \cup {x} BY <1>0, <1>2, <1>4 DEF Orphans
<1>6. faults' + restarts' = faults + restarts + 1 BY <1>0, Sums
<1>7. Paid BY <1>3, <1>5, <1>6 DEF Paid
<1> QED BY <1>0, <1>3, <1>7, LeakStep

\* The CCU makes an orphan only of a login whose answer is lost, and that
\* loss is counted.
LEMMA LeakAtCcu == ASSUME SessionInv, LeakInv, NEW a \in Actors, CcuStep(a) PROVE LeakInv'
<1>0. /\ TypeOK /\ live \subseteq Sids /\ None \notin Sids /\ IsFiniteSet(live) /\ live \subseteq minted /\ Dead
      /\ faults \in Nat /\ restarts \in Nat /\ faults + 1 \in Nat
      /\ Flights \subseteq Actors /\ Main \in Actors \ Flights
      /\ \A b \in Flights \cup {Main} : b \notin Callers
  BY LeakFacts
<1>1. /\ UNCHANGED <<sessionId, pc, restarts>>
      /\ wire[a].rep = "none" /\ wire'[a].op = wire[a].op
      /\ \A b \in Actors : b # a => wire'[b] = wire[b]
      /\ Effect(a)
  BY CcuShape
<1>2. wire[a].op = "login" =>
         /\ a \in Flights /\ pc[a] = "login" /\ pc[Main] # "logout" /\ sessionId = None /\ wire[a].sid = None
         /\ \A g \in Flights \ {a} : pc[g] = "idle"
         /\ Held = {None}
  <2> SUFFICES ASSUME wire[a].op = "login"
               PROVE  /\ a \in Flights /\ pc[a] = "login" /\ pc[Main] # "logout" /\ sessionId = None
                      /\ wire[a].sid = None /\ Held = {None}
                      /\ \A g \in Flights \ {a} : pc[g] = "idle"
    OBVIOUS
  <2>1. a \in Flights /\ pc[a] = "login" BY LeakFacts
  <2>2. /\ pc[Main] # "logout" /\ (\A g \in Flights \ {a} : pc[g] = "idle") /\ sessionId = None
        /\ Held = {None, wire[a].sid}
    BY <2>1, LeakFacts
  <2>3. wire[a].sid = None BY <1>0, <1>1, <2>1 DEF Dead
  <2> QED BY <2>1, <2>2, <2>3
<1>3. /\ \A f \in Flights : pc[f] = "renew" => wire[f].op = "renew" /\ wire[f].sid = sessionId
      /\ \A f \in Flights : pc[f] = "renew" /\ wire[f].rep \notin {"none", "ok", "fault"} => sessionId \notin live
      /\ pc[Main] = "logout" => wire[Main].op = "logout" /\ wire[Main].sid = sessionId
      /\ pc[Main] = "logout" /\ wire[Main].rep \notin {"none", "fault"} => sessionId \notin live
      /\ \A f \in Flights : pc[f] = "login" /\ wire[f].rep # "ok" => wire[f].sid = None
  BY <1>0, LeakFacts DEF Dead
<1>4. ASSUME wire'[a].sid = wire[a].sid PROVE Held' = Held
  <2>1. \A f \in Flights : wire'[f].sid = wire[f].sid BY <1>0, <1>1, <1>4
  <2> QED BY <1>1, <2>1 DEF Held
<1>5. ASSUME NEW s \in Sids, Mint(s)
      PROVE  IsFiniteSet(live') /\ live' \subseteq minted' /\ live' = live \cup {s}
  BY <1>0, <1>5, FS_AddElement DEF Mint
<1>6. IsFiniteSet(live \ {wire[a].sid}) BY <1>0, FS_Subset
<1>7. CASE /\ UNCHANGED <<live, minted, faults>> /\ wire'[a].sid = wire[a].sid
           /\ wire[a].op \in {"call", "renew", "login"}
           /\ a \notin Callers => wire'[a].rep # "fault"
           /\ wire[a].op = "renew" => wire'[a].rep = IF wire[a].sid \in live THEN "ok" ELSE "auth"
  <2>1. Dead' BY <1>0, <1>1, <1>3, <1>7 DEF Dead
  <2>2. Owing' => Owing BY <1>0, <1>1, <1>7 DEF Owing
  <2>3. Orphans' \subseteq Orphans BY <1>4, <1>7 DEF Orphans
  <2>4. /\ faults' + restarts' >= faults + restarts /\ faults' \in Nat /\ restarts' \in Nat
        /\ IsFiniteSet(live') /\ live' \subseteq minted'
    BY <1>0, <1>1, <1>7, Sums
  <2>5. Paid BY <2>2, <2>3, <2>4 DEF Paid
  <2> QED BY <2>1, <2>4, <2>5, LeakStep
<1>8. ASSUME a \in Flights, wire[a].op = "login", wire'[a].rep = "ok", faults' = faults,
             NEW s \in Sids, Mint(s), wire'[a].sid = s
      PROVE  LeakInv'
  <2>1. Dead' /\ ~Owing' BY <1>1, <1>2, <1>8 DEF Dead, Owing
  <2>2. s \in Held' BY <1>1, <1>2, <1>8 DEF Held
  <2>3. None \in Held' BY <1>1, <1>2, <1>8 DEF Held
  <2>4. Orphans' \subseteq Orphans BY <1>2, <1>5, <1>8, <2>2, <2>3 DEF Orphans
  <2>5. faults' + restarts' >= faults + restarts /\ faults' \in Nat /\ restarts' \in Nat
    BY <1>0, <1>1, <1>8, Sums
  <2>6. Paid BY <2>1, <2>4, <2>5 DEF Paid
  <2>7. IsFiniteSet(live') /\ live' \subseteq minted' BY <1>5, <1>8
  <2> QED BY <2>1, <2>5, <2>6, <2>7, LeakStep
<1>9. CASE /\ a = Main /\ wire[a].op = "logout" /\ wire'[a].rep = "ok" /\ wire'[a].sid = wire[a].sid
           /\ live' = live \ {wire[a].sid} /\ UNCHANGED <<minted, faults>>
  <2>1. Dead' BY <1>0, <1>1, <1>3, <1>9 DEF Dead
  <2>2. Owing' => Owing BY <1>0, <1>1, <1>9 DEF Owing
  <2>3. Orphans' \subseteq Orphans BY <1>4, <1>9 DEF Orphans
  <2>4. /\ faults' + restarts' >= faults + restarts /\ faults' \in Nat /\ restarts' \in Nat
        /\ IsFiniteSet(live') /\ live' \subseteq minted'
    BY <1>0, <1>1, <1>6, <1>9, Sums
  <2>5. Paid BY <2>2, <2>3, <2>4 DEF Paid
  <2> QED BY <2>1, <2>4, <2>5, LeakStep
<1>10. CASE /\ wire'[a].rep = "fault" /\ wire'[a].sid = wire[a].sid /\ faults' = faults + 1
            /\ live' \subseteq live /\ minted' = minted
  <2>1. Dead' BY <1>0, <1>1, <1>3, <1>10 DEF Dead
  <2>2. Orphans' \subseteq Orphans BY <1>4, <1>10 DEF Orphans
  <2>3. /\ faults' + restarts' = faults + restarts + 1 /\ faults' \in Nat /\ restarts' \in Nat
    BY <1>0, <1>1, <1>10, Sums
  <2>4. IsFiniteSet(live') /\ live' \subseteq minted' BY <1>0, <1>10, FS_Subset
  <2>5. Paid BY <2>2, <2>3 DEF Paid
  <2> QED BY <2>1, <2>3, <2>4, <2>5, LeakStep
<1>11. ASSUME wire'[a].rep = "fault", wire'[a].sid = wire[a].sid, faults' = faults + 1,
              wire[a].op = "login", NEW s \in Sids, Mint(s)
       PROVE  LeakInv'
  <2>1. Dead' /\ ~Owing' BY <1>1, <1>2, <1>11 DEF Dead, Owing
  <2>2. Orphans' \subseteq Orphans \cup {s} BY <1>4, <1>5, <1>11 DEF Orphans
  <2>3. faults' + restarts' = faults + restarts + 1 /\ faults' \in Nat /\ restarts' \in Nat
    BY <1>0, <1>1, <1>11, Sums
  <2>4. Paid BY <2>1, <2>2, <2>3 DEF Paid
  <2>5. IsFiniteSet(live') /\ live' \subseteq minted' BY <1>5, <1>11
  <2> QED BY <2>1, <2>3, <2>4, <2>5, LeakStep
<1> QED BY <1>1, <1>7, <1>8, <1>9, <1>10, <1>11 DEF Effect

LEMMA LeaksKept == ASSUME SessionInv, SessionInv', LeakInv, [Next]_vars PROVE LeakInv'
<1>1. ASSUME ~(\E f \in Flights : FlightStep(f)), ~(\E a \in Actors : CcuStep(a)), ~Restart PROVE Aside
  BY <1>1, AsideShape DEF Next
<1> QED BY <1>1, LeakInFlight, LeakAside, LeakAtCcu, LeakAtRestart

\* Sessions are left behind on the CCU only by lost requests and dead
\* processes, and by each of those one at most.
THEOREM LeaksArePaid == Spec => []LeaksOnlyByFaults
<1>1. Init => LeakInv
  <2> SUFFICES ASSUME Init PROVE LeakInv OBVIOUS
  <2>1. \A a \in Flights \cup {Main} : a \in Actors /\ pc[a] \in {"boot", "idle"} BY DEF Init, FreshPc, Actors
  <2>2. Dead /\ ~Owing BY <2>1 DEF Dead, Owing
  <2>3. live = {} /\ Orphans = {} /\ faults = 0 /\ restarts = 0 BY DEF Init, Orphans
  <2>4. IsFiniteSet(live) /\ Cardinality(Orphans) = 0 BY <2>3, FS_EmptySet
  <2>5. Owed = 0 BY <2>2 DEF Owed
  <2> QED BY <2>2, <2>3, <2>4, <2>5 DEF LeakInv
<1>2. SessionInv /\ LeakInv => LeaksOnlyByFaults
  <2> SUFFICES ASSUME SessionInv, LeakInv PROVE LeaksOnlyByFaults OBVIOUS
  <2>1. IsFiniteSet(Orphans) BY FS_Subset DEF LeakInv, Orphans
  <2>2. Cardinality(Orphans) \in Nat /\ Owed \in {0, 1} BY <2>1, FS_CardinalityType DEF Owed
  <2>3. faults \in Nat /\ restarts \in Nat BY DEF SessionInv, TypeOK
  <2>4. Cardinality(Orphans) + Owed <= faults + restarts BY DEF LeakInv
  <2>5. Cardinality(Orphans) <= faults + restarts BY <2>2, <2>3, <2>4
  <2> QED BY <2>5 DEF LeaksOnlyByFaults
<1>3. SessionInv /\ LeakInv /\ [Next]_vars => (SessionInv /\ LeakInv)' BY NextKeeps, LeaksKept
<1> QED BY <1>1, <1>2, <1>3, InitEstablishes, PTL DEF Spec

=============================================================================
