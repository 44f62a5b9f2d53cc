-------------------------- MODULE SysVarTypesProofs --------------------------
(***************************************************************************)
(* Theorems about SysVarTypes, for any number of calls, types, lost        *)
(* requests and changes made elsewhere.                                    *)
(***************************************************************************)
EXTENDS SysVarTypes, TLAPS, FiniteSetTheorems

Shown(s) == [type |-> s.type, extra |-> s.extra]

\* A call that has begun has its arguments, and read a generation that is
\* not to come; a list that may still be installed shows what the CCU held
\* after the last invalidation.
CallFits(c) ==
    pc[c] # "free" =>
        /\ call[c] \in Call /\ call[c].gen <= gen
        /\ pc[c] = "list" /\ reply[c] # None /\ call[c].gen = gen => Shown(reply[c]) \in since

LateBegan == \A l \in late : pc[l.call] # "free"

CacheInv ==
    /\ TypeOK /\ LateBegan /\ \A c \in Calls : CallFits(c)
    /\ Now \in since /\ CacheOutlivesNoChange

-----------------------------------------------------------------------------
LEMMA InitCache == Init => CacheInv
<1> SUFFICES ASSUME Init PROVE CacheInv OBVIOUS
<1> USE SysVarAssumption
<1>1. TypeOK BY DEF Init, TypeOK, Type, View, Requests, Outcomes
<1>2. LateBegan /\ \A c \in Calls : CallFits(c) BY DEF Init, CallFits, LateBegan
<1>3. Now \in since /\ CacheOutlivesNoChange BY DEF Init, Now, CacheOutlivesNoChange
<1> QED BY <1>1, <1>2, <1>3 DEF CacheInv

\* What the variable becomes is remembered, and nothing is forgotten.
LEMMA BecomingKeeps ==
    ASSUME CacheInv, NEW type \in Type, NEW more \in Int, Becomes(type, more)
    PROVE  /\ ccu' \in Type /\ extra' \in Int /\ epoch' \in Nat /\ since' \subseteq View
           /\ since \subseteq since' /\ Now' \in since'
<1>1. [type |-> type, extra |-> more] \in View BY DEF View
<1> QED BY <1>1 DEF CacheInv, TypeOK, Becomes, Now

LEMMA ExecutionKeeps ==
    ASSUME CacheInv, NEW c \in Calls, NEW at \in Requests, Executes(c, at), call[c] \in Call
    PROVE  /\ ccu' \in Type /\ extra' \in Int /\ epoch' \in Nat /\ since' \subseteq View
           /\ since \subseteq since' /\ Now' \in since' /\ written' \in [Calls -> BOOLEAN]
           /\ at = "list" => UNCHANGED <<ccu, extra>>
<1> USE DEF CacheInv, TypeOK, Now
<1>1. call[c].type \in Type /\ None \in Type BY DEF Call, Type
<1>2. CASE at \in {"list", "verify"} BY <1>2 DEF Executes, store
<1>3. CASE at = "write" /\ call[c].op = "set" BY <1>3 DEF Executes
<1>4. CASE at = "write" /\ call[c].op = "create"
  <2>1. Created(call[c].type) /\ UNCHANGED written BY <1>4 DEF Executes
  <2> QED BY <1>1, <1>4, <2>1, BecomingKeeps DEF Created
<1>5. CASE at = "write" /\ call[c].op = "delete"
  <2>1. Becomes(None, extra) /\ UNCHANGED written BY <1>5 DEF Executes
  <2> QED BY <1>1, <1>5, <2>1, BecomingKeeps
<1>6. CASE at = "cleanup"
  <2>1. Becomes(ccu, extra - 1) /\ UNCHANGED written BY <1>6 DEF Executes
  <2> QED BY <1>6, <2>1, BecomingKeeps
<1> QED BY <1>2, <1>3, <1>4, <1>5, <1>6 DEF Executes

\* A step grows the memory, or begins a generation that nobody has read.
Grows == gen' = gen /\ since \subseteq since'
Alone(d) == pc'[d] = pc[d] /\ call'[d] = call[d] /\ reply'[d] = reply[d]

LEMMA AloneKeeps ==
    ASSUME CacheInv, NEW d \in Calls, Alone(d), Grows \/ gen' = gen + 1
    PROVE  CallFits(d)'
<1>1. gen \in Nat BY DEF CacheInv, TypeOK
<1>2. pc[d] # "free" => call[d].gen \in Nat BY DEF CacheInv, CallFits, Call
<1> QED BY <1>1, <1>2 DEF CacheInv, CallFits, Alone, Grows

-----------------------------------------------------------------------------
\* The CCU executes a request, at once or late.
LEMMA ExecutesKeeps == ASSUME CacheInv, NEW c \in Calls, CcuExecutes(c) PROVE CacheInv'
<1> DEFINE seen == [type |-> ccu, extra |-> extra, epoch |-> epoch, renamed |-> extra' > extra]
<1>1. pc[c] \in Requests /\ Executes(c, pc[c]) /\ reply' = [reply EXCEPT ![c] = seen] BY DEF CcuExecutes
<1>2. UNCHANGED <<entry, gen, call, pc, late, faults, foreign>> BY DEF CcuExecutes, cache
<1>3. call[c] \in Call BY <1>1 DEF CacheInv, CallFits, Requests
<1>4. /\ ccu' \in Type /\ extra' \in Int /\ epoch' \in Nat /\ since' \subseteq View
      /\ since \subseteq since' /\ Now' \in since' /\ written' \in [Calls -> BOOLEAN]
      /\ pc[c] = "list" => UNCHANGED <<ccu, extra>>
  BY <1>1, <1>3, ExecutionKeeps
<1>5. seen \in Seen BY <1>4 DEF CacheInv, TypeOK, Seen
<1>6. TypeOK' BY <1>1, <1>2, <1>4, <1>5 DEF CacheInv, TypeOK
<1>7. LateBegan' BY <1>2 DEF CacheInv, LateBegan
<1>8. Grows BY <1>2, <1>4 DEF Grows
<1>9. CallFits(c)'
  <2>1. reply'[c] = seen BY <1>1 DEF CacheInv, TypeOK
  <2>2. Shown(seen) = Now BY DEF Shown, Now
  <2>3. Shown(reply'[c]) \in since' BY <1>4, <2>1, <2>2 DEF CacheInv
  <2> QED BY <1>2, <2>3 DEF CacheInv, CallFits
<1>10. ASSUME NEW d \in Calls \ {c} PROVE CallFits(d)'
  <2>1. Alone(d) BY <1>1, <1>2 DEF Alone, CacheInv, TypeOK
  <2> QED BY <1>8, <2>1, AloneKeeps
<1>11. CacheOutlivesNoChange' BY <1>2, <1>4 DEF CacheInv, CacheOutlivesNoChange
<1> QED BY <1>4, <1>6, <1>7, <1>9, <1>10, <1>11 DEF CacheInv

LEMMA ExecutesLateKeeps == ASSUME CacheInv, NEW l \in late, CcuExecutesLate(l) PROVE CacheInv'
<1>1. l.call \in Calls /\ l.at \in Requests BY DEF CacheInv, TypeOK, Late
<1>2. call[l.call] \in Call BY <1>1 DEF CacheInv, CallFits, LateBegan
<1>3. Executes(l.call, l.at) /\ late' = late \ {l} /\ UNCHANGED <<entry, gen, call, pc, reply, faults, foreign>>
  BY DEF CcuExecutesLate, cache
<1>4. /\ ccu' \in Type /\ extra' \in Int /\ epoch' \in Nat /\ since' \subseteq View
      /\ since \subseteq since' /\ Now' \in since' /\ written' \in [Calls -> BOOLEAN]
  BY <1>1, <1>2, <1>3, ExecutionKeeps
<1>5. TypeOK' BY <1>3, <1>4 DEF CacheInv, TypeOK
<1>6. LateBegan' BY <1>3 DEF CacheInv, LateBegan
<1>7. ASSUME NEW d \in Calls PROVE CallFits(d)' BY <1>3, <1>4, AloneKeeps DEF Alone, Grows
<1>8. CacheOutlivesNoChange' BY <1>3, <1>4 DEF CacheInv, CacheOutlivesNoChange
<1> QED BY <1>4, <1>5, <1>6, <1>7, <1>8 DEF CacheInv

LEMMA ElsewhereKeeps == ASSUME CacheInv, NEW type \in Type, ChangedElsewhere(type) PROVE CacheInv'
<1>1. Becomes(type, extra) /\ foreign < MaxForeign /\ foreign' = foreign + 1
      /\ UNCHANGED <<written, entry, gen, call, pc, reply, late, faults>>
  BY DEF ChangedElsewhere, cache
<1>2. /\ ccu' \in Type /\ extra' \in Int /\ epoch' \in Nat /\ since' \subseteq View
      /\ since \subseteq since' /\ Now' \in since'
  BY <1>1, BecomingKeeps DEF CacheInv, TypeOK
<1>3. TypeOK' BY <1>1, <1>2, SysVarAssumption DEF CacheInv, TypeOK
<1>4. LateBegan' BY <1>1 DEF CacheInv, LateBegan
<1>5. ASSUME NEW d \in Calls PROVE CallFits(d)' BY <1>1, <1>2, AloneKeeps DEF Alone, Grows
<1>6. CacheOutlivesNoChange' BY <1>1, <1>2 DEF CacheInv, CacheOutlivesNoChange
<1> QED BY <1>2, <1>3, <1>4, <1>5, <1>6 DEF CacheInv

-----------------------------------------------------------------------------
\* A step of a tool: its call goes to another place, with no answer yet; the
\* entry stays, is replaced by what still fits, or goes with its generation.
Renews == entry' \in Seen /\ Shown(entry') \in since /\ UNCHANGED <<gen, since>>

LEMMA ToolKeeps ==
    ASSUME CacheInv, NEW c \in Calls, NEW place \in Requests \union Outcomes, GoesTo(c, place),
           NEW a \in Call, a.gen <= gen, call' = [call EXCEPT ![c] = a],
           UNCHANGED <<ccu, extra, epoch, written, foreign>>, faults' \in 0 .. MaxFaults,
           UNCHANGED <<entry, gen, since>> \/ Renews \/ Invalidates,
           \A l \in late' \ late : l \in Late /\ l.call = c
    PROVE  CacheInv'
<1> USE DEF CacheInv, TypeOK
<1>1. pc' = [pc EXCEPT ![c] = place] /\ reply' = [reply EXCEPT ![c] = None] BY DEF GoesTo
<1>2. place # "free" BY DEF Requests, Outcomes
<1>3. Grows \/ gen' = gen + 1 BY DEF Grows, Renews, Invalidates
<1>4. Now' \in since' /\ since' \subseteq View
  <2>1. Now \in View BY DEF Now, View
  <2> QED BY <2>1 DEF Renews, Invalidates, Now
<1>5. TypeOK' BY <1>1, <1>4 DEF Renews, Invalidates
<1>6. LateBegan'
  <2> SUFFICES ASSUME NEW l \in late' PROVE pc'[l.call] # "free" BY DEF LateBegan
  <2>1. l \in Late /\ (l.call = c \/ pc[l.call] # "free") BY DEF LateBegan
  <2> QED BY <1>1, <1>2, <2>1 DEF Late
<1>7. CallFits(c)'
  <2>1. call'[c] = a /\ reply'[c] = None BY <1>1
  <2>2. a.gen <= gen' BY <1>3 DEF Grows, Call
  <2> QED BY <2>1, <2>2 DEF CallFits
<1>8. ASSUME NEW d \in Calls \ {c} PROVE CallFits(d)'
  <2>1. Alone(d) BY <1>1 DEF Alone
  <2> QED BY <1>3, <2>1, AloneKeeps
<1>9. CacheOutlivesNoChange'
  <2>1. CASE UNCHANGED <<entry, gen, since>> BY <2>1 DEF CacheOutlivesNoChange
  <2>2. CASE Renews BY <2>2 DEF Renews, CacheOutlivesNoChange, Shown
  <2>3. CASE Invalidates BY <2>3 DEF Invalidates, CacheOutlivesNoChange
  <2> QED BY <2>1, <2>2, <2>3
<1> QED BY <1>4, <1>5, <1>6, <1>7, <1>8, <1>9

\* A call begins with the current generation.
LEMMA BegunKeeps ==
    ASSUME CacheInv, NEW c \in Calls, NEW a \in Call, a.gen = gen, call' = [call EXCEPT ![c] = a],
           NEW place \in Requests, GoesTo(c, place), UNCHANGED <<store, cache, late, faults, foreign>>
    PROVE  CacheInv'
<1>1. UNCHANGED <<ccu, extra, epoch, since, written, entry, gen, late, faults, foreign>> BY DEF store, cache
<1>2. faults' \in 0 .. MaxFaults /\ a.gen <= gen BY <1>1 DEF CacheInv, TypeOK
<1> QED BY <1>1, <1>2, ToolKeeps

LEMMA BeginKeeps ==
    ASSUME CacheInv, NEW c \in Calls,
           BeginFromCache(c) \/ \E op \in {"set", "create", "delete"}, type \in Type : Begin(c, op, type)
    PROVE  CacheInv'
<1>1. 0 \in 0 .. 1 /\ epoch \in Nat /\ gen \in Nat BY DEF CacheInv, TypeOK
<1>2. ASSUME NEW op \in {"set", "create", "delete"}, NEW type \in Type
      PROVE  Asked(op, type) \in Call /\ Asked(op, type).gen = gen
  BY <1>1 DEF Call, Asked
<1>3. CASE BeginFromCache(c)
  <2> DEFINE a == [Asked("set", entry.type) EXCEPT !.epoch = entry.epoch]
  <2>1. entry \in Seen BY <1>3 DEF BeginFromCache, CacheInv, TypeOK
  <2>2. entry.type \in Type /\ entry.epoch \in Nat BY <2>1 DEF Seen
  <2>3. a \in Call /\ a.gen = gen BY <1>2, <2>2 DEF Call
  <2>4. call' = [call EXCEPT ![c] = a] /\ GoesTo(c, "write") /\ UNCHANGED <<store, cache, late, faults, foreign>>
    BY <1>3 DEF BeginFromCache
  <2> HIDE DEF a
  <2> QED BY <2>3, <2>4, BegunKeeps DEF Requests
<1>4. ASSUME NEW op \in {"set", "create", "delete"}, NEW type \in Type, Begin(c, op, type) PROVE CacheInv'
  BY <1>2, <1>4, BegunKeeps DEF Begin, Requests
<1> QED BY <1>3, <1>4

\* The call keeps its arguments.
LEMMA StaysKeeps ==
    ASSUME CacheInv, NEW c \in Calls, pc[c] \in Requests, NEW place \in Requests \union Outcomes,
           GoesTo(c, place), UNCHANGED <<ccu, extra, epoch, written, foreign, call>>,
           faults' \in 0 .. MaxFaults,
           UNCHANGED <<entry, gen, since>> \/ Invalidates,
           \A l \in late' \ late : l \in Late /\ l.call = c
    PROVE  CacheInv'
<1>1. call[c] \in Call /\ call[c].gen <= gen BY DEF CacheInv, CallFits, Requests
<1>2. call' = [call EXCEPT ![c] = call[c]] BY DEF CacheInv, TypeOK
<1> QED BY <1>1, <1>2, ToolKeeps

\* The next request, or the outcome, with the generation of the call.
LEMMA ProceedsKeeps ==
    ASSUME CacheInv, NEW c \in Calls, pc[c] \in Requests, NEW place \in Requests \union Outcomes,
           NEW type \in Type, NEW time \in Nat, Proceeds(c, place, type, time),
           UNCHANGED <<ccu, extra, epoch, written, foreign, faults, late>>,
           UNCHANGED <<entry, gen, since>> \/ Renews \/ Invalidates
    PROVE  CacheInv'
<1> DEFINE a == [call[c] EXCEPT !.attempt = 0, !.type = type, !.epoch = time]
<1>1. call[c] \in Call /\ call[c].gen <= gen BY DEF CacheInv, CallFits, Requests
<1>2. 0 \in 0 .. 1 OBVIOUS
<1>3. a \in Call /\ a.gen = call[c].gen BY <1>1, <1>2 DEF Call
<1>4. call' = [call EXCEPT ![c] = a] BY <1>1 DEF Proceeds, CacheInv, TypeOK
<1>5. GoesTo(c, place) BY DEF Proceeds
<1>6. faults' \in 0 .. MaxFaults BY DEF CacheInv, TypeOK
<1> HIDE DEF a
<1> QED BY <1>1, <1>3, <1>4, <1>5, <1>6, ToolKeeps

LEMMA ListAnsweredKeeps == ASSUME CacheInv, NEW c \in Calls, ListAnswered(c) PROVE CacheInv'
<1> USE DEF CacheInv, TypeOK, store
<1>1. /\ pc[c] = "list" /\ reply[c] # None /\ pc[c] \in Requests
      /\ UNCHANGED <<ccu, extra, epoch, since, written, gen, late, faults, foreign>>
  BY DEF ListAnswered, Requests
<1>2. /\ reply[c] \in Seen /\ reply[c].type \in Type /\ reply[c].epoch \in Nat
      /\ call[c] \in Call /\ call[c].type \in Type /\ call[c].epoch \in Nat /\ None \in Type
  BY <1>1 DEF CallFits, Seen, Call, Type
<1>3. {"notfound", "write", "exists"} \subseteq Requests \union Outcomes BY DEF Requests, Outcomes
<1>4. CASE /\ call[c].op = "set" /\ entry' = (IF Installs(c) THEN reply[c] ELSE entry)
           /\ Proceeds(c, IF reply[c].type = None THEN "notfound" ELSE "write", reply[c].type, reply[c].epoch)
  <2>1. entry' = entry \/ Renews BY <1>1, <1>2, <1>4 DEF Installs, Renews, CallFits
  <2> QED BY <1>1, <1>2, <1>3, <1>4, <2>1, ProceedsKeeps
<1>5. CASE /\ call[c].op = "create" /\ UNCHANGED entry
           /\ Proceeds(c, IF reply[c].type = None THEN "write" ELSE "exists", call[c].type, call[c].epoch)
  BY <1>1, <1>2, <1>3, <1>5, ProceedsKeeps
<1>6. CASE /\ call[c].op = "delete" /\ UNCHANGED entry
           /\ Proceeds(c, IF reply[c].type = None THEN "notfound" ELSE "write", None, call[c].epoch)
  BY <1>1, <1>2, <1>3, <1>6, ProceedsKeeps
<1> QED BY <1>4, <1>5, <1>6 DEF ListAnswered

LEMMA WriteAnsweredKeeps == ASSUME CacheInv, NEW c \in Calls, WriteAnswered(c) PROVE CacheInv'
<1> USE DEF CacheInv, TypeOK, store, cache
<1>1. pc[c] \in Requests /\ UNCHANGED <<late, faults, foreign>> BY DEF WriteAnswered, Requests
<1>2. call[c].type \in Type /\ call[c].epoch \in Nat BY <1>1 DEF CallFits, Call, Requests
<1>3. \E place \in Requests \union Outcomes :
        /\ Proceeds(c, place, call[c].type, call[c].epoch)
        /\ UNCHANGED <<store, cache>> \/ Invalidates
  BY DEF WriteAnswered, Requests, Outcomes
<1>4. UNCHANGED <<store, cache>> \/ Invalidates => UNCHANGED <<ccu, extra, epoch, written>> BY DEF Invalidates
<1> QED BY <1>1, <1>2, <1>3, <1>4, ProceedsKeeps

LEMMA VerifyAnsweredKeeps == ASSUME CacheInv, NEW c \in Calls, VerifyAnswered(c) PROVE CacheInv'
<1>1. pc[c] \in Requests BY DEF VerifyAnswered, Requests
<1>2. PICK place \in Confirms(c) : GoesTo(c, place) BY DEF VerifyAnswered
<1>3. place \in Requests \union Outcomes BY <1>2 DEF Confirms, Outcomes
<1>4. UNCHANGED <<ccu, extra, epoch, since, written, entry, gen, call, late, faults, foreign>>
  BY DEF VerifyAnswered, store, cache
<1>5. faults' \in 0 .. MaxFaults BY <1>4 DEF CacheInv, TypeOK
<1> QED BY <1>1, <1>2, <1>3, <1>4, <1>5, StaysKeeps

LEMMA CleanupAnsweredKeeps == ASSUME CacheInv, NEW c \in Calls, CleanupAnswered(c) PROVE CacheInv'
<1>1. pc[c] \in Requests /\ "taken" \in Outcomes BY DEF CleanupAnswered, Requests, Outcomes
<1>2. /\ GoesTo(c, "taken") /\ Invalidates /\ UNCHANGED <<ccu, extra, epoch, written, call, late, faults, foreign>>
  BY DEF CleanupAnswered, Invalidates
<1>3. faults' \in 0 .. MaxFaults BY <1>2 DEF CacheInv, TypeOK
<1> QED BY <1>1, <1>2, <1>3, StaysKeeps

\* A request that fails for good, or is refused.
LEMMA GivesUpPlace ==
    ASSUME NEW c \in Calls, GivesUp(c)
    PROVE  /\ \E place \in Outcomes : GoesTo(c, place)
           /\ UNCHANGED <<entry, gen, since>> \/ Invalidates
           /\ UNCHANGED <<ccu, extra, epoch, written>>
<1>1. "failed" \in Outcomes /\ "unverified" \in Outcomes /\ "taken" \in Outcomes BY DEF Outcomes
<1> QED BY <1>1 DEF GivesUp, Invalidates, store, cache

LEMMA RefusedKeeps == ASSUME CacheInv, NEW c \in Calls, Refused(c) PROVE CacheInv'
<1>1. pc[c] \in Requests /\ GivesUp(c) /\ UNCHANGED <<call, late, foreign>> /\ faults < MaxFaults /\ faults' = faults + 1
  BY DEF Refused
<1>2. faults' \in 0 .. MaxFaults BY <1>1, SysVarAssumption DEF CacheInv, TypeOK
<1> QED BY <1>1, <1>2, GivesUpPlace, StaysKeeps

LEMMA LostKeeps == ASSUME CacheInv, NEW c \in Calls, Lost(c) PROVE CacheInv'
<1> DEFINE l == [call |-> c, at |-> pc[c], attempt |-> call[c].attempt]
<1>1. pc[c] \in Requests /\ UNCHANGED foreign /\ faults < MaxFaults /\ faults' = faults + 1 BY DEF Lost
<1>2. faults' \in 0 .. MaxFaults BY <1>1, SysVarAssumption DEF CacheInv, TypeOK
<1>3. call[c] \in Call /\ call[c].gen <= gen BY <1>1 DEF CacheInv, CallFits, Requests
<1>4. l \in Late /\ l.call = c BY <1>1, <1>3 DEF Late, Call
<1>5. late' \subseteq late \union {l} BY DEF Lost
<1>6. \A k \in late' \ late : k \in Late /\ k.call = c BY <1>4, <1>5
<1> HIDE DEF l
<1>7. CASE Retries(c)
  <2> DEFINE a == [call[c] EXCEPT !.attempt = @ + 1]
  <2>1. call[c].attempt < 1 BY <1>7 DEF Retries
  <2>2. a \in Call /\ a.gen = call[c].gen BY <1>3, <2>1 DEF Call
  <2>3. call' = [call EXCEPT ![c] = a] /\ GoesTo(c, pc[c]) /\ UNCHANGED <<ccu, extra, epoch, since, written, entry, gen>>
    BY <1>7 DEF Lost, store, cache
  <2> HIDE DEF a
  <2> QED BY <1>1, <1>2, <1>3, <1>6, <2>2, <2>3, ToolKeeps
<1>8. CASE ~Retries(c)
  <2>1. GivesUp(c) /\ UNCHANGED call BY <1>8 DEF Lost
  <2> QED BY <1>1, <1>2, <1>6, <2>1, GivesUpPlace, StaysKeeps
<1> QED BY <1>7, <1>8

-----------------------------------------------------------------------------
LEMMA NextKeeps == CacheInv /\ [Next]_vars => CacheInv'
<1> SUFFICES ASSUME CacheInv, [Next]_vars PROVE CacheInv' OBVIOUS
<1>1. CASE Next
  BY <1>1, BeginKeeps, ListAnsweredKeeps, WriteAnsweredKeeps, VerifyAnsweredKeeps, CleanupAnsweredKeeps,
     RefusedKeeps, LostKeeps, ExecutesKeeps, ExecutesLateKeeps, ElsewhereKeeps
  DEF Next, Step
<1>2. CASE UNCHANGED vars
  BY <1>2 DEF vars, store, cache, CacheInv, TypeOK, LateBegan, CallFits, Now, CacheOutlivesNoChange
<1> QED BY <1>1, <1>2

\* The inductive invariant of the tools on one variable.
THEOREM SpecCache == Spec => []CacheInv
BY InitCache, NextKeeps, PTL DEF Spec

\* The types of the model: calls, requests and the cache keep their shape,
\* answers given up too early and requests executed late included.
THEOREM TypesKept == Spec => []TypeOK
<1>1. CacheInv => TypeOK BY DEF CacheInv
<1> QED BY <1>1, SpecCache, PTL

\* Whatever sets, creates and deletes do to each other, and whoever else
\* changes the variable: what the type cache of control.ts says, the CCU has
\* held since the last create or delete was acknowledged.
THEOREM CacheIsRecent == Spec => []CacheOutlivesNoChange
<1>1. CacheInv => CacheOutlivesNoChange BY DEF CacheInv
<1> QED BY <1>1, SpecCache, PTL

-----------------------------------------------------------------------------
(* A set and the variable it believes to be there.  What a call, a reply or *)
(* the entry knows is a type with the creation it belongs to; while no new  *)
(* variable was created, there is one of that type or there is none.        *)

Timed(s) == s.epoch <= epoch /\ (s.epoch = epoch => ccu \in {s.type, None})
Real(c) == written[c] \/ epoch # call[c].epoch
Assumes(c) == pc[c] \in {"write", "verify", "ok"} /\ call[c].op = "set"

\* How far a set has got: when its write found another variable than assumed
\* there is none of that name, and the verification will say so.
SetFits(c) ==
    /\ reply[c] # None => Timed(reply[c])
    /\ Assumes(c) =>
        /\ Timed(call[c])
        /\ pc[c] = "write" /\ reply[c] # None => Real(c) \/ (ccu = None /\ reply[c].type = None)
        /\ pc[c] = "verify" => Real(c) \/ ccu = None
        /\ pc[c] = "verify" /\ reply[c] # None => Real(c) \/ reply[c].type = None
        /\ pc[c] = "ok" => Real(c)

SetInv == (\A c \in Calls : SetFits(c)) /\ (entry # None => Timed(entry))

\* Creations are counted, and what was set stays set.
Drifts ==
    /\ epoch' >= epoch /\ (epoch' = epoch => ccu' \in {ccu, None})
    /\ \A c \in Calls : written[c] => written'[c]

LEMMA InitSets == Init => SetInv
BY DEF Init, SetInv, SetFits, Assumes

LEMMA BecomingDrifts ==
    ASSUME CacheInv, NEW type \in Type, NEW more \in Int, Becomes(type, more)
    PROVE  epoch' >= epoch /\ (epoch' = epoch => ccu' \in {ccu, None})
BY DEF CacheInv, TypeOK, Becomes

LEMMA ExecutionDrifts ==
    ASSUME CacheInv, NEW c \in Calls, NEW at \in Requests, Executes(c, at), call[c] \in Call
    PROVE  Drifts
<1> USE DEF CacheInv, TypeOK, Drifts
<1>1. call[c].type \in Type /\ None \in Type BY DEF Call, Type
<1>2. CASE at \in {"list", "verify"} BY <1>2 DEF Executes, store
<1>3. CASE at = "write" /\ call[c].op = "set" BY <1>3 DEF Executes
<1>4. CASE at = "write" /\ call[c].op = "create"
  <2>1. Created(call[c].type) /\ UNCHANGED written BY <1>4 DEF Executes
  <2> QED BY <1>1, <2>1, BecomingDrifts DEF Created
<1>5. CASE at = "write" /\ call[c].op = "delete"
  <2>1. Becomes(None, extra) /\ UNCHANGED written BY <1>5 DEF Executes
  <2> QED BY <1>1, <2>1, BecomingDrifts
<1>6. CASE at = "cleanup"
  <2>1. Becomes(ccu, extra - 1) /\ UNCHANGED written BY <1>6 DEF Executes
  <2> QED BY <2>1, BecomingDrifts
<1> QED BY <1>2, <1>3, <1>4, <1>5, <1>6 DEF Executes

\* What was known before a creation is known to be old after it.
LEMMA DriftTimes ==
    ASSUME CacheInv, Drifts, epoch' \in Nat, NEW type, NEW time \in Nat,
           time <= epoch, time = epoch => ccu \in {type, None}
    PROVE  /\ time <= epoch' /\ (time = epoch' => ccu' \in {type, None})
           /\ epoch # time => epoch' # time
           /\ ccu = None => ccu' = None \/ epoch' # time
BY DEF CacheInv, TypeOK, Drifts

LEMMA DriftAlone ==
    ASSUME CacheInv, SetInv, Drifts, epoch' \in Nat, NEW d \in Calls, Alone(d)
    PROVE  SetFits(d)'
<1>1. SetFits(d) BY DEF SetInv
<1>2. reply[d] # None => reply[d].epoch \in Nat BY DEF CacheInv, TypeOK, Seen
<1>3. Assumes(d) => call[d].epoch \in Nat BY DEF CacheInv, CallFits, Assumes, Call
<1>4. reply'[d] # None => Timed(reply[d])' BY <1>1, <1>2, DriftTimes DEF SetFits, Timed, Alone
<1>5. Assumes(d)' => Assumes(d) BY DEF Assumes, Alone
<1>6. Assumes(d) => Timed(call[d]) /\ Timed(call[d])' BY <1>1, <1>3, DriftTimes DEF SetFits, Timed, Alone
<1>7. Assumes(d) /\ Real(d) => Real(d)'
  BY <1>3, <1>6, DriftTimes DEF Real, Timed, Alone, Drifts
<1>8. Assumes(d) /\ ccu = None => ccu' = None \/ Real(d)'
  BY <1>3, <1>6, DriftTimes DEF Real, Timed, Alone
<1>9. pc'[d] = pc[d] /\ reply'[d] = reply[d] BY DEF Alone
<1> HIDE DEF Real, Assumes
<1> QED BY <1>1, <1>4, <1>5, <1>6, <1>7, <1>8, <1>9 DEF SetFits

LEMMA DriftEntry ==
    ASSUME CacheInv, SetInv, Drifts, epoch' \in Nat, entry' \in {entry, None}
    PROVE  entry' # None => Timed(entry)'
<1>1. entry # None => entry.epoch \in Nat BY DEF CacheInv, TypeOK, Seen
<1> QED BY <1>1, DriftTimes DEF SetInv, Timed

-----------------------------------------------------------------------------
\* The CCU moves, by a request of these tools or by somebody else.
LEMMA ExecutesSets == ASSUME CacheInv, SetInv, NEW c \in Calls, CcuExecutes(c) PROVE SetInv'
<1>0. PICK seen : seen = [type |-> ccu, extra |-> extra, epoch |-> epoch, renamed |-> extra' > extra] OBVIOUS
<1>1. pc[c] \in Requests /\ reply[c] = None /\ Executes(c, pc[c]) /\ reply' = [reply EXCEPT ![c] = seen]
      /\ UNCHANGED <<entry, gen, call, pc, late>>
  BY <1>0 DEF CcuExecutes, cache
<1>2. call[c] \in Call BY <1>1 DEF CacheInv, CallFits, Requests
<1>3. epoch \in Nat /\ epoch' \in Nat BY <1>1, <1>2, ExecutionKeeps DEF CacheInv, TypeOK
<1>4. Drifts BY <1>1, <1>2, ExecutionDrifts
<1>5. ASSUME NEW d \in Calls \ {c} PROVE SetFits(d)'
  <2>1. Alone(d) BY <1>1 DEF Alone, CacheInv, TypeOK
  <2> QED BY <1>3, <1>4, <2>1, DriftAlone
<1>6. SetFits(c)'
  <2>1. reply'[c] = seen /\ call'[c] = call[c] /\ pc'[c] = pc[c] /\ pc[c] # "ok" BY <1>1 DEF CacheInv, TypeOK, Requests
  <2>2. Timed(seen)' BY <1>0, <1>3, <1>4 DEF Timed, Drifts
  <2>3. ASSUME Assumes(c)
        PROVE  Timed(call[c])' /\ (pc[c] = "verify" => Real(c)' \/ ccu' = None)
    <3>1. call[c].epoch \in Nat BY <1>2 DEF Call
    <3>2. Timed(call[c]) /\ (pc[c] = "verify" => Real(c) \/ ccu = None) BY <2>3 DEF SetInv, SetFits
    <3>3. Timed(call[c])' BY <1>1, <1>3, <1>4, <3>1, <3>2, DriftTimes DEF Timed
    <3>4. Real(c) => Real(c)' BY <1>1, <1>3, <1>4, <3>1, <3>2, DriftTimes DEF Timed, Real, Drifts
    <3>5. ccu = None => ccu' = None \/ Real(c)' BY <1>1, <1>3, <1>4, <3>1, <3>2, DriftTimes DEF Timed, Real
    <3> QED BY <3>2, <3>3, <3>4, <3>5
  <2>4. ASSUME Assumes(c), pc[c] = "write" PROVE Real(c)' \/ (ccu' = None /\ seen.type = None)
    <3>1. /\ written' = [written EXCEPT ![c] = @ \/ ccu = call[c].type] /\ UNCHANGED <<ccu, epoch>>
          /\ Timed(call[c])
      BY <1>1, <2>4 DEF Executes, Assumes, SetInv, SetFits
    <3> QED BY <1>0, <1>1, <1>3, <3>1 DEF Real, Timed, CacheInv, TypeOK
  <2>5. ASSUME Assumes(c), pc[c] = "verify" PROVE Real(c)' \/ seen.type = None
    <3>1. UNCHANGED <<ccu, epoch, written>> BY <1>1, <2>5 DEF Executes, store
    <3>2. Real(c) \/ ccu = None BY <2>5 DEF SetInv, SetFits
    <3> QED BY <1>0, <1>1, <3>1, <3>2 DEF Real
  <2>6. Assumes(c)' = Assumes(c) BY <2>1 DEF Assumes
  <2> HIDE DEF Real, Assumes, Timed
  <2> QED BY <2>1, <2>2, <2>3, <2>4, <2>5, <2>6 DEF SetFits
<1>7. entry' # None => Timed(entry)' BY <1>1, <1>3, <1>4, DriftEntry
<1> QED BY <1>1, <1>5, <1>6, <1>7 DEF SetInv, Timed

LEMMA ExecutesLateSets == ASSUME CacheInv, SetInv, NEW l \in late, CcuExecutesLate(l) PROVE SetInv'
<1>1. l.call \in Calls /\ l.at \in Requests BY DEF CacheInv, TypeOK, Late
<1>2. call[l.call] \in Call BY <1>1 DEF CacheInv, CallFits, LateBegan
<1>3. Executes(l.call, l.at) /\ UNCHANGED <<entry, call, pc, reply>> BY DEF CcuExecutesLate, cache
<1>4. epoch' \in Nat /\ Drifts BY <1>1, <1>2, <1>3, ExecutionKeeps, ExecutionDrifts
<1>5. \A d \in Calls : SetFits(d)' BY <1>3, <1>4, DriftAlone DEF Alone
<1>6. entry' # None => Timed(entry)' BY <1>3, <1>4, DriftEntry
<1> QED BY <1>3, <1>5, <1>6 DEF SetInv, Timed

LEMMA ElsewhereSets == ASSUME CacheInv, SetInv, NEW type \in Type, ChangedElsewhere(type) PROVE SetInv'
<1>1. Becomes(type, extra) /\ UNCHANGED <<written, entry, call, pc, reply>> BY DEF ChangedElsewhere, cache
<1>2. extra \in Int BY DEF CacheInv, TypeOK
<1>3. epoch' \in Nat BY <1>1, <1>2, BecomingKeeps
<1>4. Drifts BY <1>1, <1>2, BecomingDrifts DEF Drifts
<1>5. \A d \in Calls : SetFits(d)' BY <1>1, <1>3, <1>4, DriftAlone DEF Alone
<1>6. entry' # None => Timed(entry)' BY <1>1, <1>3, <1>4, DriftEntry
<1> QED BY <1>1, <1>5, <1>6 DEF SetInv, Timed

-----------------------------------------------------------------------------
\* A step of a tool finds the variable as it is: what matters is what the
\* call that moves assumes from now on.
LEMMA ToolSets ==
    ASSUME CacheInv, SetInv, NEW c \in Calls, NEW place \in Requests \union Outcomes, GoesTo(c, place),
           NEW a \in Call, call' = [call EXCEPT ![c] = a],
           UNCHANGED <<ccu, epoch, written>>,
           entry' \in {entry, None} \/ (entry' = reply[c] /\ reply[c] # None),
           a.op = "set" /\ place \in {"write", "verify", "ok"} =>
               /\ Timed(a)
               /\ place = "verify" => written[c] \/ epoch # a.epoch \/ ccu = None
               /\ place = "ok" => written[c] \/ epoch # a.epoch
    PROVE  SetInv'
<1>1. pc' = [pc EXCEPT ![c] = place] /\ reply' = [reply EXCEPT ![c] = None] BY DEF GoesTo
<1>2. Drifts /\ epoch' \in Nat BY DEF Drifts, CacheInv, TypeOK
<1>3. ASSUME NEW d \in Calls \ {c} PROVE SetFits(d)'
  <2>1. Alone(d) BY <1>1 DEF Alone, CacheInv, TypeOK
  <2> QED BY <1>2, <2>1, DriftAlone
<1>4. SetFits(c)'
  <2>1. pc'[c] = place /\ reply'[c] = None /\ call'[c] = a BY <1>1 DEF CacheInv, TypeOK
  <2> QED BY <2>1 DEF SetFits, Assumes, Real, Timed
<1>5. entry' # None => Timed(entry)' BY DEF SetInv, SetFits, Timed
<1> QED BY <1>3, <1>4, <1>5 DEF SetInv

LEMMA BeginSets ==
    ASSUME CacheInv, SetInv, NEW c \in Calls,
           BeginFromCache(c) \/ \E op \in {"set", "create", "delete"}, type \in Type : Begin(c, op, type)
    PROVE  SetInv'
<1>1. 0 \in 0 .. 1 /\ epoch \in Nat /\ gen \in Nat BY DEF CacheInv, TypeOK
<1>2. ASSUME NEW op \in {"set", "create", "delete"}, NEW type \in Type PROVE Asked(op, type) \in Call
  BY <1>1 DEF Call, Asked
<1>3. CASE BeginFromCache(c)
  <2> DEFINE a == [Asked("set", entry.type) EXCEPT !.epoch = entry.epoch]
  <2>1. entry \in Seen /\ entry # None /\ Timed(entry) BY <1>3 DEF BeginFromCache, CacheInv, TypeOK, SetInv
  <2>2. a \in Call /\ a.type = entry.type /\ a.epoch = entry.epoch BY <1>2, <2>1 DEF Call, Seen, Asked
  <2>3. Timed(a) BY <2>1, <2>2 DEF Timed
  <2>4. call' = [call EXCEPT ![c] = a] /\ GoesTo(c, "write") /\ UNCHANGED <<ccu, epoch, written, entry>>
    BY <1>3 DEF BeginFromCache, store, cache
  <2>5. "write" \in Requests \union Outcomes /\ entry' \in {entry, None} BY <2>4 DEF Requests
  <2> HIDE DEF a
  <2> QED BY <2>2, <2>3, <2>4, <2>5, ToolSets
<1>4. ASSUME NEW op \in {"set", "create", "delete"}, NEW type \in Type, Begin(c, op, type) PROVE SetInv'
  <2>1. GoesTo(c, "list") /\ call' = [call EXCEPT ![c] = Asked(op, type)] /\ UNCHANGED <<ccu, epoch, written, entry>>
    BY <1>4 DEF Begin, store, cache
  <2>2. "list" \in Requests \union Outcomes /\ entry' \in {entry, None} BY <2>1 DEF Requests
  <2> QED BY <1>2, <2>1, <2>2, ToolSets
<1> QED BY <1>3, <1>4

\* The next request, or the outcome, of a call that goes on.
LEMMA ProceedsSets ==
    ASSUME CacheInv, SetInv, NEW c \in Calls, pc[c] \in Requests, NEW place \in Requests \union Outcomes,
           NEW type \in Type, NEW time \in Nat, Proceeds(c, place, type, time),
           UNCHANGED <<ccu, epoch, written>>,
           entry' \in {entry, None} \/ (entry' = reply[c] /\ reply[c] # None),
           call[c].op = "set" /\ place \in {"write", "verify", "ok"} =>
               /\ time <= epoch /\ (time = epoch => ccu \in {type, None})
               /\ place = "verify" => written[c] \/ epoch # time \/ ccu = None
               /\ place = "ok" => written[c] \/ epoch # time
    PROVE  SetInv'
<1> DEFINE a == [call[c] EXCEPT !.attempt = 0, !.type = type, !.epoch = time]
<1>1. call[c] \in Call /\ 0 \in 0 .. 1 BY DEF CacheInv, CallFits, Requests
<1>2. a \in Call /\ a.type = type /\ a.epoch = time /\ a.op = call[c].op BY <1>1 DEF Call
<1>3. call' = [call EXCEPT ![c] = a] /\ GoesTo(c, place) BY <1>1 DEF Proceeds, CacheInv, TypeOK
<1>4. (time <= epoch /\ (time = epoch => ccu \in {type, None})) => Timed(a) BY <1>2 DEF Timed
<1> HIDE DEF a
<1> QED BY <1>2, <1>3, <1>4, ToolSets

\* The call keeps its arguments.
LEMMA StaysSets ==
    ASSUME CacheInv, SetInv, NEW c \in Calls, pc[c] \in Requests, NEW place \in Requests \union Outcomes, GoesTo(c, place),
           UNCHANGED <<ccu, epoch, written, call>>, entry' \in {entry, None},
           place \in {"write", "verify", "ok"} /\ call[c].op = "set" =>
               place = "ok" /\ pc[c] = "verify" /\ Real(c)
    PROVE  SetInv'
<1>1. call[c] \in Call BY DEF CacheInv, CallFits, Requests
<1>2. call' = [call EXCEPT ![c] = call[c]] BY DEF CacheInv, TypeOK
<1>3. pc[c] = "verify" /\ call[c].op = "set" => Timed(call[c]) BY DEF SetInv, SetFits, Assumes
<1> QED BY <1>1, <1>2, <1>3, ToolSets DEF Real

LEMMA ListAnsweredSets == ASSUME CacheInv, SetInv, NEW c \in Calls, ListAnswered(c) PROVE SetInv'
<1> USE DEF CacheInv, TypeOK
<1>1. /\ pc[c] = "list" /\ reply[c] # None /\ pc[c] \in Requests /\ UNCHANGED <<ccu, epoch, written>>
  BY DEF ListAnswered, Requests, store
<1>2. /\ reply[c].type \in Type /\ reply[c].epoch \in Nat /\ Timed(reply[c])
      /\ call[c].type \in Type /\ call[c].epoch \in Nat /\ None \in Type
  BY <1>1 DEF CallFits, Seen, Call, Type, SetInv, SetFits
<1>3. {"notfound", "write", "exists"} \subseteq Requests \union Outcomes BY DEF Requests, Outcomes
<1>4. CASE /\ call[c].op = "set" /\ entry' = (IF Installs(c) THEN reply[c] ELSE entry)
           /\ Proceeds(c, IF reply[c].type = None THEN "notfound" ELSE "write", reply[c].type, reply[c].epoch)
  <2>1. entry' = entry \/ entry' = reply[c] BY <1>4
  <2>2. reply[c].epoch <= epoch /\ (reply[c].epoch = epoch => ccu \in {reply[c].type, None}) BY <1>2 DEF Timed
  <2> QED BY <1>1, <1>2, <1>3, <1>4, <2>1, <2>2, ProceedsSets
<1>5. CASE /\ call[c].op = "create" /\ UNCHANGED entry
           /\ Proceeds(c, IF reply[c].type = None THEN "write" ELSE "exists", call[c].type, call[c].epoch)
  BY <1>1, <1>2, <1>3, <1>5, ProceedsSets
<1>6. CASE /\ call[c].op = "delete" /\ UNCHANGED entry
           /\ Proceeds(c, IF reply[c].type = None THEN "notfound" ELSE "write", None, call[c].epoch)
  BY <1>1, <1>2, <1>3, <1>6, ProceedsSets
<1> QED BY <1>4, <1>5, <1>6 DEF ListAnswered

\* A script answers for itself; any other write is looked at once more.
LEMMA WriteAnsweredSets == ASSUME CacheInv, SetInv, NEW c \in Calls, WriteAnswered(c) PROVE SetInv'
<1>1. pc[c] = "write" /\ pc[c] \in Requests /\ reply[c] # None BY DEF WriteAnswered, Requests
<1>2. call[c].type \in Type /\ call[c].epoch \in Nat BY <1>1 DEF CacheInv, CallFits, Call, Requests
<1>3. call[c].op = "set" => /\ Timed(call[c])
                            /\ Real(c) \/ (ccu = None /\ reply[c].type = None)
  BY <1>1 DEF SetInv, SetFits, Assumes
<1>4. UNCHANGED <<ccu, epoch, written>> /\ entry' \in {entry, None} BY DEF WriteAnswered, Invalidates, store, cache
<1>5. PICK place \in Requests \union Outcomes :
        /\ Proceeds(c, place, call[c].type, call[c].epoch)
        /\ call[c].op = "set" => place = "verify" \/ place = "notfound" \/ (place = "ok" /\ reply[c].type # None)
  BY DEF WriteAnswered, Requests, Outcomes
<1>6. call[c].op = "set" /\ place \in {"write", "verify", "ok"} =>
        /\ call[c].epoch <= epoch /\ (call[c].epoch = epoch => ccu \in {call[c].type, None})
        /\ place = "verify" => written[c] \/ epoch # call[c].epoch \/ ccu = None
        /\ place = "ok" => written[c] \/ epoch # call[c].epoch
  BY <1>3, <1>5 DEF Timed, Real
<1> QED BY <1>1, <1>2, <1>4, <1>5, <1>6, ProceedsSets

LEMMA VerifyAnsweredSets == ASSUME CacheInv, SetInv, NEW c \in Calls, VerifyAnswered(c) PROVE SetInv'
<1>1. pc[c] = "verify" /\ pc[c] \in Requests /\ reply[c] # None BY DEF VerifyAnswered, Requests
<1>2. PICK place \in Confirms(c) : GoesTo(c, place) BY DEF VerifyAnswered
<1>3. place \in Requests \union Outcomes /\ (place = "ok" => reply[c].type # None)
      /\ place \in {"ok", "notfound"}
  BY <1>2 DEF Confirms, Outcomes
<1>4. UNCHANGED <<ccu, epoch, written, call, entry>> BY DEF VerifyAnswered, store, cache
<1>5. call[c].op = "set" /\ reply[c].type # None => Real(c) BY <1>1 DEF SetInv, SetFits, Assumes
<1>6. place \in {"write", "verify", "ok"} /\ call[c].op = "set" =>
        place = "ok" /\ pc[c] = "verify" /\ Real(c)
  BY <1>1, <1>3, <1>5
<1> QED BY <1>1, <1>2, <1>3, <1>4, <1>6, StaysSets

LEMMA CleanupAnsweredSets == ASSUME CacheInv, SetInv, NEW c \in Calls, CleanupAnswered(c) PROVE SetInv'
<1>1. pc[c] \in Requests /\ "taken" \in Requests \union Outcomes BY DEF CleanupAnswered, Requests, Outcomes
<1>2. GoesTo(c, "taken") /\ UNCHANGED <<ccu, epoch, written, call>> /\ entry' \in {entry, None}
  BY DEF CleanupAnswered, Invalidates
<1> QED BY <1>1, <1>2, StaysSets

LEMMA GivesUpSets == ASSUME CacheInv, SetInv, NEW c \in Calls, pc[c] \in Requests, GivesUp(c), UNCHANGED call PROVE SetInv'
<1>1. PICK place \in {"failed", "unverified", "taken"} : GoesTo(c, place) BY DEF GivesUp
<1>2. UNCHANGED <<ccu, epoch, written, call>> /\ entry' \in {entry, None} BY GivesUpPlace DEF Invalidates
<1>3. place \in Requests \union Outcomes BY DEF Outcomes
<1> QED BY <1>1, <1>2, <1>3, StaysSets

LEMMA LostSets == ASSUME CacheInv, SetInv, NEW c \in Calls, Lost(c) PROVE SetInv'
<1>1. pc[c] \in Requests BY DEF Lost
<1>2. CASE Retries(c)
  <2> DEFINE a == [call[c] EXCEPT !.attempt = @ + 1]
  <2>1. call[c] \in Call /\ call[c].attempt < 1 BY <1>1, <1>2 DEF CacheInv, CallFits, Requests, Retries
  <2>2. a \in Call /\ a.op = call[c].op /\ a.type = call[c].type /\ a.epoch = call[c].epoch BY <2>1 DEF Call
  <2>3. call' = [call EXCEPT ![c] = a] /\ GoesTo(c, pc[c]) /\ UNCHANGED <<ccu, epoch, written, entry>>
    BY <1>2 DEF Lost, store, cache
  <2>4. entry' \in {entry, None} /\ pc[c] \in Requests \union Outcomes /\ pc[c] # "ok" BY <1>1, <2>3 DEF Requests
  <2>5. a.op = "set" /\ pc[c] \in {"write", "verify", "ok"} =>
          /\ Timed(call[c])
          /\ pc[c] = "verify" => written[c] \/ epoch # a.epoch \/ ccu = None
    BY <2>2 DEF SetInv, SetFits, Assumes, Real
  <2>6. Timed(call[c]) => Timed(a) BY <2>2 DEF Timed
  <2> HIDE DEF a
  <2> QED BY <2>2, <2>3, <2>4, <2>5, <2>6, ToolSets
<1>3. CASE ~Retries(c) BY <1>1, <1>3, GivesUpSets DEF Lost
<1> QED BY <1>2, <1>3

LEMMA NextSets == CacheInv /\ SetInv /\ [Next]_vars => SetInv'
<1> SUFFICES ASSUME CacheInv, SetInv, [Next]_vars PROVE SetInv' OBVIOUS
<1>1. ASSUME NEW c \in Calls, Refused(c) PROVE SetInv' BY <1>1, GivesUpSets DEF Refused
<1>2. CASE Next
  BY <1>1, <1>2, BeginSets, ListAnsweredSets, WriteAnsweredSets, VerifyAnsweredSets, CleanupAnsweredSets,
     LostSets, ExecutesSets, ExecutesLateSets, ElsewhereSets
  DEF Next, Step
<1>3. CASE UNCHANGED vars BY <1>3 DEF vars, store, cache, SetInv, SetFits, Assumes, Timed, Real
<1> QED BY <1>2, <1>3

\* A set that reports plain success did set a variable of the type it had
\* read, however the read, the write, the verification, their retries and
\* other calls overlap, unless the variable was created anew in between: the
\* verification finds out when there was nothing to set.
THEOREM SuccessMeansSet == Spec => []SuccessIsReal
<1>1. CacheInv /\ SetInv => SuccessIsReal BY DEF SetInv, SetFits, SuccessIsReal, Assumes, Real
<1> QED BY <1>1, SpecCache, InitSets, NextSets, PTL DEF Spec

-----------------------------------------------------------------------------
(* Variables of derived names.  While no request failed, each of them       *)
(* belongs to the one call that made it and is about to remove it.          *)

Removing == {c \in Calls : Removes(c)}

CountInv == faults = 0 => late = {} /\ IsFiniteSet(Removing) /\ extra = Cardinality(Removing)

LEMMA InitCount == Init => CountInv
<1> SUFFICES ASSUME Init PROVE CountInv OBVIOUS
<1>1. Removing = {} BY DEF Init, Removing, Removes
<1> QED BY <1>1, FS_EmptySet DEF Init, CountInv

\* Calls other than the one that moves keep what they are about to do.
LEMMA AloneRemoves == ASSUME NEW d \in Calls, Alone(d) PROVE Removes(d)' = Removes(d)
BY DEF Alone, Removes

\* A step that moves no removal leaves the count alone.
LEMMA SameCount ==
    ASSUME CacheInv, CountInv, UNCHANGED <<extra, faults>>, late' \subseteq late,
           \A d \in Calls : Removes(d)' = Removes(d)
    PROVE  CountInv'
<1>1. Removing' = Removing BY DEF Removing
<1> HIDE DEF Removing
<1> QED BY <1>1 DEF CountInv

LEMMA ToolCount ==
    ASSUME CacheInv, CountInv, NEW c \in Calls, UNCHANGED <<extra, late, faults>>,
           \A d \in Calls \ {c} : Alone(d), Removes(c)' = Removes(c)
    PROVE  CountInv'
<1>1. \A d \in Calls : Removes(d)' = Removes(d) BY AloneRemoves
<1> QED BY <1>1, SameCount

LEMMA FaultCount == ASSUME CacheInv, faults' = faults + 1 PROVE CountInv'
BY DEF CacheInv, TypeOK, CountInv

\* What a request does to the derived names.
LEMMA ExecutionCounts ==
    ASSUME CacheInv, NEW c \in Calls, NEW at \in Requests, Executes(c, at)
    PROVE  /\ at = "cleanup" => extra' = extra - 1
           /\ at # "cleanup" => extra' = extra \/ (extra' = extra + 1 /\ at = "write" /\ call[c].op = "create")
BY DEF Executes, store, Becomes, Created, Requests

LEMMA ExecutesCount == ASSUME CacheInv, CountInv, NEW c \in Calls, CcuExecutes(c) PROVE CountInv'
<1>0. PICK seen : seen = [type |-> ccu, extra |-> extra, epoch |-> epoch, renamed |-> extra' > extra] OBVIOUS
<1>1. pc[c] \in Requests /\ reply[c] = None /\ Executes(c, pc[c]) /\ reply' = [reply EXCEPT ![c] = seen]
      /\ UNCHANGED <<call, pc, late, faults>>
  BY <1>0 DEF CcuExecutes
<1>2. \A d \in Calls \ {c} : Alone(d) BY <1>1 DEF Alone, CacheInv, TypeOK
<1>3. reply'[c] = seen /\ seen \in Seen
  <2>1. call[c] \in Call BY <1>1 DEF CacheInv, CallFits, Requests
  <2>2. extra' \in Int BY <1>1, <2>1, ExecutionKeeps
  <2> QED BY <1>0, <1>1, <2>2 DEF CacheInv, TypeOK, Seen
<1>4. reply'[c] # None /\ reply'[c].renamed = (extra' > extra)
  <2>1. seen.renamed = (extra' > extra) BY <1>0
  <2> QED BY <1>3, <2>1, NoAnswerAssumption
<1>5. (c \notin Removing /\ pc[c] # "cleanup") \/ (c \in Removing /\ pc[c] = "cleanup") BY <1>1 DEF Removing, Removes
<1>6. Removes(c)' <=> pc[c] = "write" /\ call[c].op = "create" /\ extra' > extra
  BY <1>1, <1>4 DEF Removes
<1>7. \A d \in Calls \ {c} : Removes(d)' = Removes(d) BY <1>2, AloneRemoves
<1>8. SUFFICES ASSUME faults = 0
      PROVE  IsFiniteSet(Removing') /\ extra' = Cardinality(Removing')
  BY <1>1 DEF CountInv
<1>9. IsFiniteSet(Removing) /\ extra = Cardinality(Removing) /\ extra \in Int BY <1>8 DEF CountInv, CacheInv, TypeOK
<1>10. CASE pc[c] = "cleanup"
  <2>1. extra' = extra - 1 BY <1>1, <1>10, ExecutionCounts
  <2>2. Removing' = Removing \ {c} BY <1>6, <1>7, <1>10 DEF Removing
  <2>3. IsFiniteSet(Removing \ {c}) /\ Cardinality(Removing \ {c}) = Cardinality(Removing) - 1
    BY <1>5, <1>9, <1>10, FS_RemoveElement
  <2> QED BY <1>9, <2>1, <2>2, <2>3
<1>11. CASE pc[c] # "cleanup" /\ extra' = extra
  <2>1. Removing' = Removing BY <1>5, <1>6, <1>7, <1>9, <1>11 DEF Removing
  <2> QED BY <1>9, <1>11, <2>1
<1>12. CASE pc[c] # "cleanup" /\ extra' = extra + 1 /\ pc[c] = "write" /\ call[c].op = "create"
  <2>1. Removing' = Removing \union {c} BY <1>6, <1>7, <1>9, <1>12 DEF Removing
  <2>2. IsFiniteSet(Removing \union {c}) /\ Cardinality(Removing \union {c}) = Cardinality(Removing) + 1
    BY <1>5, <1>9, <1>12, FS_AddElement
  <2> QED BY <1>9, <1>12, <2>1, <2>2
<1> QED BY <1>1, <1>10, <1>11, <1>12, ExecutionCounts

\* The tools: a removal begins where its create was answered.
LEMMA AnsweredCount ==
    ASSUME CacheInv, CountInv, NEW c \in Calls,
           ListAnswered(c) \/ WriteAnswered(c) \/ VerifyAnswered(c) \/ CleanupAnswered(c)
    PROVE  CountInv'
<1> USE DEF CacheInv, TypeOK, GoesTo
<1>1. pc[c] \in Requests
  BY DEF ListAnswered, WriteAnswered, VerifyAnswered, CleanupAnswered, Requests
<1>2. call[c] \in Call BY <1>1 DEF CallFits, Requests
<1>3. UNCHANGED <<extra, late, faults>>
  BY DEF ListAnswered, WriteAnswered, VerifyAnswered, CleanupAnswered, Invalidates, store
<1>4. \A d \in Calls \ {c} : Alone(d)
  BY DEF ListAnswered, WriteAnswered, VerifyAnswered, CleanupAnswered, Proceeds, Alone
<1>5. Removes(c)' = Removes(c)
  <2>1. CASE ListAnswered(c)
    <3>1. ~Removes(c) BY <2>1 DEF ListAnswered, Removes
    <3>2. reply'[c] = None /\ pc'[c] # "cleanup" BY <2>1 DEF ListAnswered, Proceeds
    <3> QED BY <3>1, <3>2 DEF Removes
  <2>2. CASE WriteAnswered(c)
    <3>1. Removes(c) <=> call[c].op = "create" /\ Renamed(c) BY <2>2 DEF WriteAnswered, Removes, Renamed
    <3>2. reply'[c] = None BY <2>2 DEF WriteAnswered, Proceeds
    <3>3. pc'[c] = "cleanup" <=> call[c].op = "create" /\ Renamed(c) BY <2>2 DEF WriteAnswered, Proceeds
    <3> QED BY <2>2, <3>1, <3>2, <3>3 DEF Removes
  <2>3. CASE VerifyAnswered(c)
    <3>1. ~Removes(c) BY <2>3 DEF VerifyAnswered, Removes
    <3>2. reply'[c] = None /\ pc'[c] # "cleanup" BY <2>3 DEF VerifyAnswered, Confirms
    <3> QED BY <3>1, <3>2 DEF Removes
  <2>4. CASE CleanupAnswered(c) BY <2>4 DEF CleanupAnswered, Removes
  <2> QED BY <2>1, <2>2, <2>3, <2>4
<1> QED BY <1>3, <1>4, <1>5, ToolCount

LEMMA BeginCount ==
    ASSUME CacheInv, CountInv, NEW c \in Calls,
           BeginFromCache(c) \/ \E op \in {"set", "create", "delete"}, type \in Type : Begin(c, op, type)
    PROVE  CountInv'
<1> USE DEF CacheInv, TypeOK, GoesTo
<1>1. UNCHANGED <<extra, late, faults>> BY DEF BeginFromCache, Begin, store
<1>2. \A d \in Calls \ {c} : Alone(d) BY DEF BeginFromCache, Begin, Alone
<1>3. Removes(c)' = Removes(c) BY DEF BeginFromCache, Begin, Removes
<1> QED BY <1>1, <1>2, <1>3, ToolCount

LEMMA NextCount == CacheInv /\ CountInv /\ [Next]_vars => CountInv'
<1> SUFFICES ASSUME CacheInv, CountInv, [Next]_vars PROVE CountInv' OBVIOUS
<1>1. ASSUME NEW c \in Calls, Refused(c) \/ Lost(c) PROVE CountInv' BY <1>1, FaultCount DEF Refused, Lost
<1>2. ASSUME NEW l \in late, CcuExecutesLate(l) PROVE CountInv'
  BY <1>2 DEF CcuExecutesLate, CountInv
<1>3. ASSUME NEW type \in Type, ChangedElsewhere(type) PROVE CountInv'
  <2>1. UNCHANGED <<extra, late, faults, call, pc, reply>> BY <1>3 DEF ChangedElsewhere, Becomes
  <2>2. \A d \in Calls : Removes(d)' = Removes(d) BY <2>1 DEF Removes
  <2> QED BY <2>1, <2>2, SameCount
<1>4. CASE Next
  BY <1>1, <1>2, <1>3, <1>4, AnsweredCount, BeginCount, ExecutesCount DEF Next, Step
<1>5. CASE UNCHANGED vars
  <2>1. UNCHANGED <<extra, late, faults, call, pc, reply>> BY <1>5 DEF vars, store
  <2>2. \A d \in Calls : Removes(d)' = Removes(d) BY <2>1 DEF Removes
  <2> QED BY <2>1, <2>2, SameCount
<1> QED BY <1>4, <1>5

\* However creates race for a name, and whatever else happens to it: as long
\* as no request failed, the CCU holds as many variables of derived names as
\* there are calls about to remove one, so none is left behind.
THEOREM NoneLeftBehind == Spec => []NoPhantom
<1>1. CountInv => NoPhantom BY DEF CountInv, NoPhantom, Removing
<1> QED BY <1>1, SpecCache, InitCount, NextCount, PTL DEF Spec

=============================================================================
