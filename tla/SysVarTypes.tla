----------------------------- MODULE SysVarTypes -----------------------------
(***************************************************************************)
(* tools/control.ts: set_system_variable, create_system_variable and       *)
(* delete_system_variable of one variable name on one target, and the      *)
(* short-lived cache of its type (SysVarTypeCacheHolder) they share.       *)
(*                                                                         *)
(* A call sends its requests one after the other: a list of the variables, *)
(* its write, and then the verification of a set or the cleanup of a       *)
(* create that got another name.  Each is executed by the CCU at one       *)
(* moment and answered at a later one.                                     *)
(***************************************************************************)
EXTENDS Integers, FiniteSets

CONSTANTS
    Calls,       \* tool calls on this name
    Types,       \* types a variable can have
    Scripted,    \* those that are set by a script: strings
    None,        \* no variable, no answer, no cache entry
    MaxFaults,   \* bound on requests refused or left without an answer
    MaxForeign   \* bound on changes made in the CCU's own user interface

ASSUME SysVarAssumption ==
    /\ Scripted \subseteq Types /\ None \notin Types
    /\ MaxFaults \in Nat /\ MaxForeign \in Nat

VARIABLES
    ccu,       \* the type of the variable on the CCU, or None
    extra,     \* variables the CCU has stored under a name derived from this one
    entry,     \* typeCacheHolder.entry: what it says of this name
    gen,       \* typeCacheHolder.gen
    call,      \* call -> its arguments and what it has read, or None
    pc,        \* call -> the request it has outstanding, or its outcome
    reply,     \* call -> the CCU's answer under way, or None
    late,      \* requests given up that the CCU may still execute
    faults, foreign,
    epoch,     \* history: how often the variable was created
    since,     \* history: what the CCU held since the last invalidation
    written    \* history: the CCU set a variable of the type the call assumed

cache == <<entry, gen>>
store == <<ccu, extra, epoch, since, written>>
vars == <<store, cache, call, pc, reply, late, faults, foreign>>

Type == Types \union {None}
View == [type: Type, extra: Int]
Seen == [type: Type, extra: Int, epoch: Nat, renamed: BOOLEAN]
Call == [op: {"set", "create", "delete"}, type: Type, gen: Nat, epoch: Nat, attempt: 0 .. 1]
Requests == {"list", "write", "verify", "cleanup"}
Outcomes == {"ok", "unverified", "notfound", "exists", "taken", "failed"}

ASSUME NoAnswerAssumption == None \notin Seen

Init ==
    /\ ccu \in Type /\ extra = 0
    /\ entry = None /\ gen = 0
    /\ call = [c \in Calls |-> None] /\ pc = [c \in Calls |-> "free"]
    /\ reply = [c \in Calls |-> None] /\ late = {}
    /\ faults = 0 /\ foreign = 0
    /\ epoch = 0 /\ since = {[type |-> ccu, extra |-> 0]}
    /\ written = [c \in Calls |-> FALSE]

-----------------------------------------------------------------------------
(* The CCU.  A script that creates a variable stores it under a derived     *)
(* name when the name exists, and may do so when a derived one exists;      *)
(* deleting or setting what is not there is acknowledged all the same.      *)

Now == [type |-> ccu, extra |-> extra]

Becomes(type, more) ==
    /\ ccu' = type /\ extra' = more
    /\ since' = since \union {[type |-> type, extra |-> more]}
    /\ epoch' = IF type \notin {ccu, None} THEN epoch + 1 ELSE epoch

Created(type) ==
    \/ ccu = None /\ Becomes(type, extra)
    \/ (ccu # None \/ extra > 0) /\ Becomes(ccu, extra + 1)

Executes(c, at) ==
    \/ /\ at \in {"list", "verify"} /\ UNCHANGED store
    \/ /\ at = "write" /\ call[c].op = "set"
       /\ written' = [written EXCEPT ![c] = @ \/ ccu = call[c].type]
       /\ UNCHANGED <<ccu, extra, epoch, since>>
    \/ /\ at = "write" /\ call[c].op = "create"
       /\ Created(call[c].type) /\ UNCHANGED written
    \/ /\ at = "write" /\ call[c].op = "delete"
       /\ Becomes(None, extra) /\ UNCHANGED written
    \/ /\ at = "cleanup"
       /\ Becomes(ccu, extra - 1) /\ UNCHANGED written

CcuExecutes(c) ==
    /\ pc[c] \in Requests /\ reply[c] = None
    /\ Executes(c, pc[c])
    /\ reply' = [reply EXCEPT ![c] = [type |-> ccu, extra |-> extra, epoch |-> epoch,
                                      renamed |-> extra' > extra]]
    /\ UNCHANGED <<cache, call, pc, late, faults, foreign>>

CcuExecutesLate(l) ==
    /\ l \in late /\ late' = late \ {l}
    /\ Executes(l.call, l.at)
    /\ UNCHANGED <<cache, call, pc, reply, faults, foreign>>

(* Somebody creates, deletes or replaces the variable in the CCU's own UI.  *)
ChangedElsewhere(type) ==
    /\ foreign < MaxForeign /\ foreign' = foreign + 1
    /\ type # ccu /\ Becomes(type, extra)
    /\ UNCHANGED <<written, cache, call, pc, reply, late, faults>>

-----------------------------------------------------------------------------
(* The tools.                                                               *)

GoesTo(c, place) == pc' = [pc EXCEPT ![c] = place] /\ reply' = [reply EXCEPT ![c] = None]

Asked(op, type) == [op |-> op, type |-> type, gen |-> gen, epoch |-> epoch, attempt |-> 0]

(* A set takes the type from the cache while the entry is fresh and has the *)
(* name; the 30 seconds of an entry can be over at any call.                *)
BeginFromCache(c) ==
    /\ pc[c] = "free" /\ entry # None /\ entry.type # None
    /\ call' = [call EXCEPT ![c] = [Asked("set", entry.type) EXCEPT !.epoch = entry.epoch]]
    /\ GoesTo(c, "write")
    /\ UNCHANGED <<store, cache, late, faults, foreign>>

Begin(c, op, type) ==
    /\ pc[c] = "free" /\ (type = None <=> op # "create")
    /\ call' = [call EXCEPT ![c] = Asked(op, type)]
    /\ GoesTo(c, "list")
    /\ UNCHANGED <<store, cache, late, faults, foreign>>

InstallsAlways(c) == TRUE
Installs(c) == gen = call[c].gen

(* The request done, the next one may be repeated anew.                     *)
Proceeds(c, place, type, time) ==
    /\ call' = [call EXCEPT ![c].attempt = 0, ![c].type = type, ![c].epoch = time]
    /\ GoesTo(c, place)

ListAnswered(c) ==
    LET seen == reply[c] IN
    /\ pc[c] = "list" /\ seen # None
    /\ \/ /\ call[c].op = "set"
          /\ entry' = IF Installs(c) THEN seen ELSE entry
          /\ Proceeds(c, IF seen.type = None THEN "notfound" ELSE "write", seen.type, seen.epoch)
       \/ /\ call[c].op = "create"
          /\ Proceeds(c, IF seen.type = None THEN "write" ELSE "exists", call[c].type, call[c].epoch)
          /\ UNCHANGED entry
       \/ /\ call[c].op = "delete"
          /\ Proceeds(c, IF seen.type = None THEN "notfound" ELSE "write", None, call[c].epoch)
          /\ UNCHANGED entry
    /\ UNCHANGED <<store, gen, late, faults, foreign>>

(* entry = null, gen++                                                      *)
Invalidates ==
    /\ entry' = None /\ gen' = gen + 1 /\ since' = {Now}
    /\ UNCHANGED <<ccu, extra, epoch, written>>

RenamedNever(c) == FALSE
Renamed(c) == reply[c].renamed

WriteAnswered(c) ==
    /\ pc[c] = "write" /\ reply[c] # None
    /\ \/ /\ call[c].op = "set" /\ call[c].type \in Scripted
          /\ Proceeds(c, IF reply[c].type = None THEN "notfound" ELSE "ok", call[c].type, call[c].epoch)
          /\ UNCHANGED <<store, cache>>
       \/ /\ call[c].op = "set" /\ call[c].type \notin Scripted
          /\ Proceeds(c, "verify", call[c].type, call[c].epoch)
          /\ UNCHANGED <<store, cache>>
       \/ /\ call[c].op = "create" /\ Renamed(c)
          /\ Proceeds(c, "cleanup", call[c].type, call[c].epoch)
          /\ UNCHANGED <<store, cache>>
       \/ /\ call[c].op = "delete" \/ (call[c].op = "create" /\ ~Renamed(c))
          /\ Proceeds(c, "ok", call[c].type, call[c].epoch)
          /\ Invalidates
    /\ UNCHANGED <<late, faults, foreign>>

ConfirmsAlways(c) == {"ok"}

(* What a verification tells.  The value of a string can be empty, which    *)
(* reads like a variable that is gone.                                      *)
Confirms(c) ==
    IF reply[c].type = None THEN {"notfound"}
    ELSE IF reply[c].type \in Scripted THEN {"ok", "notfound"} ELSE {"ok"}

VerifyAnswered(c) ==
    /\ pc[c] = "verify" /\ reply[c] # None
    /\ \E place \in Confirms(c) : GoesTo(c, place)
    /\ UNCHANGED <<store, cache, call, late, faults, foreign>>

CleanupAnswered(c) ==
    /\ pc[c] = "cleanup" /\ reply[c] # None
    /\ GoesTo(c, "taken") /\ Invalidates
    /\ UNCHANGED <<call, late, faults, foreign>>

(* Where a request that fails for good leaves its call.                     *)
GivesUp(c) ==
    \/ /\ pc[c] \in {"list", "write"} /\ GoesTo(c, "failed") /\ UNCHANGED <<store, cache>>
    \/ /\ pc[c] = "verify" /\ GoesTo(c, "unverified") /\ UNCHANGED <<store, cache>>
    \/ /\ pc[c] = "cleanup" /\ GoesTo(c, "taken") /\ Invalidates

(* The limiter or the CCU refuses a request, or the value does not fit.     *)
Refused(c) ==
    /\ pc[c] \in Requests /\ reply[c] = None
    /\ faults < MaxFaults /\ faults' = faults + 1
    /\ GivesUp(c)
    /\ UNCHANGED <<call, late, foreign>>

(* withRetry() repeats all but scripts; the cleanup is not wrapped in it.   *)
Repeats(c) ==
    \/ pc[c] \in {"list", "verify"}
    \/ pc[c] = "write" /\ (call[c].op = "delete" \/ (call[c].op = "set" /\ call[c].type \notin Scripted))

Retries(c) == Repeats(c) /\ call[c].attempt < 1

(* TIMEOUT or UNREACHABLE, before or after the CCU executed the request.    *)
Lost(c) ==
    /\ pc[c] \in Requests
    /\ faults < MaxFaults /\ faults' = faults + 1
    /\ late' = IF reply[c] # None THEN late
               ELSE late \union {[call |-> c, at |-> pc[c], attempt |-> call[c].attempt]}
    /\ IF Retries(c)
       THEN /\ GoesTo(c, pc[c]) /\ call' = [call EXCEPT ![c].attempt = @ + 1]
            /\ UNCHANGED <<store, cache>>
       ELSE GivesUp(c) /\ UNCHANGED call
    /\ UNCHANGED foreign

-----------------------------------------------------------------------------
Step(c) ==
    \/ ListAnswered(c) \/ WriteAnswered(c) \/ VerifyAnswered(c) \/ CleanupAnswered(c)
    \/ Refused(c) \/ Lost(c) \/ CcuExecutes(c)

Next ==
    \/ \E c \in Calls : BeginFromCache(c) \/ Step(c)
    \/ \E c \in Calls, op \in {"set", "create", "delete"}, type \in Type : Begin(c, op, type)
    \/ \E l \in late : CcuExecutesLate(l)
    \/ \E type \in Type : ChangedElsewhere(type)

Spec == Init /\ [][Next]_vars

-----------------------------------------------------------------------------
Late == [call: Calls, at: Requests, attempt: 0 .. 1]

TypeOK ==
    /\ ccu \in Type /\ extra \in Int
    /\ entry \in Seen \union {None} /\ gen \in Nat
    /\ call \in [Calls -> Call \union {None}]
    /\ pc \in [Calls -> {"free"} \union Requests \union Outcomes]
    /\ reply \in [Calls -> Seen \union {None}]
    /\ late \subseteq Late
    /\ faults \in 0 .. MaxFaults /\ foreign \in 0 .. MaxForeign
    /\ epoch \in Nat /\ since \subseteq View /\ written \in [Calls -> BOOLEAN]

(* A list fetched before a create or delete was acknowledged never gets     *)
(* into the cache after it, however the fetch and the change overlap: the   *)
(* entry shows something the CCU held after the last invalidation.          *)
CacheOutlivesNoChange ==
    entry # None => [type |-> entry.type, extra |-> entry.extra] \in since

(* A set that reports plain success has set a variable of the type it chose *)
(* the setter for, unless the variable was created anew since that type was *)
(* read: a variable that has vanished is found out by the verification.     *)
SuccessIsReal ==
    \A c \in Calls :
        pc[c] = "ok" /\ call[c].op = "set" => written[c] \/ epoch # call[c].epoch

(* Creates that race for one name leave no variable of a derived name       *)
(* behind: while nothing fails, there are as many of these as calls that    *)
(* are about to remove one.                                                 *)
Removes(c) ==
    \/ pc[c] = "write" /\ call[c].op = "create" /\ reply[c] # None /\ reply[c].renamed
    \/ pc[c] = "cleanup" /\ reply[c] = None

NoPhantom == faults = 0 => extra = Cardinality({c \in Calls : Removes(c)})

=============================================================================
