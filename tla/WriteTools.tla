----------------------------- MODULE WriteTools -----------------------------
(***************************************************************************)
(* The tools that write: which CCU a call goes to, whether it may (the     *)
(* write gate of ccu/target-registry.ts), and how often the CCU executes   *)
(* it (middleware/retry.ts and its use in tools/control.ts, meta.ts and     *)
(* diagnostics.ts).                                                        *)
(*                                                                         *)
(* A call pins the active target, passes the gate, makes its preparatory   *)
(* reads, and sends its write; assign_channel sends two.  Between any two  *)
(* of these its MCP session can switch targets and other calls run.        *)
(***************************************************************************)
EXTENDS Integers

CONSTANTS
    Targets, Default,     \* configured CCUs, the one active at first
    Protected, ReadOnly,  \* their policies
    Sessions, Calls,      \* MCP sessions, tool calls
    Tools,                \* the tools in use, some of AllTools
    None,                 \* absent
    MaxRetries,           \* maxRetries of withRetry()
    MaxFaults             \* bound on requests without an answer

(* set_value and put_paramset of a parameter that the cache knows, of an    *)
(* ACTION, and of one that it does not know, which may be an ACTION too.    *)
AllTools == {"value", "trigger", "unknown", "program", "create", "delete", "assign", "script",
             "acknowledge"}

ASSUME WriteAssumption ==
    /\ Default \in Targets
    /\ Protected \subseteq Targets /\ ReadOnly \subseteq Targets
    /\ Tools \subseteq AllTools
    /\ MaxRetries \in Nat /\ MaxFaults \in Nat
    /\ None \notin Targets

(* run_script and delete_system_variable pass alwaysConfirm.                *)
AlwaysConfirm == {"script", "delete"}

(* Writes whose effect repeats when they run twice: a press of a button, or *)
(* anything that runs as a script on the CCU.                               *)
FireEachTime == {"trigger", "unknown", "program", "create", "script", "acknowledge"}

VARIABLES
    active,    \* TargetSelection.activeKey of each MCP session
    unlocked,  \* TargetSelection.unlockedKeys
    call,      \* call -> its arguments and pinned target, or None
    pc,        \* call -> where it is
    wire,      \* call -> the request it has outstanding, or None
    late,      \* call -> CCU -> requests given up that may still arrive
    faults,
    meant,     \* history: the target that was active when the call began
    said,      \* history: what was called with confirm:true
    runs       \* history: call -> CCU -> how often it executed the write

program == <<active, unlocked, call, pc>>
history == <<meant, said>>
vars == <<program, wire, late, faults, history, runs>>

Call == [session: Sessions, tool: Tools, confirm: BOOLEAN, target: Targets,
         part: 1 .. 2, attempt: 0 .. MaxRetries]
Request == [to: Targets, ran: BOOLEAN]
Places == {"free", "prepare", "acquire", "wire", "backoff", "ok", "refused", "failed", "partial"}
Confirmation == [session: Sessions, target: Targets, tool: Tools]

Nowhere == [t \in Targets |-> 0]

Init ==
    /\ active = [s \in Sessions |-> Default] /\ unlocked = [s \in Sessions |-> {}]
    /\ call = [c \in Calls |-> None] /\ pc = [c \in Calls |-> "free"]
    /\ wire = [c \in Calls |-> None] /\ late = [c \in Calls |-> Nowhere]
    /\ faults = 0
    /\ meant = [c \in Calls |-> None] /\ said = {} /\ runs = [c \in Calls |-> Nowhere]

-----------------------------------------------------------------------------
(* The gate.                                                                *)

UseCcu(s, t) ==
    /\ active[s] # t /\ active' = [active EXCEPT ![s] = t]
    /\ UNCHANGED <<unlocked, call, pc, wire, late, faults, history, runs>>

NeedsConfirm(s, t, tool) ==
    t \in Protected /\ (tool \in AlwaysConfirm \/ t \notin unlocked[s])

Refuses(s, t, tool, confirm) ==
    t \in ReadOnly \/ (NeedsConfirm(s, t, tool) /\ ~confirm)

UnlocksAlways(s, t, tool, confirm) ==
    IF t \in Protected /\ confirm THEN {t} ELSE {}

(* A confirmed ordinary write unlocks its target for the MCP session.       *)
Unlocks(s, t, tool, confirm) ==
    IF t \in Protected /\ confirm /\ tool \notin AlwaysConfirm THEN {t} ELSE {}

Begin(c, s, tool, confirm) ==
    LET t == active[s] IN
    /\ pc[c] = "free"
    /\ call' = [call EXCEPT ![c] = [session |-> s, tool |-> tool, confirm |-> confirm,
                                    target |-> t, part |-> 1, attempt |-> 0]]
    /\ meant' = [meant EXCEPT ![c] = t]
    /\ said' = IF confirm THEN said \union {[session |-> s, target |-> t, tool |-> tool]} ELSE said
    /\ IF Refuses(s, t, tool, confirm)
       THEN pc' = [pc EXCEPT ![c] = "refused"] /\ UNCHANGED unlocked
       ELSE /\ pc' = [pc EXCEPT ![c] = "prepare"]
            /\ unlocked' = [unlocked EXCEPT ![s] = @ \union Unlocks(s, t, tool, confirm)]
    /\ UNCHANGED <<active, wire, late, faults, runs>>

-----------------------------------------------------------------------------
(* Reading, sending, retrying.                                              *)

FailureAlwaysPartial(c) == "partial"

(* A call that fails in its second part tells that the first was applied.   *)
Failure(c) == IF call[c].part = 2 THEN "partial" ELSE "failed"

(* The reads before the write: interface, previous value, lists of names.   *)
Prepare(c) ==
    /\ pc[c] = "prepare"
    /\ \E next \in {"acquire", Failure(c)} : pc' = [pc EXCEPT ![c] = next]
    /\ UNCHANGED <<active, unlocked, call, wire, late, faults, history, runs>>

AimAnew(c) == active[call[c].session]
Aim(c) == call[c].target

(* The limiter grants a token, and the request leaves.                      *)
Send(c) ==
    /\ pc[c] = "acquire" /\ pc' = [pc EXCEPT ![c] = "wire"]
    /\ wire' = [wire EXCEPT ![c] = [to |-> Aim(c), ran |-> FALSE]]
    /\ UNCHANGED <<active, unlocked, call, late, faults, history, runs>>

LimiterRefuses(c) ==
    /\ pc[c] = "acquire" /\ pc' = [pc EXCEPT ![c] = Failure(c)]
    /\ UNCHANGED <<active, unlocked, call, wire, late, faults, history, runs>>

RetriableUnlessAction(tool) == tool \in {"value", "unknown", "delete", "assign"}
Retriable(tool) == tool \in {"value", "delete", "assign"}

Retries(c) == Retriable(call[c].tool) /\ call[c].attempt < MaxRetries

(* TIMEOUT or UNREACHABLE: the CCU may have executed the request, may do so *)
(* later, or never.                                                         *)
Lost(c) ==
    /\ pc[c] = "wire" /\ faults < MaxFaults /\ faults' = faults + 1
    /\ late' = IF wire[c].ran THEN late ELSE [late EXCEPT ![c][wire[c].to] = @ + 1]
    /\ wire' = [wire EXCEPT ![c] = None]
    /\ IF Retries(c)
       THEN /\ pc' = [pc EXCEPT ![c] = "backoff"]
            /\ call' = [call EXCEPT ![c].attempt = @ + 1]
       ELSE pc' = [pc EXCEPT ![c] = Failure(c)] /\ UNCHANGED call
    /\ UNCHANGED <<active, unlocked, history, runs>>

(* The second before a retry; the retry then asks the limiter again.        *)
BackoffEnds(c) ==
    /\ pc[c] = "backoff" /\ pc' = [pc EXCEPT ![c] = "acquire"]
    /\ UNCHANGED <<active, unlocked, call, wire, late, faults, history, runs>>

(* Any other error is final, and means that the CCU did nothing.            *)
CcuRefuses(c) ==
    /\ pc[c] = "wire" /\ ~wire[c].ran
    /\ wire' = [wire EXCEPT ![c] = None]
    /\ pc' = [pc EXCEPT ![c] = Failure(c)]
    /\ UNCHANGED <<active, unlocked, call, late, faults, history, runs>>

CcuRuns(c) ==
    /\ pc[c] = "wire" /\ ~wire[c].ran
    /\ wire' = [wire EXCEPT ![c].ran = TRUE]
    /\ runs' = [runs EXCEPT ![c][wire[c].to] = @ + 1]
    /\ UNCHANGED <<program, late, faults, history>>

CcuRunsLate(c, t) ==
    /\ late[c][t] > 0 /\ late' = [late EXCEPT ![c][t] = @ - 1]
    /\ runs' = [runs EXCEPT ![c][t] = @ + 1]
    /\ UNCHANGED <<program, wire, faults, history>>

(* assign_channel goes on from the room to the function.                    *)
Parts(tool) == IF tool = "assign" THEN 2 ELSE 1

(* acknowledge_service_messages reads in the answer what its script has     *)
(* confirmed: nothing, or garbage, and the call fails.                      *)
Outcomes(tool) == IF tool = "acknowledge" THEN {"ok", "failed"} ELSE {"ok"}

NextPart(c) == [call EXCEPT ![c].part = 2, ![c].attempt = 0]

Answered(c) ==
    /\ pc[c] = "wire" /\ wire[c].ran
    /\ wire' = [wire EXCEPT ![c] = None]
    /\ IF call[c].part < Parts(call[c].tool)
       THEN call' = NextPart(c) /\ pc' = [pc EXCEPT ![c] = "prepare"]
       ELSE /\ \E outcome \in Outcomes(call[c].tool) : pc' = [pc EXCEPT ![c] = outcome]
            /\ UNCHANGED call
    /\ UNCHANGED <<active, unlocked, late, faults, history, runs>>

-----------------------------------------------------------------------------
Step(c) ==
    \/ Prepare(c) \/ Send(c) \/ LimiterRefuses(c) \/ Lost(c) \/ BackoffEnds(c)
    \/ CcuRefuses(c) \/ CcuRuns(c) \/ Answered(c)

Next ==
    \/ \E s \in Sessions, t \in Targets : UseCcu(s, t)
    \/ \E c \in Calls, s \in Sessions, tool \in Tools, confirm \in BOOLEAN : Begin(c, s, tool, confirm)
    \/ \E c \in Calls : Step(c)
    \/ \E c \in Calls, t \in Targets : CcuRunsLate(c, t)

Spec == Init /\ [][Next]_vars

-----------------------------------------------------------------------------
TypeOK ==
    /\ active \in [Sessions -> Targets] /\ unlocked \in [Sessions -> SUBSET Targets]
    /\ call \in [Calls -> Call \union {None}] /\ pc \in [Calls -> Places]
    /\ wire \in [Calls -> Request \union {None}]
    /\ late \in [Calls -> [Targets -> Nat]] /\ faults \in 0 .. MaxFaults
    /\ meant \in [Calls -> Targets \union {None}] /\ said \subseteq Confirmation
    /\ runs \in [Calls -> [Targets -> Nat]]

Ran(c, t) == runs[c][t] > 0

(* A write that may not be repeated is executed once at most, whatever      *)
(* times out and arrives late: a button is not pressed twice.               *)
FiresAtMostOnce ==
    \A c \in Calls : call[c] # None /\ call[c].tool \in FireEachTime =>
        \A t \in Targets : runs[c][t] + late[c][t] <= 1

(* What authorises a call on a protected target: its own confirm:true, or,  *)
(* for an ordinary write, one given earlier in the same MCP session to an   *)
(* ordinary write on that same target.                                      *)
Authorised(c) ==
    \/ call[c].confirm
    \/ /\ call[c].tool \notin AlwaysConfirm
       /\ \E k \in said : /\ k.session = call[c].session /\ k.target = meant[c]
                          /\ k.tool \notin AlwaysConfirm

(* Nothing reaches a read-only CCU, and nothing a protected one without     *)
(* authority, neither at once nor late, whatever the session switches to.   *)
OnlyAuthorisedWrites ==
    \A c \in Calls, t \in Targets : Ran(c, t) \/ late[c][t] > 0 =>
        t \notin ReadOnly /\ (t \in Protected => Authorised(c))

(* A write is executed on the target that was active when it was called: a  *)
(* use_ccu in the meantime does not move it.                                *)
WritesStayOnTarget ==
    \A c \in Calls, t \in Targets : Ran(c, t) => t = meant[c]

(* Success is reported for what the CCU has executed, all parts of it; what *)
(* the gate refused never happens.                                          *)
AnswersAreTrue ==
    \A c \in Calls :
        /\ pc[c] = "ok" => runs[c][meant[c]] >= Parts(call[c].tool)
        /\ pc[c] = "partial" => runs[c][meant[c]] >= 1
        /\ pc[c] = "refused" => runs[c] = Nowhere /\ late[c] = Nowhere

=============================================================================
