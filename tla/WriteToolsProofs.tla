-------------------------- MODULE WriteToolsProofs --------------------------
(***************************************************************************)
(* Theorems about WriteTools, for any number of targets, MCP sessions,     *)
(* calls, retries and lost answers.                                        *)
(***************************************************************************)
EXTENDS WriteTools, TLAPS

\* Past the gate.
Begun(c) == pc[c] \notin {"free", "refused"}

\* A call keeps the target it began with, and its request goes there.
Placed(c) ==
    /\ pc[c] # "free" => call[c] \in Call /\ meant[c] = call[c].target
    /\ pc[c] = "wire" => wire[c] \in Request /\ wire[c].to = call[c].target

\* The CCU only ever sees a call that passed the gate, on that target.
Reached(c) ==
    \A t \in Targets : runs[c][t] # 0 \/ late[c][t] # 0 => Begun(c) /\ t = call[c].target

Cleared(c) ==
    Begun(c) => /\ call[c].target \notin ReadOnly
                /\ call[c].target \in Protected => Authorised(c)

\* A one-shot write has nothing behind it until its only request is out.
Single(c) ==
    Begun(c) /\ call[c].tool \in FireEachTime =>
        /\ pc[c] # "backoff"
        /\ pc[c] \in {"prepare", "acquire"} => \A t \in Targets : runs[c][t] = 0 /\ late[c][t] = 0
        /\ pc[c] = "wire" => \A t \in Targets : late[c][t] = 0 /\ (~wire[c].ran => runs[c][t] = 0)
        /\ \A t \in Targets : runs[c][t] + late[c][t] <= 1

\* The parts of a call that lie behind it have been executed.
Told(c) ==
    Begun(c) =>
        /\ runs[c][call[c].target] >= call[c].part - 1
        /\ pc[c] = "wire" /\ wire[c].ran => runs[c][call[c].target] >= call[c].part
        /\ pc[c] = "ok" => runs[c][call[c].target] >= Parts(call[c].tool)
        /\ pc[c] = "partial" => call[c].part = 2

CallInv(c) == Placed(c) /\ Reached(c) /\ Cleared(c) /\ Single(c) /\ Told(c)

\* Every unlocked target has a confirmed ordinary write behind it.
Backed ==
    \A s \in Sessions : \A t \in unlocked[s] :
        \E k \in said : k.session = s /\ k.target = t /\ k.tool \notin AlwaysConfirm

WriteInv == TypeOK /\ Backed /\ \A c \in Calls : CallInv(c)

-----------------------------------------------------------------------------
\* What a step leaves alone in a call.
Alone(d) ==
    /\ call'[d] = call[d] /\ pc'[d] = pc[d] /\ wire'[d] = wire[d]
    /\ late'[d] = late[d] /\ runs'[d] = runs[d] /\ meant'[d] = meant[d]

LEMMA AloneKeeps ==
    ASSUME NEW d \in Calls, CallInv(d), Alone(d), said \subseteq said'
    PROVE  CallInv(d)'
<1>1. Placed(d)' BY DEF CallInv, Placed, Alone
<1>2. Begun(d)' <=> Begun(d) BY DEF Begun, Alone
<1>3. Reached(d)' BY <1>2 DEF CallInv, Reached, Alone
<1>4. Authorised(d) => Authorised(d)' BY DEF Authorised, Alone
<1>5. Cleared(d)' BY <1>2, <1>4 DEF CallInv, Cleared, Alone
<1>6. Single(d)' BY <1>2 DEF CallInv, Single, Alone
<1>7. Told(d)' BY <1>2 DEF CallInv, Told, Alone
<1> QED BY <1>1, <1>3, <1>5, <1>6, <1>7 DEF CallInv

LEMMA BackedKept ==
    ASSUME Backed, UNCHANGED <<unlocked, said>>
    PROVE  Backed'
BY DEF Backed

LEMMA InitWrites == Init => WriteInv
<1> SUFFICES ASSUME Init PROVE WriteInv OBVIOUS
<1> USE WriteAssumption
<1>1. TypeOK
  <2>1. Nowhere \in [Targets -> Nat] BY DEF Nowhere
  <2> QED BY <2>1 DEF Init, TypeOK, Places
<1>2. Backed BY DEF Init, Backed
<1>3. ASSUME NEW c \in Calls PROVE CallInv(c)
  BY DEF Init, CallInv, Placed, Reached, Cleared, Single, Told, Begun, Nowhere
<1> QED BY <1>1, <1>2, <1>3 DEF WriteInv

-----------------------------------------------------------------------------
LEMMA UseCcuKeeps ==
    ASSUME WriteInv, NEW s \in Sessions, NEW t \in Targets, UseCcu(s, t)
    PROVE  WriteInv'
<1>1. TypeOK' BY DEF WriteInv, TypeOK, UseCcu, history
<1>2. Backed' BY BackedKept DEF WriteInv, UseCcu, history
<1>3. ASSUME NEW d \in Calls PROVE CallInv(d)'
  <2>1. Alone(d) /\ said \subseteq said' BY DEF Alone, UseCcu, history
  <2> QED BY <2>1, AloneKeeps DEF WriteInv
<1> QED BY <1>1, <1>2, <1>3 DEF WriteInv

\* Beginning a call: the gate decides, and a confirmation may unlock.
LEMMA BeginKeeps ==
    ASSUME WriteInv, NEW c \in Calls, NEW s \in Sessions, NEW tool \in Tools,
           NEW confirm \in BOOLEAN, Begin(c, s, tool, confirm)
    PROVE  WriteInv'
<1> DEFINE t == active[s]
           a == [session |-> s, tool |-> tool, confirm |-> confirm,
                 target |-> t, part |-> 1, attempt |-> 0]
           k == [session |-> s, target |-> t, tool |-> tool]
<1> USE WriteAssumption
<1>1. TypeOK BY DEF WriteInv
<1>2. t \in Targets BY <1>1 DEF TypeOK
<1>3. a \in Call
  <2>1. 0 \in 0 .. MaxRetries OBVIOUS
  <2> QED BY <1>2, <2>1 DEF Call
<1>4. k \in Confirmation BY <1>2 DEF Confirmation
<1>5. said' = IF confirm THEN said \union {k} ELSE said
  BY DEF Begin
<1>6. /\ call' = [call EXCEPT ![c] = a] /\ meant' = [meant EXCEPT ![c] = t]
      /\ wire' = wire /\ late' = late /\ runs' = runs /\ pc[c] = "free"
      /\ active' = active /\ faults' = faults
  BY DEF Begin
<1>7. \/ Refuses(s, t, tool, confirm) /\ pc' = [pc EXCEPT ![c] = "refused"] /\ unlocked' = unlocked
      \/ /\ ~Refuses(s, t, tool, confirm) /\ pc' = [pc EXCEPT ![c] = "prepare"]
         /\ unlocked' = [unlocked EXCEPT ![s] = @ \union Unlocks(s, t, tool, confirm)]
  BY DEF Begin
<1>8. Unlocks(s, t, tool, confirm) \subseteq Targets BY <1>2 DEF Unlocks
<1> HIDE DEF a, k
<1>9. TypeOK'
  <2>1. unlocked' \in [Sessions -> SUBSET Targets] BY <1>1, <1>7, <1>8 DEF TypeOK
  <2>2. call' \in [Calls -> Call \union {None}] BY <1>1, <1>3, <1>6 DEF TypeOK
  <2>3. pc' \in [Calls -> Places] BY <1>1, <1>7 DEF TypeOK, Places
  <2>4. meant' \in [Calls -> Targets \union {None}] BY <1>1, <1>2, <1>6 DEF TypeOK
  <2>5. said' \subseteq Confirmation BY <1>1, <1>4, <1>5 DEF TypeOK
  <2> QED BY <1>1, <1>6, <2>1, <2>2, <2>3, <2>4, <2>5 DEF TypeOK
<1>10. Backed'
  <2> SUFFICES ASSUME NEW r \in Sessions, NEW u \in unlocked'[r]
               PROVE  \E j \in said' : j.session = r /\ j.target = u /\ j.tool \notin AlwaysConfirm
    BY DEF Backed
  <2>1. CASE u \in unlocked[r]
    BY <1>5, <2>1 DEF WriteInv, Backed
  <2>2. CASE u \notin unlocked[r]
    <3>1. r = s /\ u \in Unlocks(s, t, tool, confirm) BY <1>1, <1>7, <2>2 DEF TypeOK
    <3>2. u = t /\ confirm /\ tool \notin AlwaysConfirm BY <3>1 DEF Unlocks
    <3>3. k \in said' BY <1>5, <3>2
    <3> QED BY <3>1, <3>2, <3>3 DEF k
  <2> QED BY <2>1, <2>2
<1>11. CallInv(c)'
  <2>1. call'[c] = a /\ meant'[c] = t BY <1>1, <1>6 DEF TypeOK
  <2>2. \A u \in Targets : runs'[c][u] = 0 /\ late'[c][u] = 0
    BY <1>6 DEF WriteInv, CallInv, Reached, Begun
  <2>3. pc'[c] \in {"refused", "prepare"} BY <1>1, <1>7 DEF TypeOK
  <2>4. a.target = t /\ a.part = 1 /\ a.session = s /\ a.tool = tool /\ a.confirm = confirm BY DEF a
  <2>5. Placed(c)' BY <1>3, <2>1, <2>3, <2>4 DEF Placed
  <2>6. Reached(c)' BY <2>2 DEF Reached
  <2>7. Cleared(c)'
    <3> SUFFICES ASSUME Begun(c)'
                 PROVE  t \notin ReadOnly /\ (t \in Protected => Authorised(c)')
      BY <2>1, <2>4 DEF Cleared
    <3>1. ~Refuses(s, t, tool, confirm) BY <1>1, <1>7 DEF Begun, TypeOK
    <3>2. t \notin ReadOnly BY <3>1 DEF Refuses
    <3>3. CASE confirm BY <2>1, <2>4, <3>2, <3>3 DEF Authorised
    <3>4. CASE ~confirm
      <4>1. ~NeedsConfirm(s, t, tool) BY <3>1, <3>4 DEF Refuses
      <4>2. SUFFICES ASSUME t \in Protected PROVE Authorised(c)' BY <3>2
      <4>3. tool \notin AlwaysConfirm /\ t \in unlocked[s] BY <4>1, <4>2 DEF NeedsConfirm
      <4>4. PICK j \in said : j.session = s /\ j.target = t /\ j.tool \notin AlwaysConfirm
        BY <4>3 DEF WriteInv, Backed
      <4>5. j \in said' BY <1>5
      <4> QED BY <2>1, <2>4, <4>3, <4>4, <4>5 DEF Authorised
    <3> QED BY <3>3, <3>4
  <2>8. Single(c)'
    BY <2>2, <2>3 DEF Single
  <2>9. Told(c)'
    <3>1. runs'[c][t] = 0 BY <1>2, <2>2
    <3> QED BY <2>1, <2>3, <2>4, <3>1 DEF Told
  <2> QED BY <2>5, <2>6, <2>7, <2>8, <2>9 DEF CallInv
<1>12. ASSUME NEW d \in Calls, d # c PROVE CallInv(d)'
  <2>1. Alone(d) BY <1>1, <1>6, <1>7, <1>12 DEF Alone, TypeOK
  <2>2. said \subseteq said' BY <1>5
  <2> QED BY <2>1, <2>2, AloneKeeps DEF WriteInv
<1> QED BY <1>9, <1>10, <1>11, <1>12 DEF WriteInv

-----------------------------------------------------------------------------
(* The steps of one call.                                                   *)

LEMMA OneCallKeeps ==
    ASSUME WriteInv, NEW c \in Calls, UNCHANGED <<unlocked, said>>,
           TypeOK', CallInv(c)', \A d \in Calls \ {c} : Alone(d)
    PROVE  WriteInv'
<1>1. Backed' BY BackedKept DEF WriteInv
<1>2. ASSUME NEW d \in Calls, d # c PROVE CallInv(d)'
  BY <1>2, AloneKeeps DEF WriteInv
<1> QED BY <1>1, <1>2 DEF WriteInv

\* A call that goes on or ends without anything reaching the CCU.
LEMMA MoveKeeps ==
    ASSUME WriteInv, NEW c \in Calls, Begun(c), NEW place \in {"acquire", "failed", "partial"},
           pc' = [pc EXCEPT ![c] = place],
           wire' = wire \/ wire' = [wire EXCEPT ![c] = None],
           UNCHANGED <<active, unlocked, call, late, faults, meant, said, runs>>,
           place = "partial" => call[c].part = 2,
           place = "acquire" => pc[c] \in {"prepare", "backoff"}
    PROVE  WriteInv'
<1>1. TypeOK BY DEF WriteInv
<1>2. pc'[c] = place /\ Begun(c)' BY <1>1 DEF TypeOK, Begun
<1>3. TypeOK' BY <1>1 DEF TypeOK, Places
<1>4. CallInv(c)'
  <2>1. CallInv(c) BY DEF WriteInv
  <2>2. Placed(c)' BY <1>2, <2>1 DEF CallInv, Placed, Begun
  <2>3. Reached(c)' BY <1>2, <2>1 DEF CallInv, Reached
  <2>4. Cleared(c)' BY <2>1 DEF CallInv, Cleared, Authorised
  <2>5. Single(c)' BY <1>2, <2>1 DEF CallInv, Single
  <2>6. Told(c)' BY <1>2, <2>1 DEF CallInv, Told
  <2> QED BY <2>2, <2>3, <2>4, <2>5, <2>6 DEF CallInv
<1>5. \A d \in Calls \ {c} : Alone(d) BY <1>1 DEF TypeOK, Alone
<1> QED BY <1>3, <1>4, <1>5, OneCallKeeps

\* A call that has begun has its arguments.
LEMMA HasArguments ==
    ASSUME WriteInv, NEW c \in Calls, Begun(c)
    PROVE  /\ call[c] \in Call /\ meant[c] = call[c].target /\ call[c].target \in Targets
           /\ call[c].part \in 1 .. 2 /\ call[c].attempt \in 0 .. MaxRetries
           /\ call[c].tool \in Tools
BY DEF WriteInv, CallInv, Placed, Begun, Call

LEMMA FailureIsTrue ==
    ASSUME NEW c \in Calls
    PROVE  /\ Failure(c) \in {"failed", "partial"}
           /\ Failure(c) = "partial" => call[c].part = 2
BY DEF Failure

LEMMA PrepareKeeps ==
    ASSUME WriteInv, NEW c \in Calls, Prepare(c)
    PROVE  WriteInv'
<1>1. PICK next \in {"acquire", Failure(c)} : pc' = [pc EXCEPT ![c] = next] BY DEF Prepare
<1>2. Begun(c) /\ pc[c] = "prepare" BY DEF Prepare, Begun
<1>3. UNCHANGED <<active, unlocked, call, wire, late, faults, meant, said, runs>>
  BY DEF Prepare, history
<1> QED BY <1>1, <1>2, <1>3, FailureIsTrue, MoveKeeps

LEMMA LimiterRefusesKeeps ==
    ASSUME WriteInv, NEW c \in Calls, LimiterRefuses(c)
    PROVE  WriteInv'
<1>1. Begun(c) BY DEF LimiterRefuses, Begun
<1>2. UNCHANGED <<active, unlocked, call, wire, late, faults, meant, said, runs>>
  BY DEF LimiterRefuses, history
<1>3. pc' = [pc EXCEPT ![c] = Failure(c)] BY DEF LimiterRefuses
<1> QED BY <1>1, <1>2, <1>3, FailureIsTrue, MoveKeeps

LEMMA BackoffEndsKeeps ==
    ASSUME WriteInv, NEW c \in Calls, BackoffEnds(c)
    PROVE  WriteInv'
<1>1. Begun(c) /\ pc[c] = "backoff" BY DEF BackoffEnds, Begun
<1>2. UNCHANGED <<active, unlocked, call, wire, late, faults, meant, said, runs>>
  BY DEF BackoffEnds, history
<1>3. pc' = [pc EXCEPT ![c] = "acquire"] BY DEF BackoffEnds
<1> QED BY <1>1, <1>2, <1>3, MoveKeeps

LEMMA CcuRefusesKeeps ==
    ASSUME WriteInv, NEW c \in Calls, CcuRefuses(c)
    PROVE  WriteInv'
<1>1. Begun(c) BY DEF CcuRefuses, Begun
<1>2. UNCHANGED <<active, unlocked, call, late, faults, meant, said, runs>>
  BY DEF CcuRefuses, history
<1>3. pc' = [pc EXCEPT ![c] = Failure(c)] /\ wire' = [wire EXCEPT ![c] = None] BY DEF CcuRefuses
<1> QED BY <1>1, <1>2, <1>3, FailureIsTrue, MoveKeeps

\* The request that leaves is for the target of the call.
LEMMA SendKeeps ==
    ASSUME WriteInv, NEW c \in Calls, Send(c)
    PROVE  WriteInv'
<1> DEFINE r == [to |-> call[c].target, ran |-> FALSE]
<1>1. TypeOK /\ CallInv(c) BY DEF WriteInv
<1>2. pc[c] = "acquire" /\ Begun(c) BY DEF Send, Begun
<1>3. UNCHANGED <<active, unlocked, call, late, faults, meant, said, runs>>
  BY DEF Send, history
<1>4. pc' = [pc EXCEPT ![c] = "wire"] /\ wire' = [wire EXCEPT ![c] = r] BY DEF Send, Aim
<1>5. r \in Request /\ r.to = call[c].target /\ r.ran = FALSE
  BY <1>2, HasArguments DEF Request
<1> HIDE DEF r
<1>6. pc'[c] = "wire" /\ wire'[c] = r /\ Begun(c)' BY <1>1, <1>4 DEF TypeOK, Begun
<1>7. TypeOK' BY <1>1, <1>3, <1>4, <1>5 DEF TypeOK, Places
<1>8. CallInv(c)'
  <2>1. Placed(c)' BY <1>1, <1>2, <1>3, <1>5, <1>6 DEF CallInv, Placed
  <2>2. Reached(c)' BY <1>1, <1>3, <1>6 DEF CallInv, Reached
  <2>3. Cleared(c)' BY <1>1, <1>2, <1>3 DEF CallInv, Cleared, Authorised
  <2>4. Single(c)' BY <1>1, <1>2, <1>3, <1>6 DEF CallInv, Single
  <2>5. Told(c)' BY <1>1, <1>2, <1>3, <1>5, <1>6 DEF CallInv, Told
  <2> QED BY <2>1, <2>2, <2>3, <2>4, <2>5 DEF CallInv
<1>9. \A d \in Calls \ {c} : Alone(d) BY <1>1, <1>3, <1>4 DEF TypeOK, Alone
<1> QED BY <1>3, <1>7, <1>8, <1>9, OneCallKeeps

\* The CCU executes the request that is out.
LEMMA CcuRunsKeeps ==
    ASSUME WriteInv, NEW c \in Calls, CcuRuns(c)
    PROVE  WriteInv'
<1> DEFINE t == call[c].target
           r == [wire[c] EXCEPT !.ran = TRUE]
           row == [runs[c] EXCEPT ![t] = @ + 1]
<1>1. TypeOK /\ CallInv(c) BY DEF WriteInv
<1>2. pc[c] = "wire" /\ Begun(c) /\ wire[c].ran = FALSE
  <2>1. pc[c] = "wire" /\ Begun(c) /\ ~wire[c].ran BY DEF CcuRuns, Begun
  <2>2. wire[c].ran \in BOOLEAN BY <1>1, <2>1 DEF CallInv, Placed, Request
  <2> QED BY <2>1, <2>2
<1>3. UNCHANGED <<active, unlocked, call, pc, late, faults, meant, said>>
  BY DEF CcuRuns, program, history
<1>4. wire[c] \in Request /\ wire[c].to = t BY <1>1, <1>2 DEF CallInv, Placed
<1>5. wire' = [wire EXCEPT ![c] = r] BY <1>1 DEF CcuRuns, TypeOK
<1>6. runs' = [runs EXCEPT ![c] = row]
  BY <1>1, <1>4 DEF CcuRuns, TypeOK
<1>7. t \in Targets BY <1>2, HasArguments
<1>8. runs[c] \in [Targets -> Nat] BY <1>1 DEF TypeOK
<1>9. row \in [Targets -> Nat] /\ row[t] = runs[c][t] + 1
      /\ \A u \in Targets : u # t => row[u] = runs[c][u]
  BY <1>7, <1>8
<1>10. r \in Request /\ r.to = t /\ r.ran = TRUE BY <1>4 DEF Request
<1> HIDE DEF r, row
<1>11. wire'[c] = r /\ runs'[c] = row BY <1>1, <1>5, <1>6 DEF TypeOK
<1>12. TypeOK' BY <1>1, <1>3, <1>5, <1>6, <1>9, <1>10 DEF TypeOK
<1>13. CallInv(c)'
  <2>1. Placed(c)' BY <1>1, <1>3, <1>10, <1>11 DEF CallInv, Placed
  <2>2. Begun(c)' BY <1>2, <1>3 DEF Begun
  <2>3. Reached(c)' BY <1>1, <1>2, <1>3, <1>9, <1>11, <2>2 DEF CallInv, Reached
  <2>4. Cleared(c)' BY <1>1, <1>2, <1>3 DEF CallInv, Cleared, Authorised
  <2>5. Single(c)'
    <3> SUFFICES ASSUME call[c].tool \in FireEachTime PROVE Single(c)'
      BY <1>3 DEF Single
    <3>1. \A u \in Targets : late[c][u] = 0 /\ runs[c][u] = 0
      BY <1>1, <1>2 DEF CallInv, Single
    <3>2. \A u \in Targets : runs'[c][u] <= 1
      BY <1>7, <1>9, <1>11, <3>1
    <3>3. \A u \in Targets : runs'[c][u] + late'[c][u] <= 1
      BY <1>3, <1>9, <1>11, <3>1, <3>2
    <3> QED BY <1>2, <1>3, <1>10, <1>11, <3>1, <3>3 DEF Single
  <2>6. Told(c)'
    <3>1. runs[c][t] >= call[c].part - 1 BY <1>1, <1>2 DEF CallInv, Told
    <3>2. call[c].part \in 1 .. 2 /\ runs[c][t] \in Nat BY <1>2, <1>7, <1>8, HasArguments
    <3>3. runs'[c][t] >= call[c].part BY <1>9, <1>11, <3>1, <3>2
    <3>4. runs'[c][t] >= call[c].part - 1 BY <1>9, <1>11, <3>1, <3>2
    <3> QED BY <1>2, <1>3, <3>3, <3>4 DEF Told
  <2> QED BY <2>1, <2>3, <2>4, <2>5, <2>6 DEF CallInv
<1>14. \A d \in Calls \ {c} : Alone(d) BY <1>1, <1>3, <1>5, <1>6 DEF TypeOK, Alone
<1> QED BY <1>3, <1>12, <1>13, <1>14, OneCallKeeps

\* A request given up arrives after all.
LEMMA CcuRunsLateKeeps ==
    ASSUME WriteInv, NEW c \in Calls, NEW t \in Targets, CcuRunsLate(c, t)
    PROVE  WriteInv'
<1> DEFINE row == [runs[c] EXCEPT ![t] = @ + 1]
           rest == [late[c] EXCEPT ![t] = @ - 1]
<1>1. TypeOK /\ CallInv(c) BY DEF WriteInv
<1>2. UNCHANGED <<active, unlocked, call, pc, wire, faults, meant, said>>
  BY DEF CcuRunsLate, program, history
<1>3. runs[c] \in [Targets -> Nat] /\ late[c] \in [Targets -> Nat] BY <1>1 DEF TypeOK
<1>4. late[c][t] > 0 /\ late[c][t] # 0 BY DEF CcuRunsLate
<1>5. runs' = [runs EXCEPT ![c] = row] /\ late' = [late EXCEPT ![c] = rest]
  BY <1>1 DEF CcuRunsLate, TypeOK
<1>6. Begun(c) /\ t = call[c].target BY <1>1, <1>4 DEF CallInv, Reached
<1>7. row \in [Targets -> Nat] /\ row[t] = runs[c][t] + 1
      /\ \A u \in Targets : u # t => row[u] = runs[c][u]
  BY <1>3
<1>8. rest \in [Targets -> Nat] /\ rest[t] = late[c][t] - 1
      /\ \A u \in Targets : u # t => rest[u] = late[c][u]
  BY <1>3, <1>4
<1> HIDE DEF row, rest
<1>9. runs'[c] = row /\ late'[c] = rest BY <1>1, <1>5 DEF TypeOK
<1>10. TypeOK' BY <1>1, <1>2, <1>5, <1>7, <1>8 DEF TypeOK
<1>11. CallInv(c)'
  <2>1. Placed(c)' BY <1>1, <1>2 DEF CallInv, Placed
  <2>2. Begun(c)' BY <1>2, <1>6 DEF Begun
  <2>3. Reached(c)' BY <1>1, <1>2, <1>6, <1>7, <1>8, <1>9, <2>2 DEF CallInv, Reached
  <2>4. Cleared(c)' BY <1>1, <1>2, <1>6 DEF CallInv, Cleared, Authorised
  <2>5. Single(c)'
    <3> SUFFICES ASSUME call[c].tool \in FireEachTime PROVE Single(c)'
      BY <1>2 DEF Single
    <3>1. pc[c] \notin {"prepare", "acquire", "wire", "backoff"}
      BY <1>1, <1>4, <1>6 DEF CallInv, Single
    <3>2. \A u \in Targets : runs[c][u] + late[c][u] <= 1 BY <1>1, <1>6 DEF CallInv, Single
    <3>3. runs'[c][t] + late'[c][t] = runs[c][t] + late[c][t] BY <1>3, <1>7, <1>8, <1>9
    <3>4. \A u \in Targets : runs'[c][u] + late'[c][u] <= 1
      BY <1>7, <1>8, <1>9, <3>2, <3>3
    <3> QED BY <1>2, <3>1, <3>4 DEF Single
  <2>6. Told(c)'
    <3>1. runs'[c][t] >= runs[c][t] /\ runs'[c][t] \in Nat /\ runs[c][t] \in Nat
      BY <1>3, <1>7, <1>9
    <3>2. call[c].part \in 1 .. 2 /\ Parts(call[c].tool) \in 1 .. 2
      BY <1>6, HasArguments DEF Parts
    <3> QED BY <1>1, <1>2, <1>6, <3>1, <3>2 DEF CallInv, Told
  <2> QED BY <2>1, <2>3, <2>4, <2>5, <2>6 DEF CallInv
<1>12. \A d \in Calls \ {c} : Alone(d) BY <1>1, <1>2, <1>5 DEF TypeOK, Alone
<1> QED BY <1>2, <1>10, <1>11, <1>12, OneCallKeeps

\* An answer that does not come: nothing reached the CCU, or it is still under
\* way; the call tries again or ends.
LEMMA LostKeeps ==
    ASSUME WriteInv, NEW c \in Calls, Lost(c)
    PROVE  WriteInv'
<1> DEFINE t == call[c].target
           rest == [late[c] EXCEPT ![t] = @ + 1]
           again == [call[c] EXCEPT !.attempt = @ + 1]
<1> USE WriteAssumption
<1>1. TypeOK /\ CallInv(c) BY DEF WriteInv
<1>2. pc[c] = "wire" /\ Begun(c) /\ faults < MaxFaults /\ faults' = faults + 1
  BY DEF Lost, Begun
<1>3. UNCHANGED <<active, unlocked, meant, said, runs>> BY DEF Lost, history
<1>4. wire[c] \in Request /\ wire[c].to = t /\ wire[c].ran \in BOOLEAN
  BY <1>1, <1>2 DEF CallInv, Placed, Request
<1>5. t \in Targets /\ call[c] \in Call /\ call[c].attempt \in 0 .. MaxRetries
  BY <1>2, HasArguments
<1>6. late[c] \in [Targets -> Nat] BY <1>1 DEF TypeOK
<1>7. wire' = [wire EXCEPT ![c] = None] BY DEF Lost
<1>8. \/ wire[c].ran /\ late' = late
      \/ ~wire[c].ran /\ late' = [late EXCEPT ![c] = rest]
  BY <1>1, <1>4 DEF Lost, TypeOK
<1>9. rest \in [Targets -> Nat] /\ rest[t] = late[c][t] + 1
      /\ \A u \in Targets : u # t => rest[u] = late[c][u]
  BY <1>5, <1>6
<1>10. \/ Retries(c) /\ pc' = [pc EXCEPT ![c] = "backoff"] /\ call' = [call EXCEPT ![c] = again]
       \/ ~Retries(c) /\ pc' = [pc EXCEPT ![c] = Failure(c)] /\ call' = call
  BY <1>1 DEF Lost, TypeOK
<1>11. Retries(c) =>
          /\ again \in Call /\ again.attempt \in 0 .. MaxRetries
          /\ call[c].tool \notin FireEachTime
  <2>1. SUFFICES ASSUME Retries(c)
                 PROVE  again \in Call /\ again.attempt \in 0 .. MaxRetries /\ call[c].tool \notin FireEachTime
    OBVIOUS
  <2>2. call[c].attempt + 1 \in 0 .. MaxRetries BY <1>5, <2>1 DEF Retries
  <2>3. again \in Call /\ again.attempt \in 0 .. MaxRetries BY <1>5, <2>2 DEF Call
  <2>4. call[c].tool \notin FireEachTime BY <2>1 DEF Retries, Retriable, FireEachTime
  <2> QED BY <2>3, <2>4
<1>12. /\ again.session = call[c].session /\ again.tool = call[c].tool
       /\ again.confirm = call[c].confirm /\ again.target = t /\ again.part = call[c].part
  BY <1>5 DEF Call
<1> HIDE DEF rest, again
<1>13. /\ call'[c].session = call[c].session /\ call'[c].tool = call[c].tool
       /\ call'[c].confirm = call[c].confirm /\ call'[c].target = t /\ call'[c].part = call[c].part
       /\ call'[c] \in Call
  BY <1>1, <1>5, <1>10, <1>11, <1>12 DEF TypeOK
<1>14. /\ pc'[c] \in {"backoff", "failed", "partial"} /\ Begun(c)'
       /\ pc'[c] = "backoff" => call[c].tool \notin FireEachTime
       /\ pc'[c] = "partial" => call[c].part = 2
  BY <1>1, <1>10, <1>11, FailureIsTrue DEF TypeOK, Begun
<1>15. late'[c] = late[c] \/ (~wire[c].ran /\ late'[c] = rest) BY <1>1, <1>8 DEF TypeOK
<1>16. TypeOK'
  <2>1. call' \in [Calls -> Call \union {None}] BY <1>1, <1>10, <1>11 DEF TypeOK
  <2>2. pc' \in [Calls -> Places] BY <1>1, <1>10, FailureIsTrue DEF TypeOK, Places
  <2>3. late' \in [Calls -> [Targets -> Nat]] BY <1>1, <1>8, <1>9 DEF TypeOK
  <2>4. faults' \in 0 .. MaxFaults BY <1>1, <1>2 DEF TypeOK
  <2>5. wire' \in [Calls -> Request \union {None}] BY <1>1, <1>7 DEF TypeOK
  <2> QED BY <1>1, <1>3, <2>1, <2>2, <2>3, <2>4, <2>5 DEF TypeOK
<1>17. CallInv(c)'
  <2>1. Placed(c)' BY <1>1, <1>2, <1>3, <1>13, <1>14 DEF CallInv, Placed
  <2>2. Reached(c)' BY <1>1, <1>2, <1>3, <1>9, <1>13, <1>14, <1>15 DEF CallInv, Reached
  <2>3. Cleared(c)'
    <3>1. Authorised(c) => Authorised(c)' BY <1>3, <1>13 DEF Authorised
    <3> QED BY <1>1, <1>2, <1>13, <3>1 DEF CallInv, Cleared
  <2>4. Single(c)'
    <3> SUFFICES ASSUME call[c].tool \in FireEachTime PROVE Single(c)'
      BY <1>13 DEF Single
    <3>1. pc'[c] \notin {"backoff", "prepare", "acquire", "wire"} BY <1>14
    <3>2. \A u \in Targets : late[c][u] = 0 /\ (~wire[c].ran => runs[c][u] = 0)
      BY <1>1, <1>2 DEF CallInv, Single
    <3>3. \A u \in Targets : runs[c][u] + late[c][u] <= 1 BY <1>1, <1>2 DEF CallInv, Single
    <3>4. \A u \in Targets : runs'[c][u] + late'[c][u] <= 1
      <4>1. CASE late'[c] = late[c] BY <1>3, <3>3, <4>1
      <4>2. CASE ~wire[c].ran /\ late'[c] = rest
        <5>1. \A u \in Targets : rest[u] \in {0, 1} /\ runs[c][u] = 0 BY <1>5, <1>9, <3>2, <4>2
        <5> QED BY <1>3, <4>2, <5>1
      <4> QED BY <1>15, <4>1, <4>2
    <3> QED BY <3>1, <3>4 DEF Single
  <2>5. Told(c)' BY <1>1, <1>2, <1>3, <1>13, <1>14 DEF CallInv, Told
  <2> QED BY <2>1, <2>2, <2>3, <2>4, <2>5 DEF CallInv
<1>18. \A d \in Calls \ {c} : Alone(d)
  BY <1>1, <1>3, <1>7, <1>8, <1>10 DEF TypeOK, Alone
<1> QED BY <1>3, <1>16, <1>17, <1>18, OneCallKeeps

\* The answer to an executed write: success, or the second part.
LEMMA AnsweredKeeps ==
    ASSUME WriteInv, NEW c \in Calls, Answered(c)
    PROVE  WriteInv'
<1> DEFINE t == call[c].target
           more == call[c].part < Parts(call[c].tool)
           second == [call[c] EXCEPT !.part = 2]
           next == [second EXCEPT !.attempt = 0]
<1> USE WriteAssumption
<1>1. TypeOK /\ CallInv(c) BY DEF WriteInv
<1>2. pc[c] = "wire" /\ Begun(c) /\ wire[c].ran BY DEF Answered, Begun
<1>3. UNCHANGED <<active, unlocked, late, faults, meant, said, runs>> BY DEF Answered, history
<1>4. wire' = [wire EXCEPT ![c] = None] BY DEF Answered
<1>5. t \in Targets /\ call[c] \in Call /\ call[c].part \in 1 .. 2 BY <1>2, HasArguments
<1>6. \/ more /\ pc' = [pc EXCEPT ![c] = "prepare"] /\ call' = [call EXCEPT ![c] = next]
      \/ ~more /\ call' = call /\ \E o \in {"ok", "failed"} : pc' = [pc EXCEPT ![c] = o]
  BY <1>1 DEF Answered, Outcomes, NextPart, TypeOK
<1>7. runs[c][t] >= call[c].part /\ runs[c][t] \in Nat
  BY <1>1, <1>2, <1>5 DEF CallInv, Told, TypeOK
<1>8. /\ next \in Call /\ next.part = 2
      /\ next.session = call[c].session /\ next.tool = call[c].tool
      /\ next.confirm = call[c].confirm /\ next.target = t
  <2>1. 0 \in 0 .. MaxRetries OBVIOUS
  <2>2. /\ second \in Call /\ second.part = 2
        /\ second.session = call[c].session /\ second.tool = call[c].tool
        /\ second.confirm = call[c].confirm /\ second.target = t
    BY <1>5 DEF Call
  <2> HIDE DEF second
  <2> QED BY <2>1, <2>2 DEF Call
<1>9. more => call[c].tool \notin FireEachTime BY <1>5 DEF Parts, FireEachTime
<1> HIDE DEF next
<1>10. /\ call'[c].session = call[c].session /\ call'[c].tool = call[c].tool
       /\ call'[c].confirm = call[c].confirm /\ call'[c].target = t /\ call'[c] \in Call
       /\ \/ more /\ pc'[c] = "prepare" /\ call'[c].part = 2
          \/ ~more /\ pc'[c] \in {"ok", "failed"} /\ call'[c].part = call[c].part
  BY <1>1, <1>5, <1>6, <1>8 DEF TypeOK
<1>11. Begun(c)' BY <1>10 DEF Begun
<1>12. TypeOK'
  <2>1. call' \in [Calls -> Call \union {None}] BY <1>1, <1>6, <1>8 DEF TypeOK
  <2>2. pc' \in [Calls -> Places] BY <1>1, <1>6 DEF TypeOK, Places
  <2>3. wire' \in [Calls -> Request \union {None}] BY <1>1, <1>4 DEF TypeOK
  <2> QED BY <1>1, <1>3, <2>1, <2>2, <2>3 DEF TypeOK
<1>13. CallInv(c)'
  <2>1. Placed(c)' BY <1>1, <1>2, <1>3, <1>10 DEF CallInv, Placed
  <2>2. Reached(c)' BY <1>1, <1>2, <1>3, <1>10, <1>11 DEF CallInv, Reached
  <2>3. Cleared(c)'
    <3>1. Authorised(c) => Authorised(c)' BY <1>3, <1>10 DEF Authorised
    <3> QED BY <1>1, <1>2, <1>10, <3>1 DEF CallInv, Cleared
  <2>4. Single(c)' BY <1>1, <1>2, <1>3, <1>9, <1>10 DEF CallInv, Single
  <2>5. Told(c)'
    <3>1. CASE more
      <4>1. runs'[c][t] >= 1 BY <1>3, <1>5, <1>7
      <4> QED BY <1>10, <3>1, <4>1 DEF Told
    <3>2. CASE ~more
      <4>1. call[c].part >= Parts(call[c].tool) /\ Parts(call[c].tool) \in 1 .. 2
        BY <1>5, <3>2 DEF Parts
      <4>2. runs'[c][t] >= Parts(call[c].tool) /\ runs'[c][t] >= call[c].part - 1
        BY <1>3, <1>5, <1>7, <4>1
      <4> QED BY <1>10, <3>2, <4>2 DEF Told
    <3> QED BY <3>1, <3>2
  <2> QED BY <2>1, <2>2, <2>3, <2>4, <2>5 DEF CallInv
<1>14. \A d \in Calls \ {c} : Alone(d) BY <1>1, <1>3, <1>4, <1>6 DEF TypeOK, Alone
<1> QED BY <1>3, <1>12, <1>13, <1>14, OneCallKeeps

-----------------------------------------------------------------------------
LEMMA NextKeeps ==
    ASSUME WriteInv, [Next]_vars
    PROVE  WriteInv'
<1>1. CASE UNCHANGED vars
  <2>1. UNCHANGED <<active, unlocked, call, pc, wire, late, faults, meant, said, runs>>
    BY <1>1 DEF vars, program, history
  <2>2. TypeOK' BY <2>1 DEF WriteInv, TypeOK
  <2>3. Backed' BY <2>1, BackedKept DEF WriteInv
  <2>4. ASSUME NEW d \in Calls PROVE CallInv(d)'
    BY <2>1, AloneKeeps DEF WriteInv, Alone
  <2> QED BY <2>2, <2>3, <2>4 DEF WriteInv
<1>2. CASE \E s \in Sessions, t \in Targets : UseCcu(s, t) BY <1>2, UseCcuKeeps
<1>3. CASE \E c \in Calls, s \in Sessions, tool \in Tools, confirm \in BOOLEAN :
               Begin(c, s, tool, confirm)
  BY <1>3, BeginKeeps
<1>4. CASE \E c \in Calls : Step(c)
  <2>1. PICK c \in Calls : Step(c) BY <1>4
  <2>2. CASE Prepare(c) BY <2>2, PrepareKeeps
  <2>3. CASE Send(c) BY <2>3, SendKeeps
  <2>4. CASE LimiterRefuses(c) BY <2>4, LimiterRefusesKeeps
  <2>5. CASE Lost(c) BY <2>5, LostKeeps
  <2>6. CASE BackoffEnds(c) BY <2>6, BackoffEndsKeeps
  <2>7. CASE CcuRefuses(c) BY <2>7, CcuRefusesKeeps
  <2>8. CASE CcuRuns(c) BY <2>8, CcuRunsKeeps
  <2>9. CASE Answered(c) BY <2>9, AnsweredKeeps
  <2> QED BY <2>1, <2>2, <2>3, <2>4, <2>5, <2>6, <2>7, <2>8, <2>9 DEF Step
<1>5. CASE \E c \in Calls, t \in Targets : CcuRunsLate(c, t) BY <1>5, CcuRunsLateKeeps
<1> QED BY <1>1, <1>2, <1>3, <1>4, <1>5 DEF Next

(* WriteInv holds for every number of targets, sessions, calls and lost     *)
(* answers: a call that passed the gate had its authority, its requests go  *)
(* to the target it pinned, and a one-shot write has one request at most.   *)
THEOREM WriteInvariant == Spec => []WriteInv
<1>1. WriteInv /\ [Next]_vars => WriteInv' BY NextKeeps
<1> QED BY <1>1, InitWrites, PTL DEF Spec

(* Every variable keeps its type and the attempts of withRetry() their      *)
(* bound.                                                                   *)
THEOREM TypeCorrect == Spec => []TypeOK
<1>1. WriteInv => TypeOK BY DEF WriteInv
<1> QED BY <1>1, WriteInvariant, PTL

(* assertWritable() is a gate: nothing reaches a read-only CCU, nothing a   *)
(* protected one without a confirmation that covers it, whatever use_ccu,   *)
(* retries and late arrivals do after the check.                            *)
THEOREM OnlyAuthorised == Spec => []OnlyAuthorisedWrites
<1>1. ASSUME WriteInv PROVE OnlyAuthorisedWrites
  <2> SUFFICES ASSUME NEW c \in Calls, NEW t \in Targets, Ran(c, t) \/ late[c][t] > 0
               PROVE  t \notin ReadOnly /\ (t \in Protected => Authorised(c))
    BY DEF OnlyAuthorisedWrites
  <2>1. runs[c][t] # 0 \/ late[c][t] # 0 BY DEF Ran
  <2> QED BY <1>1, <2>1 DEF WriteInv, CallInv, Reached, Cleared
<1> QED BY <1>1, WriteInvariant, PTL

(* The pinned session of a call: a use_ccu between its gate and its write   *)
(* does not move the write.                                                 *)
THEOREM StayOnTarget == Spec => []WritesStayOnTarget
<1>1. ASSUME WriteInv PROVE WritesStayOnTarget
  <2> SUFFICES ASSUME NEW c \in Calls, NEW t \in Targets, Ran(c, t) PROVE t = meant[c]
    BY DEF WritesStayOnTarget
  <2>1. runs[c][t] # 0 BY DEF Ran
  <2> QED BY <1>1, <2>1 DEF WriteInv, CallInv, Reached, Placed, Begun
<1> QED BY <1>1, WriteInvariant, PTL

(* withRetry() exempts what must not run twice: a one-shot write is         *)
(* executed once at most, counting requests that may still arrive.          *)
THEOREM FiresOnce == Spec => []FiresAtMostOnce
<1>1. ASSUME WriteInv PROVE FiresAtMostOnce
  <2> SUFFICES ASSUME NEW c \in Calls, call[c] # None, call[c].tool \in FireEachTime, NEW t \in Targets
               PROVE  runs[c][t] + late[c][t] <= 1
    BY DEF FiresAtMostOnce
  <2>1. CASE Begun(c) BY <1>1, <2>1 DEF WriteInv, CallInv, Single
  <2>2. CASE ~Begun(c)
    <3>1. runs[c][t] = 0 /\ late[c][t] = 0 BY <1>1, <2>2 DEF WriteInv, CallInv, Reached
    <3> QED BY <3>1
  <2> QED BY <2>1, <2>2
<1> QED BY <1>1, WriteInvariant, PTL

(* What a tool answers is so: "ok" for all parts executed, "partial" for    *)
(* the first one, a refusal by the gate for nothing at all.                 *)
THEOREM AnswersTrue == Spec => []AnswersAreTrue
<1>1. ASSUME WriteInv PROVE AnswersAreTrue
  <2> SUFFICES ASSUME NEW c \in Calls
               PROVE  /\ pc[c] = "ok" => runs[c][meant[c]] >= Parts(call[c].tool)
                      /\ pc[c] = "partial" => runs[c][meant[c]] >= 1
                      /\ pc[c] = "refused" => runs[c] = Nowhere /\ late[c] = Nowhere
    BY DEF AnswersAreTrue
  <2>1. ASSUME pc[c] = "ok" PROVE runs[c][meant[c]] >= Parts(call[c].tool)
    BY <1>1, <2>1, HasArguments DEF WriteInv, CallInv, Told, Begun
  <2>2. ASSUME pc[c] = "partial" PROVE runs[c][meant[c]] >= 1
    BY <1>1, <2>2, HasArguments DEF WriteInv, CallInv, Told, Begun
  <2>3. ASSUME pc[c] = "refused" PROVE runs[c] = Nowhere /\ late[c] = Nowhere
    <3>1. \A t \in Targets : runs[c][t] = 0 /\ late[c][t] = 0
      BY <1>1, <2>3 DEF WriteInv, CallInv, Reached, Begun
    <3>2. runs[c] \in [Targets -> Nat] /\ late[c] \in [Targets -> Nat]
      BY <1>1 DEF WriteInv, TypeOK
    <3> QED BY <3>1, <3>2 DEF Nowhere
  <2> QED BY <2>1, <2>2, <2>3
<1> QED BY <1>1, WriteInvariant, PTL

=============================================================================
