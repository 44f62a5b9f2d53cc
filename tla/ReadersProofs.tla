--------------------------- MODULE ReadersProofs ---------------------------
(***************************************************************************)
(* Theorems about Readers, for any targets, interfaces and callers, and    *)
(* any number of requests, switches and changes.                           *)
(***************************************************************************)
EXTENDS Readers, SequenceTheorems, FiniteSetTheorems, TLAPS

\* The steps of a resource, which never resolves an interface.
Others == {step \in Step : step.method # "resolveInterface"}

\* What is true of a request wherever it is: a tool has its target and its
\* answers are from there, and an address is unknown if it was once absent.
Fit(r) ==
    /\ r \in Progress
    /\ r.place \in {"ask", "wait", "join"} => r.todo # <<>>
    /\ r.place # "idle" /\ ~r.lazy => r.target \in Targets /\ r.sources \subseteq {r.target}
    /\ r.place # "idle" /\ r.lazy => r.todo \in Seq(Others) /\ r.place # "join"
    /\ r.place = "notFound" => r.absent

\* A refresh has noticed an absence since it began; who shares it has, too.
RefreshFits(t) ==
    refreshPromise[t].running =>
        /\ where[t] = None => refreshPromise[t].absent
        /\ refreshPromise[t].content = None => refreshPromise[t].absent

JoinFits(c) ==
    call[c].place = "join" =>
        /\ refreshPromise[call[c].target].running
        /\ refreshPromise[call[c].target].absent => call[c].absent

ReaderInv ==
    /\ TypeOK
    /\ \A t \in Targets : RefreshFits(t)
    /\ \A c \in Callers : Fit(call[c]) /\ JoinFits(c)

-----------------------------------------------------------------------------
\* The tools and resources are sequences of steps.
LEMMA CallTyped ==
    ASSUME NEW method, NEW optional \in BOOLEAN, NEW probe \in BOOLEAN
    PROVE  /\ Call(method, optional, probe) \in Seq(Step) /\ Call(method, optional, probe) # <<>>
           /\ method # "resolveInterface" => Call(method, optional, probe) \in Seq(Others)
<1>1. [method |-> Kind(method), optional |-> optional, probe |-> probe] \in Step BY DEF Kind, Step
<1>2. method # "resolveInterface" => Kind(method) # "resolveInterface" BY DEF Kind
<1> QED BY <1>1, <1>2 DEF Call, Others

LEMMA FatalTyped ==
    ASSUME NEW method
    PROVE  /\ Fatal(method) \in Seq(Step) /\ Fatal(method) # <<>>
           /\ Optional(method) \in Seq(Step) /\ Optional(method) # <<>>
           /\ method # "resolveInterface" => Fatal(method) \in Seq(Others) /\ Optional(method) \in Seq(Others)
BY CallTyped DEF Fatal, Optional

LEMMA EachTyped == ASSUME NEW method PROVE Each(N, method) \in Seq(Step)
<1>1. N \in Nat BY ReadersAssumption, FS_CardinalityType DEF N
<1>2. Optional(method)[1] \in Step
  <2>1. [method |-> Kind(method), optional |-> TRUE, probe |-> FALSE] \in Step BY DEF Kind, Step
  <2> QED BY <2>1 DEF Optional, Call
<1> QED BY <1>1, <1>2 DEF Each

LEMMA Appended ==
    ASSUME NEW S, NEW a \in Seq(S), a # <<>>, NEW b \in Seq(S)
    PROVE  a \o b \in Seq(S) /\ a \o b # <<>>
BY ConcatProperties

LEMMA Prepended ==
    ASSUME NEW S, NEW a \in Seq(S), NEW b \in Seq(S), b # <<>>
    PROVE  a \o b \in Seq(S) /\ a \o b # <<>>
BY ConcatProperties

LEMMA IfTyped ==
    ASSUME NEW S, NEW b \in BOOLEAN, NEW calls \in Seq(S)
    PROVE  If(b, calls) \in Seq(S)
BY DEF If

LEMMA ToolsTyped == \A tool \in Tools : tool \in Seq(Step) /\ tool # <<>>
<1>1. ASSUME NEW b \in BOOLEAN PROVE get_value(b) \in Seq(Step) /\ get_value(b) # <<>>
  BY FatalTyped, IfTyped, Prepended DEF get_value, Resolve
<1>2. ASSUME NEW b \in BOOLEAN PROVE get_paramset(b) \in Seq(Step) /\ get_paramset(b) # <<>>
  BY FatalTyped, IfTyped, Prepended DEF get_paramset, Resolve
<1>3. ASSUME NEW b \in BOOLEAN, NEW c \in BOOLEAN PROVE list_devices(b, c) \in Seq(Step) /\ list_devices(b, c) # <<>>
  <2>1. Devices \in Seq(Step) /\ Devices # <<>> BY FatalTyped DEF Devices
  <2>2. If(b, Fatal("Room.getAll")) \in Seq(Step) BY FatalTyped, IfTyped
  <2>3. If(c, Fatal("Subsection.getAll")) \in Seq(Step) BY FatalTyped, IfTyped
  <2>4. Devices \o If(b, Fatal("Room.getAll")) \in Seq(Step) /\ Devices \o If(b, Fatal("Room.getAll")) # <<>>
    BY <2>1, <2>2, Appended
  <2> QED BY <2>3, <2>4, Appended DEF list_devices
<1>4. list_links \in Seq(Step) /\ list_links # <<>>
  <2>1. Devices \o ListInterfaces \in Seq(Step) /\ Devices \o ListInterfaces # <<>>
    BY FatalTyped, Appended DEF Devices, ListInterfaces
  <2> QED BY <2>1, EachTyped, Appended DEF list_links
<1>5. get_rssi \in Seq(Step) /\ get_rssi # <<>>
  <2> DEFINE a == Devices \o ListInterfaces
             b == a \o Each(N, "Interface.rssiInfo")
             d == b \o Optional("Interface.getParamset")
  <2>1. a \in Seq(Step) /\ a # <<>> BY FatalTyped, Appended DEF Devices, ListInterfaces
  <2> HIDE DEF a
  <2>2. b \in Seq(Step) /\ b # <<>> BY <2>1, EachTyped, Appended
  <2> HIDE DEF b
  <2>3. d \in Seq(Step) /\ d # <<>> BY <2>2, FatalTyped, Appended
  <2>4. get_rssi = d \o Optional("Interface.listBidcosInterfaces") BY DEF get_rssi, d, b, a
  <2> HIDE DEF d
  <2> QED BY <2>3, <2>4, FatalTyped, Appended
<1>6. get_system_info \in Seq(Step) /\ get_system_info # <<>>
  <2> DEFINE a == Call("CCU.getVersion", TRUE, TRUE) \o Call("CCU.getSerial", TRUE, TRUE)
             b == a \o Call("CCU.getAddress", TRUE, TRUE)
  <2>1. a \in Seq(Step) /\ a # <<>> BY CallTyped, Appended
  <2> HIDE DEF a
  <2>2. b \in Seq(Step) /\ b # <<>> BY <2>1, CallTyped, Appended
  <2>3. get_system_info = b \o Call("CCU.getHmIPAddress", TRUE, TRUE) BY DEF get_system_info, b, a
  <2> HIDE DEF b
  <2> QED BY <2>2, <2>3, CallTyped, Appended
<1>7. \A tool \in {get_values, list_interfaces, list_rooms, list_functions, list_programs,
                   list_system_variables, get_service_messages} : tool \in Seq(Step) /\ tool # <<>>
  BY FatalTyped DEF get_values, list_interfaces, ListInterfaces, list_rooms, list_functions, list_programs,
                    list_system_variables, get_service_messages
<1> DEFINE Good(tool) == tool \in Seq(Step) /\ tool # <<>>
           A == {get_value(b) : b \in BOOLEAN}
           B == {get_paramset(b) : b \in BOOLEAN}
           C == {list_devices(b, c) : b, c \in BOOLEAN}
           D == {get_values, list_interfaces, list_rooms, list_functions, list_programs,
                 list_system_variables, list_links, get_service_messages, get_system_info, get_rssi}
<1>8. \A tool \in A : Good(tool) BY <1>1
<1>9. \A tool \in B : Good(tool) BY <1>2
<1>10. \A tool \in C : Good(tool) BY <1>3
<1>11. \A tool \in D : Good(tool) BY <1>4, <1>5, <1>6, <1>7
<1>12. Tools = A \union B \union C \union D BY DEF Tools
<1> HIDE DEF A, B, C, D
<1> QED BY <1>8, <1>9, <1>10, <1>11, <1>12

LEMMA ResourcesTyped == \A resource \in Resources : resource \in Seq(Others) /\ resource \in Seq(Step) /\ resource # <<>>
<1>1. \A resource \in {Devices, list_rooms, list_functions, list_programs, list_system_variables, list_interfaces} :
         resource \in Seq(Others) /\ resource \in Seq(Step) /\ resource # <<>>
  BY FatalTyped DEF Devices, list_interfaces, ListInterfaces, list_rooms, list_functions, list_programs,
                    list_system_variables
<1> DEFINE system == Optional("CCU.getVersion") \o Optional("CCU.getSerial")
<1>2. system \in Seq(Others) /\ system \in Seq(Step) /\ system # <<>> BY FatalTyped, Appended
<1> QED BY <1>1, <1>2 DEF Resources

-----------------------------------------------------------------------------
\* A request goes on, or ends.
LEMMA IdleFits == Fit(Idle) /\ Idle.place = "idle"
BY DEF Idle, Fit, Progress, Listing

LEMMA EndsFit ==
    ASSUME NEW r, Fit(r), r.place # "idle"
    PROVE  /\ Fit(Fails(r)) /\ Fails(r).place = "failed"
           /\ r.absent => Fit(NotFound(r)) /\ NotFound(r).place = "notFound"
<1>1. ASSUME NEW place \in {"failed", "notFound"}, place = "notFound" => r.absent
      PROVE  Fit([r EXCEPT !.place = place, !.todo = <<>>])
  <2> DEFINE x == [r EXCEPT !.place = place, !.todo = <<>>]
  <2>1. r \in Progress /\ <<>> \in Seq(Step) /\ <<>> \in Seq(Others) BY DEF Fit
  <2>2. /\ x \in Progress /\ x.place = place /\ x.todo = <<>> /\ x.lazy = r.lazy /\ x.target = r.target
        /\ x.sources = r.sources /\ x.absent = r.absent
    BY <2>1 DEF Progress
  <2> HIDE DEF x
  <2>3. Fit(x) BY <1>1, <2>1, <2>2 DEF Fit
  <2> QED BY <2>3 DEF x
<1>2. r \in Progress BY DEF Fit
<1>3. Fails(r).place = "failed" /\ NotFound(r).place = "notFound" BY <1>2 DEF Fails, NotFound, Progress
<1> QED BY <1>1, <1>3 DEF Fails, NotFound

LEMMA OnwardFits ==
    ASSUME NEW r, Fit(r), r.place \in {"ask", "wait", "join"}
    PROVE  Fit(Onward(r)) /\ Onward(r).place \in {"ask", "ok", "failed"}
<1> DEFINE todo == r.todo
           n == Len(todo)
           rest == Tail(todo)
<1>1. r \in Progress /\ todo \in Seq(Step) /\ todo # <<>> /\ n \in Nat BY DEF Fit, Progress
<1>2. rest \in Seq(Step) /\ Len(rest) = n - 1 BY <1>1, HeadTailProperties
<1>3. r.lazy => todo \in Seq(Others) /\ rest \in Seq(Others) BY <1>1, HeadTailProperties DEF Fit
<1>4. CASE n > 1
  <2> DEFINE x == [r EXCEPT !.place = "ask", !.todo = rest, !.content = Unread]
  <2>1. Onward(r) = x BY <1>4 DEF Onward
  <2> HIDE DEF n, todo, rest
  <2>2. Len(rest) # 0 BY <1>1, <1>2, <1>4
  <2>3. rest # <<>> BY <2>2
  <2>4. /\ x \in Progress /\ x.place = "ask" /\ x.todo = rest /\ x.lazy = r.lazy /\ x.target = r.target
        /\ x.sources = r.sources
    BY <1>1, <1>2 DEF Progress, Listing
  <2> HIDE DEF x
  <2> QED BY <1>3, <2>1, <2>3, <2>4 DEF Fit
<1>5. CASE ~(n > 1)
  <2> DEFINE place == IF r.noSessionErr THEN "failed" ELSE "ok"
             x == [r EXCEPT !.place = place, !.todo = <<>>]
  <2>1. Onward(r) = x BY <1>5 DEF Onward
  <2>2. place \in {"ok", "failed"} /\ <<>> \in Seq(Step) /\ <<>> \in Seq(Others) OBVIOUS
  <2> HIDE DEF n, todo, rest, place
  <2>3. /\ x \in Progress /\ x.place = place /\ x.todo = <<>> /\ x.lazy = r.lazy /\ x.target = r.target
        /\ x.sources = r.sources
    BY <1>1, <2>2 DEF Progress
  <2> HIDE DEF x
  <2> QED BY <2>1, <2>2, <2>3 DEF Fit
<1> QED BY <1>4, <1>5

\* A list that has been read decides.
LEMMA LookedFits ==
    ASSUME NEW r, Fit(r), r.place \in {"ask", "join"}, NEW list \in Listing, list # Unread,
           list = None => r.absent
    PROVE  Fit(Looked(r, list)) /\ Looked(r, list).place \in {"ask", "ok", "failed", "notFound"}
BY OnwardFits, EndsFit DEF Looked, Listing

-----------------------------------------------------------------------------
\* A step of one request.
LEMMA OneKeeps ==
    ASSUME ReaderInv, TypeOK', NEW c \in Callers, NEW r, Fit(r), call' = [call EXCEPT ![c] = r],
           \A t \in Targets : RefreshFits(t)', JoinFits(c)',
           \A t \in Targets : refreshPromise[t].running => refreshPromise'[t] = refreshPromise[t]
    PROVE  ReaderInv'
<1>1. call'[c] = r BY DEF ReaderInv, TypeOK
<1>2. ASSUME NEW d \in Callers, d # c PROVE Fit(call'[d]) /\ JoinFits(d)'
  <2>1. call'[d] = call[d] /\ Fit(call[d]) /\ JoinFits(d) BY <1>2 DEF ReaderInv, TypeOK
  <2>2. call[d].place = "join" => call[d].target \in Targets BY <2>1 DEF Fit
  <2> QED BY <2>1, <2>2 DEF JoinFits
<1> QED BY <1>1, <1>2 DEF ReaderInv

LEMMA FreeStepKeeps ==
    ASSUME ReaderInv, NEW c \in Callers, NEW r, Fit(r), r.place # "join", call' = [call EXCEPT ![c] = r],
           acts' \in 0 .. MaxActs, interfaceMap' \in [Targets -> Listing],
           UNCHANGED <<where, changes, active, refreshPromise, completionVars>>
    PROVE  ReaderInv'
<1>1. TypeOK' BY DEF ReaderInv, TypeOK, Fit, completionVars
<1>2. \A t \in Targets : RefreshFits(t)' BY DEF ReaderInv, RefreshFits
<1>3. JoinFits(c)' BY DEF ReaderInv, TypeOK, JoinFits
<1> QED BY <1>1, <1>2, <1>3, OneKeeps

LEMMA BeginsKeeps ==
    ASSUME ReaderInv, NEW c \in Callers,
           \/ \E tool \in Tools, t \in Targets : ToolCalled(c, tool, t)
           \/ \E resource \in Resources : ResourceRead(c, resource)
    PROVE  ReaderInv'
<1>0. acts < MaxActs /\ acts' = acts + 1 BY DEF ToolCalled, ResourceRead, Acts
<1>1. acts' \in 0 .. MaxActs
  <2>1. acts \in 0 .. MaxActs /\ MaxActs \in Nat BY ReadersAssumption DEF ReaderInv, TypeOK
  <2> QED BY <1>0, <2>1
<1>2. Idle \in Progress BY IdleFits DEF Fit
<1>3. ASSUME NEW tool \in Tools, NEW t \in Targets, ToolCalled(c, tool, t) PROVE ReaderInv'
  <2> DEFINE r == [Idle EXCEPT !.place = "ask", !.target = t, !.todo = tool]
  <2>1. call' = [call EXCEPT ![c] = r] /\ UNCHANGED <<where, changes, active, interfaceMap, refreshPromise, completionVars>>
    BY <1>3 DEF ToolCalled
  <2>2. tool \in Seq(Step) /\ tool # <<>> BY ToolsTyped
  <2>3. Fit(r) /\ r.place = "ask" BY <2>2 DEF Idle, Fit, Progress, Listing
  <2> HIDE DEF r
  <2>4. interfaceMap' \in [Targets -> Listing] BY <2>1 DEF ReaderInv, TypeOK
  <2> QED BY <1>1, <2>1, <2>3, <2>4, FreeStepKeeps
<1>4. ASSUME NEW resource \in Resources, ResourceRead(c, resource) PROVE ReaderInv'
  <2> DEFINE r == [Idle EXCEPT !.place = "ask", !.lazy = TRUE, !.todo = resource]
  <2>1. call' = [call EXCEPT ![c] = r] /\ UNCHANGED <<where, changes, active, interfaceMap, refreshPromise, completionVars>>
    BY <1>4 DEF ResourceRead
  <2>2. resource \in Seq(Step) /\ resource \in Seq(Others) /\ resource # <<>> BY ResourcesTyped
  <2>3. Fit(r) /\ r.place = "ask" BY <2>2 DEF Idle, Fit, Progress, Listing
  <2> HIDE DEF r
  <2>4. interfaceMap' \in [Targets -> Listing] BY <2>1 DEF ReaderInv, TypeOK
  <2> QED BY <1>1, <2>1, <2>3, <2>4, FreeStepKeeps
<1> QED BY <1>3, <1>4

-----------------------------------------------------------------------------
\* The calls of a request.
LEMMA CallKeeps ==
    ASSUME ReaderInv, NEW c \in Callers, CallSent(c) \/ CallRead(c) \/ CallAnswered(c) \/ Returned(c)
    PROVE  ReaderInv'
<1>1. Fit(call[c]) /\ call[c] \in Progress BY DEF ReaderInv, Fit
<1>2. acts' \in 0 .. MaxActs /\ UNCHANGED <<where, changes, active, refreshPromise, completionVars>>
  BY DEF ReaderInv, TypeOK, CallSent, CallRead, CallAnswered, Returned
<1>3. interfaceMap \in [Targets -> Listing] BY DEF ReaderInv, TypeOK
<1>4. CASE CallSent(c)
  <2> DEFINE s == SessionOf(c)
             r == [call[c] EXCEPT !.place = "wait", !.sources = @ \union {s}]
  <2>1. call' = [call EXCEPT ![c] = r] /\ interfaceMap' = interfaceMap /\ call[c].place = "ask"
    BY <1>4 DEF CallSent
  <2>2. s \in Targets /\ (~call[c].lazy => s = call[c].target)
    BY <1>1, <2>1 DEF SessionOf, ReaderInv, TypeOK, Fit
  <2> HIDE DEF s
  <2>3. /\ r \in Progress /\ r.place = "wait" /\ r.lazy = call[c].lazy /\ r.target = call[c].target
        /\ r.todo = call[c].todo /\ r.sources = call[c].sources \union {s}
    BY <1>1, <2>2 DEF Progress
  <2> HIDE DEF r
  <2>4. Fit(r) BY <1>1, <2>1, <2>2, <2>3 DEF Fit
  <2> QED BY <1>2, <1>3, <2>1, <2>3, <2>4, FreeStepKeeps
<1>5. CASE CallRead(c)
  <2> DEFINE list == where[call[c].target]
             r == [call[c] EXCEPT !.content = list]
  <2>1. call' = [call EXCEPT ![c] = r] /\ interfaceMap' = interfaceMap /\ call[c].place = "wait" /\ ~call[c].lazy
    BY <1>5 DEF CallRead, Lists
  <2>2. list \in Listing BY <1>1, <2>1 DEF ReaderInv, TypeOK, Fit, Listing
  <2> HIDE DEF list
  <2>3. /\ r \in Progress /\ r.place = "wait" /\ r.lazy = call[c].lazy /\ r.target = call[c].target
        /\ r.todo = call[c].todo /\ r.sources = call[c].sources
    BY <1>1, <2>1, <2>2 DEF Progress
  <2> HIDE DEF r
  <2>4. Fit(r) BY <1>1, <2>1, <2>3 DEF Fit
  <2> QED BY <1>2, <1>3, <2>1, <2>3, <2>4, FreeStepKeeps
<1>6. CASE CallAnswered(c)
  <2> DEFINE r == Onward(call[c])
  <2>1. call' = [call EXCEPT ![c] = r] /\ call[c].place = "wait" BY <1>6 DEF CallAnswered
  <2>2. Fit(r) /\ r.place # "join" BY <1>1, <2>1, OnwardFits
  <2>3. interfaceMap' \in [Targets -> Listing]
    BY <1>1, <1>3, <1>6 DEF CallAnswered, updateDeviceList, Progress
  <2> HIDE DEF r
  <2> QED BY <1>2, <2>1, <2>2, <2>3, FreeStepKeeps
<1>7. CASE Returned(c)
  <2>1. call' = [call EXCEPT ![c] = Idle] /\ interfaceMap' = interfaceMap BY <1>7 DEF Returned
  <2> QED BY <1>2, <1>3, <2>1, IdleFits, FreeStepKeeps
<1> QED BY <1>4, <1>5, <1>6, <1>7

LEMMA CallFailsKeeps ==
    ASSUME ReaderInv, NEW c \in Callers, NEW loggedIn \in BOOLEAN, CallFails(c, loggedIn)
    PROVE  ReaderInv'
<1> DEFINE step == Head(call[c].todo)
           err == call[c].noSessionErr \/ (step.probe /\ ~loggedIn)
           r == [call[c] EXCEPT !.noSessionErr = err]
           x == IF step.optional THEN Onward(r) ELSE Fails(r)
<1>1. Fit(call[c]) /\ call[c] \in Progress BY DEF ReaderInv, Fit
<1>2. call[c].place = "wait" /\ call' = [call EXCEPT ![c] = x] BY DEF CallFails
<1>3. step \in Step
  <2>1. call[c].todo \in Seq(Step) /\ call[c].todo # <<>> BY <1>1, <1>2 DEF Fit, Progress
  <2> QED BY <2>1, HeadTailProperties
<1>4. err \in BOOLEAN BY <1>1, <1>3 DEF Step, Progress
<1> HIDE DEF err
<1>5. /\ r \in Progress /\ r.place = "wait" /\ r.lazy = call[c].lazy /\ r.target = call[c].target
      /\ r.todo = call[c].todo /\ r.sources = call[c].sources
  BY <1>1, <1>2, <1>4 DEF Progress
<1> HIDE DEF r
<1>6. Fit(r) BY <1>1, <1>2, <1>5 DEF Fit
<1>7. Fit(x) /\ x.place # "join" BY <1>5, <1>6, OnwardFits, EndsFit
<1>8. /\ acts' \in 0 .. MaxActs /\ interfaceMap' \in [Targets -> Listing]
      /\ UNCHANGED <<where, changes, active, refreshPromise, completionVars>>
  BY DEF ReaderInv, TypeOK, CallFails
<1> HIDE DEF x
<1> QED BY <1>2, <1>7, <1>8, FreeStepKeeps

-----------------------------------------------------------------------------
\* Resolving: only a tool does it, so its target is the one it has.
LEMMA ResolvingFits ==
    ASSUME ReaderInv, NEW c \in Callers, Asks(c, "resolveInterface")
    PROVE  /\ Fit(call[c]) /\ call[c] \in Progress /\ call[c].place = "ask" /\ ~call[c].lazy
           /\ call[c].target \in Targets /\ SessionOf(c) = call[c].target
<1>1. Fit(call[c]) /\ call[c] \in Progress /\ call[c].place = "ask" /\ Head(call[c].todo).method = "resolveInterface"
  BY DEF ReaderInv, Fit, Asks
<1>2. ~call[c].lazy
  <2>1. SUFFICES ASSUME call[c].lazy PROVE FALSE OBVIOUS
  <2>2. call[c].todo \in Seq(Others) /\ call[c].todo # <<>> BY <1>1, <2>1 DEF Fit
  <2>3. Head(call[c].todo) \in Others BY <2>2, HeadTailProperties
  <2> QED BY <1>1, <2>3 DEF Others
<1> QED BY <1>1, <1>2 DEF Fit, SessionOf

\* A request joins a refresh.
Joining(r, b) == [r EXCEPT !.place = "join", !.absent = b]

LEMMA JoiningFits ==
    ASSUME NEW r, Fit(r), r.place = "ask", ~r.lazy, NEW b \in BOOLEAN
    PROVE  /\ Fit(Joining(r, b)) /\ Joining(r, b).place = "join" /\ Joining(r, b).target = r.target
           /\ Joining(r, b).absent = b
<1> DEFINE x == Joining(r, b)
<1>1. r \in Progress BY DEF Fit
<1>2. /\ x \in Progress /\ x.place = "join" /\ x.lazy = r.lazy /\ x.target = r.target
      /\ x.todo = r.todo /\ x.sources = r.sources /\ x.absent = b
  BY <1>1 DEF Progress, Joining
<1> HIDE DEF x
<1>3. Fit(x) BY <1>1, <1>2 DEF Fit
<1>4. Fit(x) /\ x.place = "join" /\ x.target = r.target /\ x.absent = b BY <1>2, <1>3
<1> QED BY <1>4 DEF x

LEMMA ResolveKeeps ==
    ASSUME ReaderInv, NEW c \in Callers, resolveInterface(c)
    PROVE  ReaderInv'
<1>1. Asks(c, "resolveInterface") BY DEF resolveInterface
<1>2. PICK t \in Targets : t = call[c].target BY <1>1, ResolvingFits
<1>3. SessionOf(c) = t /\ Fit(call[c]) /\ call[c].place = "ask" /\ ~call[c].lazy /\ call[c] \in Progress
  BY <1>1, <1>2, ResolvingFits
<1>4. UNCHANGED <<where, changes, acts, active, interfaceMap, completionVars>> BY DEF resolveInterface
<1>5. CASE Mapped(t)
  <2> DEFINE r == Looked(call[c], interfaceMap[t])
  <2>1. call' = [call EXCEPT ![c] = r] /\ UNCHANGED refreshPromise BY <1>3, <1>5 DEF resolveInterface
  <2>2. interfaceMap[t] \in Interfaces /\ interfaceMap[t] \notin {None, Unread}
    BY <1>5, ReadersAssumption DEF Mapped
  <2>3. Fit(r) /\ r.place # "join" BY <1>3, <2>2, LookedFits DEF Listing
  <2>4. acts' \in 0 .. MaxActs /\ interfaceMap' \in [Targets -> Listing] BY <1>4 DEF ReaderInv, TypeOK
  <2> HIDE DEF r
  <2> QED BY <1>4, <2>1, <2>3, <2>4, FreeStepKeeps
<1>6. CASE ~Mapped(t)
  <2>1. PICK b \in BOOLEAN : b <=> where[t] = None OBVIOUS
  <2> DEFINE r == Joining(call[c], b)
             p == [running |-> TRUE, content |-> Unread, absent |-> b]
  <2>2. (where[t] = None) = b BY <2>1, Zenon
  <2>3. /\ call' = [call EXCEPT ![c] = r] /\ ~refreshPromise[t].running
        /\ refreshPromise' = [refreshPromise EXCEPT ![t] = p]
    BY <1>3, <1>6, <2>2 DEF resolveInterface, NoRefresh, Joining
  <2>4. Fit(r) /\ r.place = "join" /\ r.target = t /\ r.absent = b BY <1>2, <1>3, JoiningFits
  <2> HIDE DEF r
  <2>5. r \in Progress BY <2>4 DEF Fit
  <2>6. p \in [running: BOOLEAN, content: Listing, absent: BOOLEAN] /\ p.content # None
    BY ReadersAssumption DEF Listing
  <2>7. TypeOK' BY <1>4, <2>3, <2>5, <2>6 DEF ReaderInv, TypeOK, completionVars
  <2>8. refreshPromise'[t] = p /\ call'[c] = r BY <2>3 DEF ReaderInv, TypeOK
  <2>9. ASSUME NEW u \in Targets PROVE RefreshFits(u)'
    <3>1. CASE u = t BY <1>4, <2>1, <2>6, <2>8, <3>1 DEF RefreshFits
    <3>2. CASE u # t
      <4>1. refreshPromise'[u] = refreshPromise[u] BY <2>3, <3>2 DEF ReaderInv, TypeOK
      <4> QED BY <1>4, <4>1 DEF ReaderInv, RefreshFits
    <3> QED BY <3>1, <3>2
  <2>10. JoinFits(c)' BY <2>4, <2>8 DEF JoinFits
  <2>11. \A u \in Targets : refreshPromise[u].running => refreshPromise'[u] = refreshPromise[u]
    BY <2>3 DEF ReaderInv, TypeOK
  <2> QED BY <2>3, <2>4, <2>7, <2>9, <2>10, <2>11, OneKeeps
<1> QED BY <1>5, <1>6

LEMMA JoinKeeps ==
    ASSUME ReaderInv, NEW c \in Callers, refreshDeviceList(c)
    PROVE  ReaderInv'
<1>1. Asks(c, "resolveInterface") BY DEF refreshDeviceList
<1>2. PICK t \in Targets : t = call[c].target BY <1>1, ResolvingFits
<1>3. SessionOf(c) = t /\ Fit(call[c]) /\ call[c].place = "ask" /\ ~call[c].lazy
  BY <1>1, <1>2, ResolvingFits
<1>4. PICK b \in BOOLEAN : b = refreshPromise[t].absent BY DEF ReaderInv, TypeOK
<1> DEFINE r == Joining(call[c], b)
<1>5. /\ call' = [call EXCEPT ![c] = r] /\ refreshPromise[t].running
      /\ UNCHANGED <<where, changes, acts, active, interfaceMap, refreshPromise, completionVars>>
  BY <1>3, <1>4 DEF refreshDeviceList, Joining
<1>6. Fit(r) /\ r.place = "join" /\ r.target = t /\ r.absent = b BY <1>2, <1>3, JoiningFits
<1> HIDE DEF r
<1>7. TypeOK' BY <1>5, <1>6 DEF ReaderInv, TypeOK, Fit, completionVars
<1>8. \A u \in Targets : RefreshFits(u)' BY <1>5 DEF ReaderInv, RefreshFits
<1>9. call'[c] = r BY <1>5 DEF ReaderInv, TypeOK
<1>10. JoinFits(c)' BY <1>4, <1>5, <1>6, <1>9 DEF JoinFits
<1> QED BY <1>5, <1>6, <1>7, <1>8, <1>10, OneKeeps

-----------------------------------------------------------------------------
\* The refresh itself.
LEMMA RefreshReadKeeps ==
    ASSUME ReaderInv, NEW t \in Targets, RefreshRead(t)
    PROVE  ReaderInv'
<1>1. /\ refreshPromise' = [refreshPromise EXCEPT ![t].content = where[t]]
      /\ UNCHANGED <<where, changes, acts, active, interfaceMap, call, completionVars>>
  BY DEF RefreshRead
<1>2. where[t] \in Listing BY DEF ReaderInv, TypeOK, Listing
<1>3. TypeOK' BY <1>1, <1>2 DEF ReaderInv, TypeOK, completionVars
<1>4. \A u \in Targets : /\ refreshPromise'[u].running = refreshPromise[u].running
                         /\ refreshPromise'[u].absent = refreshPromise[u].absent
                         /\ refreshPromise'[u].content = IF u = t THEN where[t] ELSE refreshPromise[u].content
  BY <1>1 DEF ReaderInv, TypeOK
<1>5. \A u \in Targets : RefreshFits(u)' BY <1>1, <1>4 DEF ReaderInv, RefreshFits
<1>6. ASSUME NEW c \in Callers PROVE Fit(call'[c]) /\ JoinFits(c)'
  <2>1. Fit(call[c]) /\ JoinFits(c) /\ call' = call BY <1>1 DEF ReaderInv
  <2>2. call[c].place = "join" => call[c].target \in Targets BY <2>1 DEF Fit
  <2> QED BY <1>4, <2>1, <2>2 DEF JoinFits
<1> QED BY <1>3, <1>5, <1>6 DEF ReaderInv

\* A refresh ends: those who shared it go on, the others are not concerned.
LEMMA RefreshEndKeeps ==
    ASSUME ReaderInv, NEW t \in Targets, NEW after,
           \A c \in Joined(t) : Fit(after[c]) /\ after[c].place # "join",
           refreshPromise' = [refreshPromise EXCEPT ![t] = NoRefresh],
           call' = [c \in Callers |-> IF c \in Joined(t) THEN after[c] ELSE call[c]],
           interfaceMap' \in [Targets -> Listing],
           UNCHANGED <<where, changes, acts, active, completionVars>>
    PROVE  ReaderInv'
<1>1. NoRefresh \in [running: BOOLEAN, content: Listing, absent: BOOLEAN] /\ ~NoRefresh.running
  BY DEF NoRefresh, Listing
<1>2. \A u \in Targets : refreshPromise'[u] = IF u = t THEN NoRefresh ELSE refreshPromise[u]
  BY DEF ReaderInv, TypeOK
<1>3. \A u \in Targets : RefreshFits(u)' BY <1>1, <1>2 DEF ReaderInv, RefreshFits
<1>4. ASSUME NEW c \in Callers PROVE Fit(call'[c]) /\ JoinFits(c)' /\ call'[c] \in Progress
  <2>1. CASE c \in Joined(t)
    <3>1. call'[c] = after[c] BY <2>1
    <3> QED BY <2>1, <3>1 DEF JoinFits, Fit
  <2>2. CASE c \notin Joined(t)
    <3>1. call'[c] = call[c] /\ Fit(call[c]) /\ JoinFits(c) BY <2>2 DEF ReaderInv
    <3>2. call[c].place = "join" => call[c].target \in Targets /\ call[c].target # t BY <2>2, <3>1 DEF Fit, Joined
    <3> QED BY <1>2, <3>1, <3>2 DEF JoinFits, Fit
  <2> QED BY <2>1, <2>2
<1>5. call' \in [Callers -> Progress] BY <1>4
<1>6. TypeOK' BY <1>1, <1>5 DEF ReaderInv, TypeOK, completionVars
<1> QED BY <1>3, <1>4, <1>6 DEF ReaderInv

LEMMA RefreshDoneKeeps ==
    ASSUME ReaderInv, NEW t \in Targets, RefreshDone(t)
    PROVE  ReaderInv'
<1>1. PICK list \in Listing : list = refreshPromise[t].content BY DEF ReaderInv, TypeOK
<1> DEFINE after == [c \in Joined(t) |-> Looked(call[c], list)]
<1>2. /\ refreshPromise[t].running /\ list # Unread
      /\ interfaceMap' = [interfaceMap EXCEPT ![t] = list]
      /\ refreshPromise' = [refreshPromise EXCEPT ![t] = NoRefresh]
      /\ call' = [c \in Callers |-> IF c \notin Joined(t) THEN call[c] ELSE after[c]]
      /\ UNCHANGED <<where, changes, acts, active, completionVars>>
  BY <1>1 DEF RefreshDone
<1>3. call' = [c \in Callers |-> IF c \in Joined(t) THEN after[c] ELSE call[c]] BY <1>2
<1>4. ASSUME NEW c \in Joined(t) PROVE Fit(after[c]) /\ after[c].place # "join"
  <2>1. c \in Callers /\ Fit(call[c]) /\ JoinFits(c) /\ call[c].place = "join" /\ call[c].target = t
    BY DEF Joined, ReaderInv
  <2>2. list = None => call[c].absent BY <1>1, <1>2, <2>1 DEF ReaderInv, RefreshFits, JoinFits
  <2>3. Fit(Looked(call[c], list)) /\ Looked(call[c], list).place \in {"ask", "ok", "failed", "notFound"}
    BY <1>2, <2>1, <2>2, LookedFits
  <2> QED BY <2>3
<1>5. interfaceMap' \in [Targets -> Listing] BY <1>2 DEF ReaderInv, TypeOK
<1> HIDE DEF after
<1> QED BY <1>2, <1>3, <1>4, <1>5, RefreshEndKeeps

LEMMA RefreshFailsKeeps ==
    ASSUME ReaderInv, NEW t \in Targets, RefreshFails(t)
    PROVE  ReaderInv'
<1> DEFINE after == [c \in Joined(t) |-> Fails(call[c])]
<1>1. /\ refreshPromise' = [refreshPromise EXCEPT ![t] = NoRefresh]
      /\ call' = [c \in Callers |-> IF c \in Joined(t) THEN after[c] ELSE call[c]]
      /\ UNCHANGED <<where, changes, acts, active, interfaceMap, completionVars>>
  BY DEF RefreshFails
<1>2. ASSUME NEW c \in Joined(t) PROVE Fit(after[c]) /\ after[c].place # "join"
  <2>1. Fit(call[c]) /\ call[c].place = "join" BY DEF Joined, ReaderInv
  <2> QED BY <2>1, EndsFit
<1>3. interfaceMap' \in [Targets -> Listing] BY <1>1 DEF ReaderInv, TypeOK
<1> HIDE DEF after
<1> QED BY <1>1, <1>2, <1>3, RefreshEndKeeps

-----------------------------------------------------------------------------
\* The device is paired, removed or moved: the refreshes notice.
LEMMA ChangesKeeps ==
    ASSUME ReaderInv, NEW t \in Targets, NEW i \in Interfaces \union {None}, CcuChanges(t, i)
    PROVE  ReaderInv'
<1>1. UNCHANGED <<acts, active, interfaceMap, completionVars>> BY DEF CcuChanges
<1>2. changes' \in 0 .. MaxChanges
  <2>1. changes \in 0 .. MaxChanges /\ MaxChanges \in Nat BY ReadersAssumption DEF ReaderInv, TypeOK
  <2>2. changes < MaxChanges /\ changes' = changes + 1 BY DEF CcuChanges
  <2> QED BY <2>1, <2>2
<1>3. PICK gone \in BOOLEAN : gone <=> i = None OBVIOUS
<1>4. ASSUME NEW u \in Targets
      PROVE  /\ refreshPromise'[u] \in [running: BOOLEAN, content: Listing, absent: BOOLEAN]
             /\ refreshPromise'[u].running = refreshPromise[u].running
             /\ refreshPromise'[u].content = refreshPromise[u].content
             /\ refreshPromise'[u].absent <=>
                  refreshPromise[u].absent \/ (u = t /\ refreshPromise[u].running /\ gone)
  <2> DEFINE b == refreshPromise[t].absent \/ (refreshPromise[t].running /\ i = None)
  <2>1. refreshPromise' = [refreshPromise EXCEPT ![t].absent = b] BY DEF CcuChanges
  <2>2. b \in BOOLEAN /\ refreshPromise \in [Targets -> [running: BOOLEAN, content: Listing, absent: BOOLEAN]]
    BY DEF ReaderInv, TypeOK
  <2>3. b <=> refreshPromise[t].absent \/ (refreshPromise[t].running /\ gone) BY <1>3
  <2> HIDE DEF b
  <2>4. CASE u = t
    <3>1. /\ refreshPromise'[u] \in [running: BOOLEAN, content: Listing, absent: BOOLEAN]
          /\ refreshPromise'[u].running = refreshPromise[u].running
          /\ refreshPromise'[u].content = refreshPromise[u].content /\ refreshPromise'[u].absent = b
      BY <2>1, <2>2, <2>4
    <3> QED BY <2>3, <2>4, <3>1
  <2>5. CASE u # t
    <3>1. refreshPromise'[u] = refreshPromise[u] BY <2>1, <2>2, <2>5
    <3> QED BY <2>2, <2>5, <3>1
  <2> QED BY <2>4, <2>5
<1>5. ASSUME NEW c \in Callers
      PROVE  /\ Fit(call'[c]) /\ call'[c] \in Progress /\ call'[c].place = call[c].place
             /\ call'[c].target = call[c].target /\ (call[c].absent => call'[c].absent)
             /\ c \in Joined(t) /\ gone => call'[c].absent
  <2>1. Fit(call[c]) /\ call[c] \in Progress BY DEF ReaderInv, Fit
  <2>2. CASE c \in Joined(t) /\ gone
    <3> DEFINE x == [call[c] EXCEPT !.absent = TRUE]
    <3>1. call'[c] = x BY <1>3, <2>2 DEF CcuChanges
    <3>2. /\ x \in Progress /\ x.place = call[c].place /\ x.lazy = call[c].lazy /\ x.target = call[c].target
          /\ x.todo = call[c].todo /\ x.sources = call[c].sources /\ x.absent
      BY <2>1 DEF Progress
    <3> HIDE DEF x
    <3>3. Fit(x) BY <2>1, <3>2 DEF Fit
    <3> QED BY <3>1, <3>2, <3>3
  <2>3. CASE ~(c \in Joined(t) /\ gone)
    <3>1. call'[c] = call[c] BY <1>3, <2>3 DEF CcuChanges
    <3> QED BY <2>1, <2>3, <3>1
  <2> QED BY <2>2, <2>3
<1>6. \A u \in Targets : RefreshFits(u)'
  <2>1. \A u \in Targets : where'[u] = IF u = t THEN i ELSE where[u] BY DEF ReaderInv, TypeOK, CcuChanges
  <2>2. TAKE u \in Targets
  <2>3. RefreshFits(u) BY DEF ReaderInv
  <2> QED BY <1>3, <1>4, <2>1, <2>3 DEF RefreshFits
<1>7. ASSUME NEW c \in Callers PROVE JoinFits(c)'
  <2>1. Fit(call[c]) /\ JoinFits(c) BY DEF ReaderInv
  <2>2. SUFFICES ASSUME call[c].place = "join" PROVE JoinFits(c)' BY <1>5 DEF JoinFits
  <2>3. PICK u \in Targets : u = call[c].target BY <2>1, <2>2 DEF Fit
  <2>4. u = t => c \in Joined(t) BY <2>2, <2>3 DEF Joined
  <2>5. refreshPromise[u].running /\ (refreshPromise[u].absent => call[c].absent) BY <2>1, <2>2, <2>3 DEF JoinFits
  <2>6. refreshPromise'[u].running /\ (refreshPromise'[u].absent => call'[c].absent)
    BY <1>4, <1>5, <2>4, <2>5
  <2>7. call'[c].target = u BY <1>5, <2>3
  <2> QED BY <2>6, <2>7 DEF JoinFits
<1>8. TypeOK'
  <2>1. where' \in [Targets -> Interfaces \union {None}] BY DEF ReaderInv, TypeOK, CcuChanges
  <2>2. call' \in [Callers -> Progress]
    <3>1. call' = [c \in Callers |-> call'[c]] BY DEF CcuChanges
    <3> QED BY <1>5, <3>1
  <2>3. refreshPromise' \in [Targets -> [running: BOOLEAN, content: Listing, absent: BOOLEAN]]
    <3>1. refreshPromise' = [u \in Targets |-> refreshPromise'[u]] BY DEF ReaderInv, TypeOK, CcuChanges
    <3> QED BY <1>4, <3>1
  <2> QED BY <1>1, <1>2, <2>1, <2>2, <2>3 DEF ReaderInv, TypeOK, completionVars
<1> QED BY <1>5, <1>6, <1>7, <1>8 DEF ReaderInv

LEMMA UseCcuKeeps ==
    ASSUME ReaderInv, NEW t \in Targets, UseCcu(t)
    PROVE  ReaderInv'
<1>1. /\ acts < MaxActs /\ acts' = acts + 1 /\ active' = t
      /\ UNCHANGED <<where, changes, interfaceMap, refreshPromise, call, completionVars>>
  BY DEF UseCcu, Acts
<1>2. acts' \in 0 .. MaxActs
  <2>1. acts \in 0 .. MaxActs /\ MaxActs \in Nat BY ReadersAssumption DEF ReaderInv, TypeOK
  <2> QED BY <1>1, <2>1
<1>3. TypeOK' BY <1>1, <1>2 DEF ReaderInv, TypeOK, completionVars
<1>4. \A u \in Targets : RefreshFits(u)' BY <1>1 DEF ReaderInv, RefreshFits
<1>5. \A c \in Callers : JoinFits(c)' BY <1>1 DEF ReaderInv, JoinFits
<1> QED BY <1>1, <1>3, <1>4, <1>5 DEF ReaderInv

-----------------------------------------------------------------------------
\* The completion cache.
LEMMA LoadingTyped ==
    Loading \in [age: 0 .. CACHE_MS, loaded: BOOLEAN] /\ Loading.age = 0 /\ ~Loading.loaded /\ Loading # None
<1>1. CACHE_MS \in Nat /\ None \notin [age: Nat, loaded: BOOLEAN] BY ReadersAssumption
<1>2. Loading \in [age: Nat, loaded: BOOLEAN] BY DEF Loading
<1>3. 0 \in 0 .. CACHE_MS BY <1>1
<1> QED BY <1>1, <1>2, <1>3 DEF Loading

\* What an entry that is not None is.
LEMMA EntryTyped ==
    ASSUME ReaderInv, entry # None
    PROVE  entry \in [age: 0 .. CACHE_MS, loaded: BOOLEAN] /\ entry.age \in Nat /\ CACHE_MS \in Nat
BY ReadersAssumption DEF ReaderInv, TypeOK

LEMMA CompletionKeeps ==
    ASSUME ReaderInv, Typed \/ Loaded \/ LoadFails \/ LateLoaded \/ TimePasses
    PROVE  ReaderInv'
<1>1. UNCHANGED <<where, changes, readerVars>> BY DEF Typed, Loaded, LoadFails, LateLoaded, TimePasses
<1>2. acts' \in 0 .. MaxActs
  <2>1. acts \in 0 .. MaxActs /\ MaxActs \in Nat BY ReadersAssumption DEF ReaderInv, TypeOK
  <2>2. acts' = acts \/ (acts < MaxActs /\ acts' = acts + 1)
    BY DEF Typed, Loaded, LoadFails, LateLoaded, TimePasses, Acts
  <2> QED BY <2>1, <2>2
<1>3. late' \in Nat
  <2>1. late \in Nat BY DEF ReaderInv, TypeOK
  <2>2. late' = late \/ late' = late + 1 \/ (late > 0 /\ late' = late - 1)
    BY DEF Typed, Loaded, LoadFails, LateLoaded, TimePasses, completionVars
  <2> QED BY <2>1, <2>2
<1> DEFINE Entries == [age: 0 .. CACHE_MS, loaded: BOOLEAN] \union {None}
<1>9. last' \in 0 .. CACHE_MS /\ failed' \in BOOLEAN
  <2>1. last \in 0 .. CACHE_MS /\ failed \in BOOLEAN /\ CACHE_MS \in Nat
    BY ReadersAssumption DEF ReaderInv, TypeOK
  <2>2. \/ last' = last \/ last' = 0
        \/ last < CACHE_MS /\ last' = last + 1
    BY DEF Typed, Loaded, LoadFails, LateLoaded, TimePasses, completionVars
  <2>3. failed' = failed \/ failed' = TRUE \/ failed' = FALSE
    BY DEF Typed, Loaded, LoadFails, LateLoaded, TimePasses, completionVars
  <2>4. failed' \in BOOLEAN BY <2>1, <2>3
  <2> QED BY <2>1, <2>2, <2>4
<1>4. entry' \in Entries
  <2>1. entry \in Entries BY DEF ReaderInv, TypeOK
  <2>2. CASE Typed BY <2>1, <2>2, LoadingTyped DEF Typed, completionVars
  <2>3. CASE Loaded
    <3>1. entry # None /\ entry' = [entry EXCEPT !.loaded = TRUE] BY <2>3 DEF Loaded
    <3> QED BY <3>1, EntryTyped
  <2>4. CASE LoadFails BY <2>4 DEF LoadFails
  <2>5. CASE LateLoaded BY <2>1, <2>5 DEF LateLoaded
  <2>6. CASE TimePasses
    <3>1. entry' = IF entry = None THEN None ELSE [entry EXCEPT !.age = Older(entry.age)]
      BY <2>6 DEF TimePasses
    <3>2. CASE entry = None BY <3>1, <3>2
    <3>3. CASE entry # None
      <4>1. Older(entry.age) \in 0 .. CACHE_MS BY <3>3, EntryTyped DEF Older
      <4> QED BY <3>1, <3>3, <4>1, EntryTyped
    <3> QED BY <3>2, <3>3
  <2> QED BY <2>2, <2>3, <2>4, <2>5, <2>6
<1>5. TypeOK' BY <1>1, <1>2, <1>3, <1>4, <1>9 DEF ReaderInv, TypeOK, readerVars
<1>6. \A u \in Targets : RefreshFits(u)' BY <1>1 DEF ReaderInv, RefreshFits, readerVars
<1>7. \A c \in Callers : JoinFits(c)' /\ Fit(call'[c]) BY <1>1 DEF ReaderInv, JoinFits, readerVars
<1> QED BY <1>5, <1>6, <1>7 DEF ReaderInv

-----------------------------------------------------------------------------
LEMMA InitOfReaders == ASSUME Init PROVE ReaderInv
<1>1. Idle \in Progress /\ Fit(Idle) /\ Idle.place = "idle" BY IdleFits DEF Fit
<1>2. NoRefresh \in [running: BOOLEAN, content: Listing, absent: BOOLEAN] /\ ~NoRefresh.running
  BY DEF NoRefresh, Listing
<1>3. 0 \in 0 .. MaxChanges /\ 0 \in 0 .. MaxActs BY ReadersAssumption
<1>7. 0 \in Nat /\ CACHE_MS \in 0 .. CACHE_MS BY ReadersAssumption
<1>4. TypeOK BY <1>1, <1>2, <1>3, <1>7, ReadersAssumption DEF Init, TypeOK, Listing
<1>5. \A u \in Targets : RefreshFits(u) BY <1>2 DEF Init, RefreshFits
<1>6. \A c \in Callers : Fit(call[c]) /\ JoinFits(c) BY <1>1 DEF Init, JoinFits
<1> QED BY <1>4, <1>5, <1>6 DEF ReaderInv

LEMMA StepKeeps == ASSUME ReaderInv, [Next]_vars PROVE ReaderInv'
<1>1. CASE UNCHANGED vars
  <2>1. TypeOK' BY <1>1 DEF ReaderInv, TypeOK, vars, readerVars, completionVars
  <2>2. \A u \in Targets : RefreshFits(u)' BY <1>1 DEF ReaderInv, RefreshFits, vars, readerVars
  <2>3. \A c \in Callers : JoinFits(c)' /\ Fit(call'[c]) BY <1>1 DEF ReaderInv, JoinFits, vars, readerVars
  <2> QED BY <2>1, <2>2, <2>3 DEF ReaderInv
<1>2. ASSUME NEW c \in Callers, Request(c) PROVE ReaderInv'
  BY <1>2, BeginsKeeps, ResolveKeeps, JoinKeeps, CallKeeps, CallFailsKeeps DEF Request
<1>3. ASSUME NEW t \in Targets, RefreshRead(t) \/ RefreshDone(t) \/ RefreshFails(t) \/ UseCcu(t) PROVE ReaderInv'
  BY <1>3, RefreshReadKeeps, RefreshDoneKeeps, RefreshFailsKeeps, UseCcuKeeps
<1>4. ASSUME NEW t \in Targets, NEW i \in Interfaces \union {None}, CcuChanges(t, i) PROVE ReaderInv'
  BY <1>4, ChangesKeeps
<1>5. CASE Typed \/ Loaded \/ LoadFails \/ LateLoaded \/ TimePasses BY <1>5, CompletionKeeps
<1> QED BY <1>1, <1>2, <1>3, <1>4, <1>5 DEF Next

(* The inductive invariant: every request fits the place it is at, and a    *)
(* refresh and those who wait for it remember every absence since it began. *)
THEOREM SpecReaders == Spec => []ReaderInv
<1>1. Init => ReaderInv BY InitOfReaders
<1>2. ReaderInv /\ [Next]_vars => ReaderInv' BY StepKeeps
<1> QED BY <1>1, <1>2, PTL DEF Spec

(* Every variable keeps its type.                                           *)
THEOREM TypesKept == Spec => []TypeOK
<1>1. ReaderInv => TypeOK BY DEF ReaderInv
<1> QED BY <1>1, SpecReaders, PTL

(* The resolver never reports an address as unknown from a list older than  *)
(* the question, whoever began the refresh.                                 *)
THEOREM UnknownIsHonest == Spec => []NotFoundIsHonest
<1>1. ReaderInv => NotFoundIsHonest BY DEF ReaderInv, Fit, NotFoundIsHonest
<1> QED BY <1>1, SpecReaders, PTL

(* A tool's answer comes from the one target it was called for.             *)
THEOREM OneTargetEach == Spec => []AnswersOfOneTarget
<1>1. ReaderInv => AnswersOfOneTarget BY DEF ReaderInv, Fit, AnswersOfOneTarget
<1> QED BY <1>1, SpecReaders, PTL

(* The entry is as old as the last load, and it goes only when one fails.   *)
CacheInv ==
    /\ entry # None => entry.age = last
    /\ entry = None => last = CACHE_MS \/ failed

LEMMA CompletionSteps ==
    ASSUME [Next]_vars
    PROVE  Typed \/ Loaded \/ LoadFails \/ LateLoaded \/ TimePasses \/ UNCHANGED completionVars
BY DEF Next, Request, vars, ToolCalled, ResourceRead, resolveInterface, refreshDeviceList, CallSent, CallRead,
       CallAnswered, Returned, CallFails, RefreshRead, RefreshDone, RefreshFails, UseCcu, CcuChanges

LEMMA CacheStep == ReaderInv /\ CacheInv /\ [Next]_vars => CacheInv'
<1> SUFFICES ASSUME ReaderInv, CacheInv, [Next]_vars PROVE CacheInv' OBVIOUS
<1>1. CASE UNCHANGED completionVars BY <1>1 DEF CacheInv, completionVars
<1>2. CASE Typed
  <2>1. CASE entry' = Loading /\ last' = 0 BY <2>1, LoadingTyped DEF CacheInv
  <2> QED BY <1>1, <1>2, <2>1 DEF Typed
<1>3. CASE Loaded
  <2>1. entry # None /\ entry' = [entry EXCEPT !.loaded = TRUE] /\ last' = last BY <1>3 DEF Loaded
  <2>2. entry'.age = last' /\ entry' \in [age: 0 .. CACHE_MS, loaded: BOOLEAN]
    BY <2>1, EntryTyped DEF CacheInv
  <2>3. entry' # None BY <2>2, ReadersAssumption
  <2> QED BY <2>2, <2>3 DEF CacheInv
<1>4. CASE LoadFails BY <1>4 DEF LoadFails, CacheInv
<1>5. CASE LateLoaded BY <1>5 DEF LateLoaded, CacheInv
<1>6. CASE TimePasses
  <2>1. last < CACHE_MS /\ last' = last + 1 /\ failed' = failed BY <1>6 DEF TimePasses
  <2>2. last \in Nat /\ CACHE_MS \in Nat BY ReadersAssumption DEF ReaderInv, TypeOK
  <2>3. CASE entry = None BY <1>6, <2>1, <2>2, <2>3 DEF TimePasses, CacheInv
  <2>4. CASE entry # None
    <3>1. entry' = [entry EXCEPT !.age = entry.age + 1]
      BY <1>6, <2>1, <2>2, <2>4, EntryTyped DEF TimePasses, CacheInv, Older
    <3>2. entry'.age = last' /\ entry' \in [age: Nat, loaded: BOOLEAN] BY <2>1, <2>4, <3>1, EntryTyped DEF CacheInv
    <3>3. entry' # None BY <3>2, ReadersAssumption
    <3> QED BY <3>2, <3>3 DEF CacheInv
  <2> QED BY <2>3, <2>4
<1> QED BY <1>1, <1>2, <1>3, <1>4, <1>5, <1>6, CompletionSteps

LEMMA BeginsStep ==
    ASSUME ReaderInv, CacheInv, [Next]_vars, Begins
    PROVE  last = CACHE_MS \/ failed
<1>1. late \in Nat /\ last \in 0 .. CACHE_MS /\ CACHE_MS \in Nat BY ReadersAssumption DEF ReaderInv, TypeOK
<1>2. entry' = Loading /\ (entry # Loading \/ late' > late) BY DEF Begins
<1>3. CASE UNCHANGED completionVars BY <1>1, <1>2, <1>3 DEF completionVars
<1>4. CASE Typed
  <2>1. CASE ~Kept
    <3>1. entry # None => last >= CACHE_MS BY <1>1, <2>1 DEF Kept, CacheInv
    <3> QED BY <1>1, <3>1 DEF CacheInv
  <2> QED BY <1>3, <1>4, <2>1 DEF Typed
<1>5. CASE Loaded
  <2>1. entry'.loaded BY <1>5, EntryTyped DEF Loaded
  <2> QED BY <1>2, <2>1, LoadingTyped
<1>6. CASE LoadFails BY <1>2, <1>6, LoadingTyped DEF LoadFails
<1>7. CASE LateLoaded BY <1>1, <1>2, <1>7 DEF LateLoaded
<1>8. CASE TimePasses
  <2>1. entry # None BY <1>2, <1>8, LoadingTyped DEF TimePasses
  <2>2. entry'.age = Older(entry.age) /\ entry.age = last /\ last < CACHE_MS /\ entry.age \in Nat
    BY <1>8, <2>1, EntryTyped DEF TimePasses, CacheInv
  <2> QED BY <1>1, <1>2, <2>2, LoadingTyped DEF Older
<1> QED BY <1>3, <1>4, <1>5, <1>6, <1>7, <1>8, CompletionSteps

(* Typing on begins a load a minute, and at most one more for each load     *)
(* that fails, whichever entry the failed one deletes.                      *)
THEOREM FailuresCostOneLoad == Spec => FailureCostsOneLoad
<1>1. Init => CacheInv BY DEF Init, CacheInv
<1>2. ReaderInv /\ CacheInv /\ [Next]_vars => [Begins => last = CACHE_MS \/ failed]_vars
  BY BeginsStep
<1> QED BY <1>1, <1>2, CacheStep, SpecReaders, PTL DEF Spec, FailureCostsOneLoad

=============================================================================
