------------------------------ MODULE Readers ------------------------------
(***************************************************************************)
(* What only reads: the read, discovery and diagnostics tools, the         *)
(* resources, the resolver they share per target, and the completion of    *)
(* prompt arguments, beside use_ccu and the changes made on the CCUs.      *)
(*                                                                         *)
(* A tool is the sequence of calls it makes; a call includes its token and *)
(* its retries.  Of the data only one device is followed: which interface  *)
(* its CCU lists it under.                                                 *)
(***************************************************************************)
EXTENDS Naturals, Sequences, FiniteSets

CONSTANTS
    Targets, Default,
    Callers,      \* clients' requests that may be under way at once
    Interfaces,   \* the radio interfaces a device may be listed under
    None,         \* not listed
    Unread,       \* not known yet
    CACHE_MS,     \* how long completions are kept
    MaxActs,      \* bound on requests, keystrokes and switches
    MaxChanges    \* bound on changes on the CCUs

ASSUME ReadersAssumption ==
    /\ Default \in Targets /\ {None, Unread} \intersect Interfaces = {} /\ None # Unread
    /\ IsFiniteSet(Interfaces) /\ None \notin [age: Nat, loaded: BOOLEAN]
    /\ CACHE_MS \in Nat \ {0} /\ MaxActs \in Nat /\ MaxChanges \in Nat

VARIABLES
    where,     \* target -> the interface its CCU lists the device under
    changes, acts,
    active,    \* the target of the selection
    interfaceMap,    \* target -> the resolver's last list, or Unread
    refreshPromise,  \* target -> the shared refresh under way
    call,      \* caller -> its request
    entry,     \* the completion cache: age and state of the kept load, or None
    late,      \* loads under way that the cache no longer holds
    last,      \* history: how long ago the last load began, CACHE_MS at most
    failed     \* history: a load has failed since the last one began

readerVars == <<active, interfaceMap, refreshPromise, call>>
completionVars == <<entry, late, last, failed>>
vars == <<where, changes, acts, readerVars, completionVars>>

-----------------------------------------------------------------------------
(* The tools: the calls in their order, and whether the tool goes on        *)
(* without the answer of a call that failed.  Only the list of devices and  *)
(* the resolver's answer are told apart from the others.                    *)

Kind(method) == IF method \in {"resolveInterface", "Device.listAllDetail"} THEN method ELSE "other"

Call(method, optional, probe) == <<[method |-> Kind(method), optional |-> optional, probe |-> probe]>>
Fatal(method) == Call(method, FALSE, FALSE)
Optional(method) == Call(method, TRUE, FALSE)
Each(n, method) == [i \in 1 .. n |-> Optional(method)[1]]
If(b, calls) == IF b THEN calls ELSE <<>>

Resolve == Fatal("resolveInterface")
Devices == Fatal("Device.listAllDetail")
ListInterfaces == Fatal("Interface.listInterfaces")
N == Cardinality(Interfaces)

get_value(override) == If(~override, Resolve) \o Fatal("Interface.getValue")
get_values == Fatal("ReGa.runScript")
get_paramset(override) == If(~override, Resolve) \o Fatal("Interface.getParamset")
list_devices(room, function) ==
    Devices \o If(room, Fatal("Room.getAll")) \o If(function, Fatal("Subsection.getAll"))
list_interfaces == ListInterfaces
list_rooms == Fatal("Room.getAll")
list_functions == Fatal("Subsection.getAll")
list_programs == Fatal("Program.getAll")
list_system_variables == Fatal("SysVar.getAll")
list_links == Devices \o ListInterfaces \o Each(N, "Interface.getLinks")
get_service_messages == Fatal("ReGa.runScript")
get_system_info ==
    Call("CCU.getVersion", TRUE, TRUE) \o Call("CCU.getSerial", TRUE, TRUE)
        \o Call("CCU.getAddress", TRUE, TRUE) \o Call("CCU.getHmIPAddress", TRUE, TRUE)
get_rssi ==
    Devices \o ListInterfaces \o Each(N, "Interface.rssiInfo")
        \o Optional("Interface.getParamset") \o Optional("Interface.listBidcosInterfaces")

Tools ==
    {get_value(b) : b \in BOOLEAN} \union {get_paramset(b) : b \in BOOLEAN}
      \union {list_devices(b, c) : b, c \in BOOLEAN}
      \union {get_values, list_interfaces, list_rooms, list_functions, list_programs,
              list_system_variables, list_links, get_service_messages, get_system_info, get_rssi}

(* The resources: the lists, and the system resource.                       *)
Resources == {Devices, list_rooms, list_functions, list_programs, list_system_variables, list_interfaces,
              Optional("CCU.getVersion") \o Optional("CCU.getSerial")}

-----------------------------------------------------------------------------
Idle == [place |-> "idle", lazy |-> FALSE, target |-> None, todo |-> <<>>,
         content |-> Unread, sources |-> {}, noSessionErr |-> FALSE, absent |-> FALSE]
NoRefresh == [running |-> FALSE, content |-> Unread, absent |-> FALSE]

Acts == acts < MaxActs /\ acts' = acts + 1

Init ==
    /\ where \in [Targets -> Interfaces \union {None}] /\ changes = 0 /\ acts = 0
    /\ active = Default /\ interfaceMap = [t \in Targets |-> Unread]
    /\ refreshPromise = [t \in Targets |-> NoRefresh]
    /\ call = [c \in Callers |-> Idle]
    /\ entry = None /\ late = 0 /\ last = CACHE_MS /\ failed = FALSE

(* A tool fixes its target when it is called: the one it names, or the      *)
(* active one.  A resource asks for the active one at each call.            *)
ToolCalled(c, tool, t) ==
    /\ Acts /\ call[c].place = "idle"
    /\ call' = [call EXCEPT ![c] = [Idle EXCEPT !.place = "ask", !.target = t, !.todo = tool]]
    /\ UNCHANGED <<where, changes, active, interfaceMap, refreshPromise, completionVars>>

ResourceRead(c, resource) ==
    /\ Acts /\ call[c].place = "idle"
    /\ call' = [call EXCEPT ![c] = [Idle EXCEPT !.place = "ask", !.lazy = TRUE, !.todo = resource]]
    /\ UNCHANGED <<where, changes, active, interfaceMap, refreshPromise, completionVars>>

SessionLazily(c) == active
SessionOf(c) == IF call[c].lazy THEN active ELSE call[c].target

Asks(c, method) == call[c].place = "ask" /\ Head(call[c].todo).method = method

(* On to the next call, or the answer.                                      *)
Onward(r) == IF Len(r.todo) > 1 THEN [r EXCEPT !.place = "ask", !.todo = Tail(@), !.content = Unread]
             ELSE [r EXCEPT !.place = IF r.noSessionErr THEN "failed" ELSE "ok", !.todo = <<>>]

NotFound(r) == [r EXCEPT !.place = "notFound", !.todo = <<>>]
Fails(r) == [r EXCEPT !.place = "failed", !.todo = <<>>]

-----------------------------------------------------------------------------
(* Resolving the interface of an address.                                   *)

AnyListWillDo(t) == interfaceMap[t] # Unread
Mapped(t) == interfaceMap[t] \in Interfaces

Looked(r, list) == IF list \in Interfaces THEN Onward(r) ELSE NotFound(r)

resolveInterface(c) ==
    LET t == SessionOf(c) IN
    /\ Asks(c, "resolveInterface") /\ (Mapped(t) \/ ~refreshPromise[t].running)
    /\ IF Mapped(t)
       THEN /\ call' = [call EXCEPT ![c] = Looked(@, interfaceMap[t])]
            /\ UNCHANGED refreshPromise
       ELSE /\ call' = [call EXCEPT ![c].place = "join", ![c].absent = (where[t] = None)]
            /\ refreshPromise' = [refreshPromise EXCEPT ![t] =
                  [NoRefresh EXCEPT !.running = TRUE, !.absent = (where[t] = None)]]
    /\ UNCHANGED <<where, changes, acts, active, interfaceMap, completionVars>>

(* A concurrent resolution shares the refresh, which began before it.       *)
refreshDeviceList(c) ==
    LET t == SessionOf(c) IN
    /\ Asks(c, "resolveInterface") /\ ~Mapped(t) /\ refreshPromise[t].running
    /\ call' = [call EXCEPT ![c].place = "join", ![c].absent = refreshPromise[t].absent]
    /\ UNCHANGED <<where, changes, acts, active, interfaceMap, refreshPromise, completionVars>>

RefreshRead(t) ==
    /\ refreshPromise[t].running /\ refreshPromise[t].content = Unread
    /\ refreshPromise' = [refreshPromise EXCEPT ![t].content = where[t]]
    /\ UNCHANGED <<where, changes, acts, active, interfaceMap, call, completionVars>>

Joined(t) == {c \in Callers : call[c].place = "join" /\ call[c].target = t}

RefreshDone(t) ==
    LET list == refreshPromise[t].content IN
    /\ refreshPromise[t].running /\ list # Unread
    /\ interfaceMap' = [interfaceMap EXCEPT ![t] = list]
    /\ refreshPromise' = [refreshPromise EXCEPT ![t] = NoRefresh]
    /\ call' = [c \in Callers |-> IF c \notin Joined(t) THEN call[c]
                                 ELSE Looked(call[c], list)]
    /\ UNCHANGED <<where, changes, acts, active, completionVars>>

RefreshFails(t) ==
    /\ refreshPromise[t].running
    /\ refreshPromise' = [refreshPromise EXCEPT ![t] = NoRefresh]
    /\ call' = [c \in Callers |-> IF c \in Joined(t) THEN Fails(call[c]) ELSE call[c]]
    /\ UNCHANGED <<where, changes, acts, active, interfaceMap, completionVars>>

-----------------------------------------------------------------------------
(* The other calls.  The tools that list the devices hand the list to the   *)
(* resolver, whatever it has learnt meanwhile; the resource does not.       *)

CallSent(c) ==
    /\ call[c].place = "ask" /\ ~Asks(c, "resolveInterface")
    /\ call' = [call EXCEPT ![c].place = "wait", ![c].sources = @ \union {SessionOf(c)}]
    /\ UNCHANGED <<where, changes, acts, active, interfaceMap, refreshPromise, completionVars>>

Lists(c) == Head(call[c].todo).method = "Device.listAllDetail" /\ ~call[c].lazy

CallRead(c) ==
    /\ call[c].place = "wait" /\ Lists(c) /\ call[c].content = Unread
    /\ call' = [call EXCEPT ![c].content = where[call[c].target]]
    /\ UNCHANGED <<where, changes, acts, active, interfaceMap, refreshPromise, completionVars>>

updateDeviceList(t, list) == [interfaceMap EXCEPT ![t] = list]

CallAnswered(c) ==
    /\ call[c].place = "wait" /\ call' = [call EXCEPT ![c] = Onward(@)]
    /\ IF Lists(c)
       THEN /\ call[c].content # Unread
            /\ interfaceMap' = updateDeviceList(call[c].target, call[c].content)
       ELSE UNCHANGED interfaceMap
    /\ UNCHANGED <<where, changes, acts, active, refreshPromise, completionVars>>

(* The CCU refuses the call, cannot be reached, or does not know the room.  *)
(* get_system_info fails in the end if there was no session then.           *)
CallFails(c, loggedIn) ==
    LET step == Head(call[c].todo)
        r == [call[c] EXCEPT !.noSessionErr = @ \/ (step.probe /\ ~loggedIn)]
    IN
    /\ call[c].place = "wait"
    /\ call' = [call EXCEPT ![c] = IF step.optional THEN Onward(r) ELSE Fails(r)]
    /\ UNCHANGED <<where, changes, acts, active, interfaceMap, refreshPromise, completionVars>>

Returned(c) ==
    /\ call[c].place \in {"ok", "failed", "notFound"} /\ call' = [call EXCEPT ![c] = Idle]
    /\ UNCHANGED <<where, changes, acts, active, interfaceMap, refreshPromise, completionVars>>

UseCcu(t) ==
    /\ Acts /\ active # t /\ active' = t
    /\ UNCHANGED <<where, changes, interfaceMap, refreshPromise, call, completionVars>>

-----------------------------------------------------------------------------
(* The completion of a prompt argument, of one CCU list.                    *)

Loading == [age |-> 0, loaded |-> FALSE]

Kept == entry # None /\ entry.age < CACHE_MS

Typed ==
    /\ Acts
    /\ IF Kept THEN UNCHANGED completionVars
       ELSE /\ entry' = Loading
            /\ late' = IF entry # None /\ ~entry.loaded THEN late + 1 ELSE late
            /\ last' = 0 /\ failed' = FALSE
    /\ UNCHANGED <<where, changes, readerVars>>

Loaded ==
    /\ entry # None /\ ~entry.loaded /\ entry' = [entry EXCEPT !.loaded = TRUE]
    /\ UNCHANGED <<where, changes, acts, readerVars, late, last, failed>>

(* A load that fails deletes the entry of its method: its own, or, when it  *)
(* is late, that of the load which replaced it.                             *)
LoadFails ==
    /\ entry' = None /\ failed' = TRUE
    /\ \/ entry # None /\ ~entry.loaded /\ UNCHANGED late
       \/ late > 0 /\ late' = IF entry # None /\ ~entry.loaded THEN late ELSE late - 1
    /\ UNCHANGED <<where, changes, acts, readerVars, last>>

LateLoaded ==
    /\ late > 0 /\ late' = late - 1
    /\ UNCHANGED <<where, changes, acts, readerVars, entry, last, failed>>

Older(age) == IF age < CACHE_MS THEN age + 1 ELSE age

TimePasses ==
    /\ last < CACHE_MS /\ last' = last + 1
    /\ entry' = IF entry = None THEN None ELSE [entry EXCEPT !.age = Older(@)]
    /\ UNCHANGED <<where, changes, acts, readerVars, late, failed>>

-----------------------------------------------------------------------------
(* The device is paired, removed, or moved.                                 *)
CcuChanges(t, i) ==
    /\ changes < MaxChanges /\ changes' = changes + 1
    /\ where[t] # i /\ where' = [where EXCEPT ![t] = i]
    /\ call' = [c \in Callers |-> IF c \in Joined(t) /\ i = None THEN [call[c] EXCEPT !.absent = TRUE] ELSE call[c]]
    /\ refreshPromise' = [refreshPromise EXCEPT ![t].absent = @ \/ (refreshPromise[t].running /\ i = None)]
    /\ UNCHANGED <<acts, active, interfaceMap, completionVars>>

Request(c) ==
    \/ \E tool \in Tools, t \in Targets : ToolCalled(c, tool, t)
    \/ \E resource \in Resources : ResourceRead(c, resource)
    \/ resolveInterface(c) \/ refreshDeviceList(c)
    \/ CallSent(c) \/ CallRead(c) \/ CallAnswered(c) \/ Returned(c)
    \/ \E loggedIn \in BOOLEAN : CallFails(c, loggedIn)

Next ==
    \/ \E c \in Callers : Request(c)
    \/ \E t \in Targets : RefreshRead(t) \/ RefreshDone(t) \/ RefreshFails(t) \/ UseCcu(t)
    \/ \E t \in Targets, i \in Interfaces \union {None} : CcuChanges(t, i)
    \/ Typed \/ Loaded \/ LoadFails \/ LateLoaded \/ TimePasses

Spec == Init /\ [][Next]_vars

-----------------------------------------------------------------------------
Step == [method: {"resolveInterface", "Device.listAllDetail", "other"}, optional: BOOLEAN, probe: BOOLEAN]
Listing == Interfaces \union {None, Unread}

Progress == [place: {"idle", "ask", "wait", "join", "ok", "failed", "notFound"}, lazy: BOOLEAN,
             target: Targets \union {None}, todo: Seq(Step), content: Listing, sources: SUBSET Targets,
             noSessionErr: BOOLEAN, absent: BOOLEAN]

TypeOK ==
    /\ where \in [Targets -> Interfaces \union {None}] /\ changes \in 0 .. MaxChanges
    /\ acts \in 0 .. MaxActs /\ active \in Targets
    /\ interfaceMap \in [Targets -> Listing] /\ call \in [Callers -> Progress]
    /\ refreshPromise \in [Targets -> [running: BOOLEAN, content: Listing, absent: BOOLEAN]]
    /\ entry \in [age: 0 .. CACHE_MS, loaded: BOOLEAN] \union {None} /\ late \in Nat
    /\ last \in 0 .. CACHE_MS /\ failed \in BOOLEAN

-----------------------------------------------------------------------------
(* What must hold.                                                          *)

(* An address is reported unknown only if its CCU did not list it at some   *)
(* time since the refresh that was awaited began: an old list never decides.*)
NotFoundIsHonest == \A c \in Callers : call[c].place = "notFound" => call[c].absent

(* Everything in a tool's answer comes from one target, the one it was      *)
(* called for, whatever use_ccu does between its calls.                     *)
AnswersOfOneTarget ==
    \A c \in Callers : call[c].place # "idle" /\ ~call[c].lazy => call[c].sources \subseteq {call[c].target}

(* A burst of typing costs one call, and each failure one more: a load      *)
(* begins only if none has begun in the last minute, or one has failed      *)
(* since, be it a late one that deletes the entry of another.               *)
(* That is a bound: nothing in the code promises it.                        *)
Begins == entry' = Loading /\ (entry # Loading \/ late' > late)
FailureCostsOneLoad == [][Begins => last = CACHE_MS \/ failed]_vars

=============================================================================
