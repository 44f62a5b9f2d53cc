--------------------------- MODULE DeviceTypeCache ---------------------------
(***************************************************************************)
(* cache/device-type-cache.ts: the schema cache of one target, its         *)
(* background warm-up, the live queries of describe_device_type, and the   *)
(* file that survives the process.                                         *)
(*                                                                         *)
(* A fetch asks the CCU for Requests paramset descriptions one after the   *)
(* other; it is the only thing that takes time besides listing devices and *)
(* saving.  Fetchers are the tool calls that own a live query and the      *)
(* workers of the warm-up.                                                 *)
(***************************************************************************)
EXTENDS Integers, Sequences, SequencesExt

CONSTANTS
    Types,       \* device types, all of them present on the CCU
    Callers,     \* calls of describe_device_type
    Workers,     \* WARM_CONCURRENCY workers of the warm-up
    None,        \* absent
    Foreign,     \* a cache file of another version, or one that does not parse
    Requests,    \* paramset descriptions per type
    TTL,         \* time for which a saved file counts as fresh
    IsDefault,   \* the target is the one warmed at start-up
    MaxTime,     \* bound on the clock
    MaxDisk,     \* bound on failed file operations
    MaxQuits     \* bound on the ends of the process

VARIABLES
    phase,       \* "load", "up" or, once shutdown() has begun, "exit"
    now,         \* Date.now()
    mem,         \* this.cache: type -> entry or None
    stale,       \* this.stale
    warming,     \* this.warming
    warmAt,      \* how far warm() is: "idle", "list", "work" or "save"
    todo,        \* entries of devicesByType that no worker has taken
    fetch,       \* fetcher -> its fetchChannels() in progress, or None
    inflight,    \* this.inflightQueries: type -> the caller that owns it
    awaits,      \* caller -> the owner of the query it awaits, or None
    saves,       \* the chain of saves behind this.savePromise
    tmp, file,   \* the temporary file and the cache file
    disk, quits

memory == <<phase, mem, stale, warming, warmAt, todo, fetch, inflight, awaits, saves>>
counts == <<disk, quits>>
vars == <<memory, now, tmp, file, counts>>

Time == 0 .. MaxTime
Fetchers == Callers \union Workers

(* A schema is known by the time at which the CCU was first asked for it.   *)
Entry == Time
Contents == [Types -> Entry \union {None}]
Snapshot == [types: Contents, stamp: Time]
Fetch == [type: Types, left: 1 .. Requests, entry: Entry]
Empty == [t \in Types |-> None]

Files == Snapshot \union {None, Foreign}

ASSUME CacheAssumption ==
    /\ Workers # {} /\ Callers \intersect Workers = {}
    /\ None \notin Types \union Callers \union Time \union Fetch
    /\ {None, Foreign} \intersect Snapshot = {}
    /\ Requests \in Nat \ {0, 1} \* VALUES and MASTER of each channel
    /\ MaxTime \in Nat /\ MaxDisk \in Nat /\ MaxQuits \in Nat

(* A save knows who awaits it, and its data once doSaveToDisk() has begun.  *)
Save == [owner: {"warm", "query", "exit"}, data: Snapshot \union {None}, at: {"wait", "write", "rename"}]

Entries(f) == IF f \in {None, Foreign} THEN Empty ELSE f.types
Known(contents) == {t \in Types : contents[t] # None}

Init ==
    /\ phase = "load" /\ now = 0
    /\ mem = Empty /\ stale = TRUE
    /\ warming = FALSE /\ warmAt = "idle" /\ todo = {}
    /\ fetch = [f \in Fetchers |-> None]
    /\ inflight = [t \in Types |-> None]
    /\ awaits = [c \in Callers |-> None]
    /\ saves = <<>> /\ tmp = None
    /\ file \in {None, Foreign} \union
                {[types |-> [t \in Types |-> 0], stamp |-> 0]}
    /\ disk = 0 /\ quits = 0

-----------------------------------------------------------------------------
(* Saving: each save begins when the one before it has ended, and takes its *)
(* data from memory then.                                                   *)

Begun(save, contents) ==
    [save EXCEPT !.data = [types |-> contents, stamp |-> now], !.at = "write"]

ChainedAtOnce(queue, save, contents) == Append(queue, Begun(save, contents))
Chained(queue, save, contents) ==
    Append(queue, IF queue = <<>> THEN Begun(save, contents) ELSE save)

Saving(owner, contents) ==
    Chained(saves, [owner |-> owner, data |-> None, at |-> "wait"], contents)

(* The chain without its i-th save; the next one begins.                     *)
Ended(i) ==
    LET rest == RemoveAt(saves, i) IN
    IF rest = <<>> \/ rest[1].at # "wait" THEN rest
    ELSE [rest EXCEPT ![1] = Begun(rest[1], mem)]

(* The save that ended was the one warm() awaits.                            *)
WarmSaved(i) == saves[i].owner = "warm" /\ warmAt = "save"

SaveEnds(i) ==
    /\ saves' = Ended(i)
    /\ stale' = (stale /\ ~WarmSaved(i))
    /\ warming' = (warming /\ ~WarmSaved(i))
    /\ warmAt' = IF WarmSaved(i) THEN "idle" ELSE warmAt
    /\ UNCHANGED <<phase, mem, todo, fetch, inflight, awaits, now, quits>>

WriteTmp(i) ==
    /\ saves[i].at = "write"
    /\ tmp' = saves[i].data
    /\ saves' = [saves EXCEPT ![i].at = "rename"]
    /\ UNCHANGED <<phase, mem, stale, warming, warmAt, todo, fetch, inflight, awaits, now, file, counts>>

RenameTmp(i) ==
    /\ saves[i].at = "rename"
    /\ file' = IF tmp = None THEN file ELSE tmp
    /\ tmp' = None
    /\ SaveEnds(i)
    /\ UNCHANGED disk

(* mkdir, write or rename fails: logged, the temporary file is removed.      *)
SaveFails(i) ==
    /\ saves[i].at # "wait" /\ disk < MaxDisk
    /\ disk' = disk + 1 /\ tmp' = None
    /\ SaveEnds(i)
    /\ UNCHANGED file

-----------------------------------------------------------------------------
(* Fetching one type.                                                       *)

NewFetch(t) == [type |-> t, left |-> Requests, entry |-> now]

AtLast(f) == fetch[f].left = 1

(* The outstanding request ends with a description, with "no such paramset", *)
(* or with an error that the same catch swallows, lost answers included: in  *)
(* each case the next request is sent, while the limiter lives.              *)
FetchNext(f) ==
    /\ fetch[f] # None /\ ~AtLast(f) /\ phase = "up"
    /\ fetch' = [fetch EXCEPT ![f].left = @ - 1]
    /\ UNCHANGED <<phase, mem, stale, warming, warmAt, todo, inflight, awaits, saves, now, tmp, file, counts>>

-----------------------------------------------------------------------------
(* Live queries.                                                            *)

NeverJoins(t) == FALSE
Joins(t) == inflight[t] # None

(* describe_device_type for a type that is not cached.                      *)
Ask(c, t) ==
    /\ phase # "load" /\ awaits[c] = None /\ mem[t] = None
    /\ IF Joins(t)
       THEN /\ awaits' = [awaits EXCEPT ![c] = inflight[t]]
            /\ UNCHANGED <<fetch, inflight>>
       ELSE /\ phase = "up" \* otherwise the limiter refuses at once
            /\ awaits' = [awaits EXCEPT ![c] = c]
            /\ fetch' = [fetch EXCEPT ![c] = NewFetch(t)]
            /\ inflight' = [inflight EXCEPT ![t] = c]
    /\ UNCHANGED <<phase, mem, stale, warming, warmAt, todo, saves, now, tmp, file, counts>>

Answered(c) == {d \in Callers : awaits[d] = c}

Forgotten(c) == [inflight EXCEPT ![fetch[c].type] = None]

(* finally: the query leaves the map, and all who share it go on.           *)
QueryEnds(c) ==
    /\ inflight' = Forgotten(c)
    /\ awaits' = [d \in Callers |-> IF d \in Answered(c) THEN None ELSE awaits[d]]
    /\ fetch' = [fetch EXCEPT ![c] = None]
    /\ UNCHANGED <<phase, stale, warming, warmAt, todo, now, tmp, file, disk, quits>>

QueryDone(c) ==
    /\ fetch[c] # None /\ AtLast(c)
    /\ mem' = [mem EXCEPT ![fetch[c].type] = fetch[c].entry]
    /\ saves' = Saving("query", mem')
    /\ QueryEnds(c)

(* The limiter refuses the next request: RATE_LIMITED, or shut down.        *)
QueryFails(c) ==
    /\ fetch[c] # None
    /\ QueryEnds(c)
    /\ UNCHANGED <<mem, saves>>

-----------------------------------------------------------------------------
(* Warming.                                                                 *)

MayAlwaysWarm == TRUE
MayWarm == ~warming

WarmStarts == MayWarm /\ warming' = TRUE /\ warmAt' = "list"

(* use_ccu warms a target it switches to when that one is stale.            *)
UseCcu ==
    /\ phase = "up" /\ stale /\ WarmStarts
    /\ UNCHANGED <<phase, mem, stale, todo, fetch, inflight, awaits, saves, now, tmp, file, counts>>

Idle(w) == fetch[w] = None

(* The workers that start on the types in s: each takes one.                *)
Taken(s) ==
    {g \in [Workers -> s \union {None}] :
        /\ \A v, w \in Workers : v # w /\ g[v] = g[w] => g[v] = None
        /\ (\E w \in Workers : g[w] = None) => s \subseteq {g[w] : w \in Workers}}

(* Interfaces whose listing fails are skipped, so any types may be missing. *)
(* Once shutdown() has begun the limiter refuses the first request of every *)
(* type: the workers give all of them up at once, and warm() saves what     *)
(* there is.                                                                *)
Fetchable == IF phase = "up" THEN Types ELSE {}

(* The answer to the last listDevices arrives.                              *)
WarmLists ==
    /\ warmAt = "list"
    /\ \E s \in SUBSET Fetchable : \E g \in Taken(s) :
        /\ todo' = s \ {g[w] : w \in Workers}
        /\ fetch' = [f \in Fetchers |->
                        IF f \in Workers /\ g[f] # None THEN NewFetch(g[f]) ELSE fetch[f]]
        /\ warmAt' = IF s = {} THEN "save" ELSE "work"
        /\ saves' = IF s = {} THEN Saving("warm", mem) ELSE saves
    /\ UNCHANGED <<phase, mem, stale, warming, inflight, awaits, now, tmp, file, disk, quits>>

WarmOver == FALSE

(* listInterfaces fails or the limiter refuses.                             *)
WarmFails ==
    /\ warmAt = "list"
    /\ warmAt' = "idle" /\ warming' = WarmOver
    /\ UNCHANGED <<phase, mem, stale, todo, fetch, inflight, awaits, saves, now, tmp, file, counts>>

Rest(t) == todo \ {t}

(* A worker is through with its type and takes the next one; the last       *)
(* worker without one lets warm() go on to the save.                        *)
WorkerGoesOn(w) ==
    /\ IF todo # {}
       THEN /\ \E t \in todo : fetch' = [fetch EXCEPT ![w] = NewFetch(t)] /\ todo' = Rest(t)
            /\ UNCHANGED <<warmAt, saves>>
       ELSE /\ fetch' = [fetch EXCEPT ![w] = None]
            /\ UNCHANGED todo
            /\ IF \A v \in Workers \ {w} : Idle(v)
               THEN warmAt' = "save" /\ saves' = Saving("warm", mem')
               ELSE UNCHANGED <<warmAt, saves>>
    /\ UNCHANGED <<phase, stale, warming, inflight, awaits, now, tmp, file, disk, quits>>

WorkerDone(w) ==
    /\ fetch[w] # None /\ AtLast(w)
    /\ mem' = [mem EXCEPT ![fetch[w].type] = fetch[w].entry]
    /\ WorkerGoesOn(w)

(* The limiter refuses: this type is given up with a warning.               *)
WorkerFails(w) ==
    /\ fetch[w] # None
    /\ UNCHANGED <<mem>>
    /\ WorkerGoesOn(w)

-----------------------------------------------------------------------------
(* The process: loadCaches(), warmDefault(), shutdown() and its end.        *)

Expired(f) == now - f.stamp > TTL

LoadedIfFresh(f) == IF Expired(f) THEN Empty ELSE f.types
Loaded(f) == f.types

WarmsAtStart ==
    IF IsDefault THEN WarmStarts ELSE UNCHANGED <<warming, warmAt>>

Load ==
    /\ phase = "load" /\ phase' = "up"
    /\ IF file \in Snapshot
       THEN mem' = Loaded(file) /\ stale' = Expired(file)
       ELSE UNCHANGED <<mem, stale>>
    /\ WarmsAtStart
    /\ UNCHANGED <<todo, fetch, inflight, awaits, saves, now, tmp, file, counts>>

(* An unreadable file counts as none.                                       *)
LoadFails ==
    /\ phase = "load" /\ phase' = "up"
    /\ disk < MaxDisk /\ disk' = disk + 1
    /\ WarmsAtStart
    /\ UNCHANGED <<mem, stale, todo, fetch, inflight, awaits, saves, now, tmp, file, quits>>

Shutdown ==
    /\ phase = "up" /\ phase' = "exit"
    /\ saves' = Saving("exit", mem)
    /\ UNCHANGED <<mem, stale, warming, warmAt, todo, fetch, inflight, awaits, now, tmp, file, counts>>

(* The process ends, by a crash or after the save of shutdown(), and a new  *)
(* one starts with the files as they are.                                   *)
Quit ==
    /\ quits < MaxQuits /\ quits' = quits + 1
    /\ phase' = "load"
    /\ mem' = Empty /\ stale' = TRUE
    /\ warming' = FALSE /\ warmAt' = "idle" /\ todo' = {}
    /\ fetch' = [f \in Fetchers |-> None]
    /\ inflight' = [t \in Types |-> None]
    /\ awaits' = [c \in Callers |-> None]
    /\ saves' = <<>>
    /\ UNCHANGED <<now, tmp, file, disk>>

Tick ==
    /\ now < MaxTime /\ now' = now + 1
    /\ UNCHANGED <<memory, tmp, file, counts>>

-----------------------------------------------------------------------------
QueryStep(c) == QueryDone(c) \/ QueryFails(c)
WorkerStep(w) == WorkerDone(w) \/ WorkerFails(w)
WarmListStep == WarmLists \/ WarmFails
SaveStep == \E i \in DOMAIN saves : WriteTmp(i) \/ RenameTmp(i) \/ SaveFails(i)

Next ==
    \/ \E c \in Callers : QueryStep(c) \/ \E t \in Types : Ask(c, t)
    \/ \E w \in Workers : WorkerStep(w)
    \/ \E f \in Fetchers : FetchNext(f)
    \/ UseCcu \/ WarmListStep \/ SaveStep
    \/ Load \/ LoadFails \/ Shutdown \/ Quit \/ Tick

Spec == Init /\ [][Next]_vars

-----------------------------------------------------------------------------
TypeOK ==
    /\ phase \in {"load", "up", "exit"} /\ now \in Time
    /\ mem \in Contents
    /\ stale \in BOOLEAN /\ warming \in BOOLEAN
    /\ warmAt \in {"idle", "list", "work", "save"}
    /\ todo \subseteq Types
    /\ fetch \in [Fetchers -> Fetch \union {None}]
    /\ inflight \in [Types -> Callers \union {None}]
    /\ awaits \in [Callers -> Callers \union {None}]
    /\ saves \in Seq(Save)
    /\ tmp \in Snapshot \union {None} /\ file \in Files
    /\ disk \in 0 .. MaxDisk /\ quits \in 0 .. MaxQuits

(* inflightQueries is single-flight: two tool calls never query the CCU for *)
(* the same type at the same time, and the map names exactly the queries    *)
(* that run, so that a failed one cannot answer later calls.                *)
OneQueryPerType ==
    /\ \A c, d \in Callers :
         fetch[c] # None /\ fetch[d] # None /\ fetch[c].type = fetch[d].type => c = d
    /\ \A t \in Types : \A c \in Callers :
         inflight[t] = c <=> fetch[c] # None /\ fetch[c].type = t

(* Who awaits a query awaits one that is running: nobody is left behind     *)
(* when the query they joined has ended, failed ones included.              *)
NobodyAwaitsTheEnded ==
    \A c \in Callers : awaits[c] # None => fetch[awaits[c]] # None

(* this.warming, which /health reports and which bars a second warm(), is   *)
(* set exactly while a warm() is in progress, and its workers only run in   *)
(* it.                                                                      *)
WarmingIsHonest ==
    /\ warming <=> warmAt # "idle"
    /\ warmAt = "work" <=> \E w \in Workers : fetch[w] # None

(* Chaining the saves loses none of them: as long as no file operation has  *)
(* failed, every schema in memory is in the file, or a save that is still   *)
(* to take its data will store it, or the warm() under way will save it.    *)
SaysWhatItKnows(contents) == \A t \in Types : mem[t] # None => contents[t] = mem[t]

NoSaveIsLost ==
    disk = 0 /\ phase # "load" =>
        \/ SaysWhatItKnows(Entries(file))
        \/ \E i \in DOMAIN saves : saves[i].at = "wait" \/ SaysWhatItKnows(saves[i].data.types)
        \/ warmAt = "work"

(* A type that the file knows it never forgets, through crashes, restarts   *)
(* with expired data, partial warm-ups and saves in any order; only a       *)
(* failed read may start it afresh.                                         *)
FileForgetsNothing ==
    [][disk' = 0 => Known(Entries(file)) \subseteq Known(Entries(file'))]_vars

=============================================================================
