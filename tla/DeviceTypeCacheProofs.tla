------------------------ MODULE DeviceTypeCacheProofs ------------------------
(***************************************************************************)
(* Theorems about DeviceTypeCache, for any device types, calls and         *)
(* workers, and any number of file errors and ends of the process.         *)
(***************************************************************************)
EXTENDS DeviceTypeCache, SequenceTheorems, TLAPS

\* The map names exactly the live queries; who owns one awaits it, and who
\* awaits one finds it running.
QueryInv ==
    /\ \A t \in Types : \A c \in Callers : inflight[t] = c <=> fetch[c] # None /\ fetch[c].type = t
    /\ \A c \in Callers : fetch[c] # None => awaits[c] = c
    /\ NobodyAwaitsTheEnded

\* The saves run one at a time, and the data of the one that runs is taken.
ChainOrder ==
    /\ \A i \in 1 .. Len(saves) : i > 1 => saves[i].at = "wait"
    /\ saves # <<>> =>
          /\ saves[1].at # "wait" /\ saves[1].data \in Snapshot
          /\ saves[1].at = "rename" => tmp = saves[1].data

\* Before the cache is loaded, nothing goes on.
NotLoaded ==
    phase = "load" =>
        /\ mem = Empty /\ saves = <<>> /\ warmAt = "idle" /\ ~warming
        /\ \A f \in Fetchers : fetch[f] = None

\* What memory holds is saved, or going to be.
SavedOrGoingTo ==
    disk = 0 /\ phase # "load" =>
        \/ warmAt = "work" \/ Len(saves) > 1
        \/ saves = <<>> /\ SaysWhatItKnows(Entries(file))
        \/ saves # <<>> /\ SaysWhatItKnows(saves[1].data.types)

\* The file, the save that runs and memory know more and more types.
KnownGrow ==
    disk = 0 /\ phase # "load" =>
        /\ Known(Entries(file)) \subseteq Known(mem)
        /\ saves # <<>> =>
              Known(Entries(file)) \subseteq Known(saves[1].data.types) /\ Known(saves[1].data.types) \subseteq Known(mem)

SaveInv == ChainOrder /\ NotLoaded /\ SavedOrGoingTo /\ KnownGrow
CacheInv == TypeOK /\ QueryInv /\ WarmingIsHonest /\ SaveInv

-----------------------------------------------------------------------------
(* What the helpers return.                                                 *)

LEMMA NewFetchTyped ==
    ASSUME TypeOK, NEW t \in Types
    PROVE  NewFetch(t) \in Fetch /\ NewFetch(t) # None /\ NewFetch(t).type = t
<1>1. Requests \in 1 .. Requests /\ None \notin Fetch BY CacheAssumption
<1>2. now \in Entry BY DEF TypeOK, Entry
<1>3. NewFetch(t) \in Fetch /\ NewFetch(t).type = t BY <1>1, <1>2 DEF NewFetch, Fetch
<1> QED BY <1>1, <1>3

LEMMA EmptyTyped == Empty \in Contents /\ Known(Empty) = {}
BY DEF Empty, Contents, Known

\* Of a fetch that is not None.
LEMMA FetchTyped ==
    ASSUME TypeOK, NEW f \in Fetchers, fetch[f] # None
    PROVE  fetch[f] \in Fetch /\ fetch[f].type \in Types /\ fetch[f].entry \in Entry
BY DEF TypeOK, Fetch

\* The schema of one more type.
LEMMA MemGrows ==
    ASSUME TypeOK, NEW t \in Types, NEW e \in Entry
    PROVE  [mem EXCEPT ![t] = e] \in Contents /\ Known(mem) \subseteq Known([mem EXCEPT ![t] = e])
<1>1. e # None BY CacheAssumption DEF Entry
<1> QED BY <1>1 DEF TypeOK, Contents, Known

LEMMA BegunTyped ==
    ASSUME TypeOK, NEW save \in Save, NEW contents \in Contents
    PROVE  /\ Begun(save, contents) \in Save /\ Begun(save, contents).at = "write"
           /\ Begun(save, contents).data \in Snapshot /\ Begun(save, contents).data.types = contents
<1> DEFINE d == [types |-> contents, stamp |-> now]
<1>1. d \in Snapshot /\ d.types = contents BY DEF TypeOK, Snapshot
<1> HIDE DEF d
<1>2. Begun(save, contents) = [save EXCEPT !.data = d, !.at = "write"] BY DEF Begun, d
<1> QED BY <1>1, <1>2 DEF Save

LEMMA SavingIs ==
    ASSUME TypeOK, NEW owner \in {"warm", "query", "exit"}, NEW contents \in Contents
    PROVE  /\ Saving(owner, contents) \in Seq(Save) /\ Len(Saving(owner, contents)) = Len(saves) + 1
           /\ \A i \in 1 .. Len(saves) : Saving(owner, contents)[i] = saves[i]
           /\ saves = <<>> =>
                 /\ Saving(owner, contents)[1].at = "write" /\ Saving(owner, contents)[1].data \in Snapshot
                 /\ Saving(owner, contents)[1].data.types = contents
           /\ saves # <<>> => Saving(owner, contents)[Len(saves) + 1].at = "wait"
<1> DEFINE save == [owner |-> owner, data |-> None, at |-> "wait"]
           x == IF saves = <<>> THEN Begun(save, contents) ELSE save
           s == Saving(owner, contents)
<1>1. save \in Save /\ save.at = "wait" BY DEF Save
<1>2. s = Append(saves, x) BY DEF Saving, Chained
<1> HIDE DEF save, s
<1>3. x \in Save BY <1>1, BegunTyped
<1>4. saves = <<>> => x.at = "write" /\ x.data \in Snapshot /\ x.data.types = contents BY <1>1, BegunTyped
<1>5. saves # <<>> => x.at = "wait" BY <1>1
<1> HIDE DEF x
<1>6. saves \in Seq(Save) BY DEF TypeOK
<1>7. s \in Seq(Save) /\ Len(s) = Len(saves) + 1 /\ s[Len(saves) + 1] = x
      /\ \A i \in 1 .. Len(saves) : s[i] = saves[i]
  BY <1>2, <1>3, <1>6, AppendProperties
<1>8. saves = <<>> => s[1] = x BY <1>2, <1>3
<1>9. /\ s \in Seq(Save) /\ Len(s) = Len(saves) + 1 /\ (\A i \in 1 .. Len(saves) : s[i] = saves[i])
      /\ saves = <<>> => s[1].at = "write" /\ s[1].data \in Snapshot /\ s[1].data.types = contents
      /\ saves # <<>> => s[Len(saves) + 1].at = "wait"
  BY <1>4, <1>5, <1>7, <1>8
<1> QED BY <1>9 DEF s

LEMMA RestIsTail ==
    ASSUME NEW S, NEW s \in Seq(S), s # <<>>
    PROVE  RemoveAt(s, 1) = Tail(s)
<1>1. RemoveAt(s, 1) = SubSeq(s, 1, 0) \o SubSeq(s, 2, Len(s)) BY DEF RemoveAt
<1>2. SubSeq(s, 1, 0) = <<>> BY SubSeqEmpty
<1>3. Tail(s) = SubSeq(s, 2, Len(s)) BY TailIsSubSeq
<1>4. Tail(s) \in Seq(S) BY HeadTailProperties
<1> QED BY <1>1, <1>2, <1>3, <1>4, ConcatEmptySeq

LEMMA EndedIs ==
    ASSUME TypeOK, ChainOrder, saves # <<>>
    PROVE  /\ Ended(1) \in Seq(Save) /\ Len(Ended(1)) = Len(saves) - 1
           /\ \A i \in 1 .. Len(Ended(1)) : i > 1 => Ended(1)[i].at = "wait"
           /\ Len(saves) > 1 =>
                 Ended(1)[1].at = "write" /\ Ended(1)[1].data \in Snapshot /\ Ended(1)[1].data.types = mem
<1> DEFINE n == Len(saves)
           rest == Tail(saves)
           e == Ended(1)
<1>1. saves \in Seq(Save) /\ n \in Nat /\ n > 0 BY DEF TypeOK
<1>2. rest \in Seq(Save) /\ Len(rest) = n - 1 /\ \A i \in 1 .. n - 1 : rest[i] = saves[i + 1]
  BY <1>1, HeadTailProperties
<1>3. \A i \in 1 .. n - 1 : rest[i].at = "wait" BY <1>1, <1>2 DEF ChainOrder
<1>4. RemoveAt(saves, 1) = rest BY <1>1, RestIsTail
<1>5. e = IF rest = <<>> \/ rest[1].at # "wait" THEN rest ELSE [rest EXCEPT ![1] = Begun(rest[1], mem)]
  BY <1>4 DEF Ended
<1> HIDE DEF n, rest, e
<1>6. CASE rest = <<>>
  <2>1. e = <<>> /\ n = 1 BY <1>1, <1>2, <1>5, <1>6
  <2>2. /\ e \in Seq(Save) /\ Len(e) = n - 1 /\ \A i \in 1 .. Len(e) : i > 1 => e[i].at = "wait"
        /\ ~(n > 1)
    BY <1>1, <2>1
  <2> QED BY <2>2 DEF n, e
<1>7. CASE rest # <<>>
  <2>1. n > 1 /\ 1 \in 1 .. n - 1 BY <1>1, <1>2, <1>7
  <2>2. rest[1].at = "wait" /\ rest[1] \in Save BY <1>2, <1>3, <2>1
  <2>3. PICK x \in Save : x = Begun(rest[1], mem) /\ x.at = "write" /\ x.data \in Snapshot /\ x.data.types = mem
    <3>1. mem \in Contents BY DEF TypeOK
    <3> QED BY <2>2, <3>1, BegunTyped
  <2>4. e = [rest EXCEPT ![1] = x] BY <1>5, <1>7, <2>2, <2>3
  <2>5. e \in Seq(Save) /\ Len(e) = n - 1 /\ e[1] = x /\ \A i \in 1 .. n - 1 : i # 1 => e[i] = rest[i]
    BY <1>2, <2>1, <2>4, ExceptSeq
  <2>6. /\ e \in Seq(Save) /\ Len(e) = n - 1 /\ (\A i \in 1 .. Len(e) : i > 1 => e[i].at = "wait")
        /\ e[1].at = "write" /\ e[1].data \in Snapshot /\ e[1].data.types = mem
    BY <1>3, <2>3, <2>5
  <2> QED BY <2>6 DEF n, e
<1> QED BY <1>6, <1>7

-----------------------------------------------------------------------------
(* What a step leaves alone.                                                *)

\* The live queries, when their fetches go on or stay.
LEMMA QueriesStay ==
    ASSUME TypeOK, QueryInv, UNCHANGED <<inflight, awaits>>,
           \A c \in Callers : /\ fetch'[c] # None <=> fetch[c] # None
                              /\ fetch[c] # None => fetch'[c].type = fetch[c].type
    PROVE  QueryInv'
<1>1. \A c \in Callers : awaits[c] # None => awaits[c] \in Callers BY DEF TypeOK
<1>2. \A t \in Types : \A c \in Callers : inflight'[t] = c <=> fetch'[c] # None /\ fetch'[c].type = t BY DEF QueryInv
<1>3. \A c \in Callers : fetch'[c] # None => awaits'[c] = c BY DEF QueryInv
<1>4. NobodyAwaitsTheEnded' BY <1>1 DEF QueryInv, NobodyAwaitsTheEnded
<1> QED BY <1>2, <1>3, <1>4 DEF QueryInv

\* The warm-up, when no worker begins or ends.
LEMMA WarmingStays ==
    ASSUME WarmingIsHonest, UNCHANGED <<warming, warmAt>>,
           \A w \in Workers : fetch'[w] # None <=> fetch[w] # None
    PROVE  WarmingIsHonest'
BY DEF WarmingIsHonest

\* The saves, when nothing is learnt and the warm-up's work is not over.
LEMMA SavesStay ==
    ASSUME SaveInv, phase # "load", UNCHANGED <<phase, mem, saves, tmp, file>>, disk' = 0 => disk = 0,
           warmAt = "work" => warmAt' = "work"
    PROVE  SaveInv'
<1>1. ChainOrder' BY DEF SaveInv, ChainOrder
<1>2. NotLoaded' BY DEF NotLoaded
<1>3. SavedOrGoingTo' BY DEF SaveInv, SavedOrGoingTo, SaysWhatItKnows
<1>4. KnownGrow' BY DEF SaveInv, KnownGrow
<1> QED BY <1>1, <1>2, <1>3, <1>4 DEF SaveInv

\* A schema is learnt in the middle of the warm-up's work, which saves it.
LEMMA LearningKeeps ==
    ASSUME SaveInv, phase # "load", UNCHANGED <<phase, saves, tmp, file, disk>>, warmAt' = "work",
           Known(mem) \subseteq Known(mem')
    PROVE  SaveInv'
<1>1. ChainOrder' BY DEF SaveInv, ChainOrder
<1>2. NotLoaded' BY DEF NotLoaded
<1>3. SavedOrGoingTo' BY DEF SavedOrGoingTo
<1>4. KnownGrow' BY DEF SaveInv, KnownGrow
<1> QED BY <1>1, <1>2, <1>3, <1>4 DEF SaveInv

\* Another save joins the chain, with or without something learnt.
LEMMA ChainingKeeps ==
    ASSUME TypeOK, SaveInv, phase # "load", phase' # "load", UNCHANGED <<tmp, file, disk>>,
           NEW owner \in {"warm", "query", "exit"}, NEW contents \in Contents, mem' = contents,
           saves' = Saving(owner, contents), Known(mem) \subseteq Known(contents)
    PROVE  SaveInv' /\ saves' \in Seq(Save)
<1> DEFINE n == Len(saves)
<1>1. saves \in Seq(Save) /\ n \in Nat /\ (saves = <<>> <=> n = 0) BY DEF TypeOK
<1>2. /\ saves' \in Seq(Save) /\ Len(saves') = n + 1 /\ (\A i \in 1 .. n : saves'[i] = saves[i])
      /\ saves = <<>> => saves'[1].at = "write" /\ saves'[1].data \in Snapshot /\ saves'[1].data.types = contents
      /\ saves # <<>> => saves'[n + 1].at = "wait"
  BY SavingIs
<1> HIDE DEF n
<1>3. saves' # <<>> BY <1>1, <1>2
<1>4. n # 0 => 1 \in 1 .. n BY <1>1
<1>5. ChainOrder'
  <2>1. ASSUME NEW i \in 1 .. n + 1, i > 1 PROVE saves'[i].at = "wait"
    <3>1. CASE i \in 1 .. n BY <1>2, <2>1, <3>1 DEF SaveInv, ChainOrder, n
    <3>2. CASE i = n + 1 BY <1>1, <1>2, <2>1, <3>2
    <3> QED BY <1>1, <2>1, <3>1, <3>2
  <2>2. saves'[1].at # "wait" /\ saves'[1].data \in Snapshot /\ (saves'[1].at = "rename" => tmp' = saves'[1].data)
    <3>1. CASE n = 0 BY <1>1, <1>2, <3>1
    <3>2. CASE n # 0 BY <1>1, <1>2, <1>4, <3>2 DEF SaveInv, ChainOrder
    <3> QED BY <3>1, <3>2
  <2> QED BY <1>2, <2>1, <2>2 DEF ChainOrder
<1>6. NotLoaded' BY DEF NotLoaded
<1>7. SavedOrGoingTo'
  <2>1. CASE n = 0 BY <1>1, <1>2, <1>3, <2>1 DEF SavedOrGoingTo, SaysWhatItKnows
  <2>2. CASE n # 0 BY <1>1, <1>2, <2>2 DEF SavedOrGoingTo
  <2> QED BY <2>1, <2>2
<1>8. KnownGrow'
  <2>1. CASE n = 0 BY <1>1, <1>2, <2>1 DEF SaveInv, KnownGrow
  <2>2. CASE n # 0 BY <1>1, <1>2, <1>4, <2>2 DEF SaveInv, KnownGrow
  <2> QED BY <2>1, <2>2
<1> QED BY <1>2, <1>5, <1>6, <1>7, <1>8 DEF SaveInv

\* The save that runs has ended: it has replaced the file, or it has failed.
LEMMA EndingKeeps ==
    ASSUME TypeOK, SaveInv, phase # "load", saves # <<>>, UNCHANGED <<phase, mem>>, saves' = Ended(1),
           warmAt = "work" => warmAt' = "work",
           disk' = 0 => disk = 0 /\ file' = saves[1].data
    PROVE  SaveInv' /\ saves' \in Seq(Save)
<1> DEFINE n == Len(saves)
<1>1. saves \in Seq(Save) /\ n \in Nat /\ n > 0 BY DEF TypeOK
<1>2. /\ saves' \in Seq(Save) /\ Len(saves') = n - 1
      /\ \A i \in 1 .. Len(saves') : i > 1 => saves'[i].at = "wait"
      /\ n > 1 => saves'[1].at = "write" /\ saves'[1].data \in Snapshot /\ saves'[1].data.types = mem
  BY EndedIs DEF SaveInv
<1> HIDE DEF n
<1>3. saves' = <<>> <=> n = 1 BY <1>1, <1>2
<1>4. ChainOrder' BY <1>1, <1>2, <1>3 DEF ChainOrder
<1>5. NotLoaded' BY DEF NotLoaded
<1>6. disk' = 0 => Entries(file') = saves[1].data.types
  BY CacheAssumption DEF SaveInv, ChainOrder, Entries
<1>7. SavedOrGoingTo'
  <2>1. CASE n = 1 BY <1>1, <1>3, <1>6, <2>1 DEF SaveInv, SavedOrGoingTo, SaysWhatItKnows, n
  <2>2. CASE n > 1 BY <1>1, <1>2, <1>3, <2>2 DEF SavedOrGoingTo, SaysWhatItKnows
  <2> QED BY <1>1, <2>1, <2>2
<1>8. KnownGrow'
  <2>1. CASE n = 1 BY <1>3, <1>6, <2>1 DEF SaveInv, KnownGrow
  <2>2. CASE n > 1 BY <1>1, <1>2, <1>3, <1>6, <2>2 DEF SaveInv, KnownGrow
  <2> QED BY <1>1, <2>1, <2>2
<1> QED BY <1>2, <1>4, <1>5, <1>7, <1>8 DEF SaveInv

-----------------------------------------------------------------------------
(* The live queries.                                                        *)

\* Nothing is fetched before the cache is loaded.
LEMMA FetchingIsLoaded ==
    ASSUME SaveInv, NEW f \in Fetchers, fetch[f] # None
    PROVE  phase # "load"
BY DEF SaveInv, NotLoaded

LEMMA FetchNextKeeps ==
    ASSUME CacheInv, NEW f \in Fetchers, FetchNext(f)
    PROVE  CacheInv'
<1>1. /\ fetch[f] # None /\ fetch[f].left # 1 /\ fetch' = [fetch EXCEPT ![f].left = fetch[f].left - 1]
      /\ UNCHANGED <<phase, mem, stale, warming, warmAt, todo, inflight, awaits, saves, now, tmp, file, counts>>
  BY DEF FetchNext, AtLast
<1>2. TypeOK BY DEF CacheInv
<1>3. fetch[f] \in Fetch /\ fetch[f].left \in 1 .. Requests /\ Requests \in Nat /\ None \notin Fetch
  BY <1>1, <1>2, FetchTyped, CacheAssumption DEF Fetch
<1>4. fetch[f].left - 1 \in 1 .. Requests BY <1>1, <1>3
<1> DEFINE x == [fetch[f] EXCEPT !.left = fetch[f].left - 1]
<1>5. x \in Fetch /\ x.type = fetch[f].type BY <1>3, <1>4 DEF Fetch
<1>6. fetch' = [fetch EXCEPT ![f] = x] BY <1>1
<1> HIDE DEF x
<1>7. fetch' \in [Fetchers -> Fetch \union {None}] BY <1>2, <1>5, <1>6 DEF TypeOK
<1>8. TypeOK' BY <1>1, <1>2, <1>7 DEF TypeOK, counts
<1>9. \A g \in Fetchers : /\ fetch'[g] # None <=> fetch[g] # None
                          /\ fetch[g] # None => fetch'[g].type = fetch[g].type
  BY <1>1, <1>2, <1>3, <1>5, <1>6 DEF TypeOK
<1>10. QueryInv' BY <1>1, <1>2, <1>9, QueriesStay DEF CacheInv, Fetchers
<1>11. WarmingIsHonest' BY <1>1, <1>9, WarmingStays DEF CacheInv, Fetchers
<1>12. SaveInv' BY <1>1, FetchingIsLoaded, SavesStay DEF CacheInv, counts
<1> QED BY <1>8, <1>10, <1>11, <1>12 DEF CacheInv

LEMMA AskKeeps ==
    ASSUME CacheInv, NEW c \in Callers, NEW t \in Types, Ask(c, t)
    PROVE  CacheInv'
<1>1. /\ phase # "load" /\ awaits[c] = None
      /\ UNCHANGED <<phase, mem, stale, warming, warmAt, todo, saves, now, tmp, file, counts>>
  BY DEF Ask
<1>2. TypeOK /\ QueryInv /\ None \notin Callers BY CacheAssumption DEF CacheInv
<1>3. SaveInv' BY <1>1, SavesStay DEF CacheInv, counts
<1>4. fetch[c] = None BY <1>1, <1>2 DEF QueryInv
<1>5. CASE Joins(t)
  <2>1. /\ inflight[t] # None /\ awaits' = [awaits EXCEPT ![c] = inflight[t]] /\ UNCHANGED <<fetch, inflight>>
    BY <1>5 DEF Ask, Joins
  <2>2. PICK o \in Callers : o = inflight[t] BY <1>2, <2>1 DEF TypeOK
  <2>3. fetch[o] # None BY <1>2, <2>2 DEF QueryInv
  <2>4. TypeOK' BY <1>1, <1>2, <2>1, <2>2 DEF TypeOK, counts
  <2>5. awaits'[c] = o /\ \A d \in Callers \ {c} : awaits'[d] = awaits[d] BY <1>2, <2>1, <2>2 DEF TypeOK
  <2>6. NobodyAwaitsTheEnded' BY <1>2, <2>1, <2>3, <2>5 DEF QueryInv, NobodyAwaitsTheEnded
  <2>7. QueryInv' BY <1>2, <1>4, <2>1, <2>5, <2>6 DEF QueryInv
  <2>8. WarmingIsHonest' BY <1>1, <2>1 DEF CacheInv, WarmingIsHonest
  <2> QED BY <1>3, <2>4, <2>7, <2>8 DEF CacheInv
<1>6. CASE ~Joins(t)
  <2>1. /\ inflight[t] = None /\ awaits' = [awaits EXCEPT ![c] = c] /\ inflight' = [inflight EXCEPT ![t] = c]
        /\ fetch' = [fetch EXCEPT ![c] = NewFetch(t)]
    BY <1>6 DEF Ask, Joins
  <2>2. PICK x \in Fetch : x = NewFetch(t) /\ x # None /\ x.type = t BY <1>2, NewFetchTyped
  <2>3. c \in Fetchers /\ c \notin Workers BY CacheAssumption DEF Fetchers
  <2>4. fetch' = [fetch EXCEPT ![c] = x] BY <2>1, <2>2
  <2>5. fetch'[c] = x /\ \A g \in Fetchers \ {c} : fetch'[g] = fetch[g] BY <1>2, <2>3, <2>4 DEF TypeOK
  <2>6. TypeOK' BY <1>1, <1>2, <2>1, <2>3, <2>4 DEF TypeOK, counts
  <2>7. awaits'[c] = c /\ \A d \in Callers \ {c} : awaits'[d] = awaits[d] BY <1>2, <2>1 DEF TypeOK
  <2>8. inflight'[t] = c /\ \A u \in Types \ {t} : inflight'[u] = inflight[u] BY <1>2, <2>1 DEF TypeOK
  <2>9. \A u \in Types, d \in Callers : inflight'[u] = d <=> fetch'[d] # None /\ fetch'[d].type = u
    <3>1. TAKE u \in Types, d \in Callers
    <3>2. inflight[u] = d <=> fetch[d] # None /\ fetch[d].type = u BY <1>2 DEF QueryInv
    <3>3. d \in Fetchers BY DEF Fetchers
    <3> QED BY <1>2, <1>4, <2>1, <2>2, <2>5, <2>8, <3>2, <3>3
  <2>10. \A d \in Callers : fetch'[d] # None => awaits'[d] = d
    BY <1>2, <2>5, <2>7 DEF QueryInv, Fetchers
  <2>11. NobodyAwaitsTheEnded'
    <3>1. SUFFICES ASSUME NEW d \in Callers, awaits'[d] # None PROVE fetch'[awaits'[d]] # None
      BY DEF NobodyAwaitsTheEnded
    <3>2. CASE d = c BY <2>2, <2>5, <2>7, <3>2
    <3>3. CASE d # c
      <4>1. PICK o \in Callers : o = awaits[d] /\ o = awaits'[d] BY <1>2, <2>7, <3>1, <3>3 DEF TypeOK
      <4>2. awaits[d] # None BY <1>2, <4>1
      <4>3. fetch[o] # None BY <1>2, <4>1, <4>2 DEF QueryInv, NobodyAwaitsTheEnded
      <4> QED BY <1>4, <2>5, <4>1, <4>3 DEF Fetchers
    <3> QED BY <3>2, <3>3
  <2>12. QueryInv' BY <2>9, <2>10, <2>11 DEF QueryInv
  <2>13. WarmingIsHonest'
    <3>1. \A w \in Workers : fetch'[w] = fetch[w] BY <2>3, <2>5 DEF Fetchers
    <3> QED BY <1>1, <3>1, WarmingStays DEF CacheInv
  <2> QED BY <1>3, <2>6, <2>12, <2>13 DEF CacheInv
<1> QED BY <1>5, <1>6

\* A live query leaves the map, and all who share it go on.
LEMMA EndedQueryKeeps ==
    ASSUME TypeOK, QueryInv, WarmingIsHonest, NEW c \in Callers, fetch[c] # None, QueryEnds(c), UNCHANGED warmAt
    PROVE  /\ QueryInv' /\ WarmingIsHonest'
           /\ fetch' \in [Fetchers -> Fetch \union {None}] /\ inflight' \in [Types -> Callers \union {None}]
           /\ awaits' \in [Callers -> Callers \union {None}]
<1>1. PICK t \in Types : t = fetch[c].type BY FetchTyped DEF Fetchers
<1>2. /\ inflight' = [inflight EXCEPT ![t] = None] /\ fetch' = [fetch EXCEPT ![c] = None]
      /\ awaits' = [d \in Callers |-> IF awaits[d] = c THEN None ELSE awaits[d]]
      /\ UNCHANGED warming
  BY <1>1 DEF QueryEnds, Forgotten, Answered
<1>3. c \in Fetchers /\ c \notin Workers /\ None \notin Callers BY CacheAssumption DEF Fetchers
<1>4. fetch'[c] = None /\ \A g \in Fetchers \ {c} : fetch'[g] = fetch[g] BY <1>2, <1>3 DEF TypeOK
<1>5. inflight'[t] = None /\ \A u \in Types \ {t} : inflight'[u] = inflight[u] BY <1>2 DEF TypeOK
<1>6. /\ fetch' \in [Fetchers -> Fetch \union {None}] /\ inflight' \in [Types -> Callers \union {None}]
      /\ awaits' \in [Callers -> Callers \union {None}]
  BY <1>2 DEF TypeOK
<1>7. inflight[t] = c BY <1>1 DEF QueryInv
<1>8. \A u \in Types, d \in Callers : inflight'[u] = d <=> fetch'[d] # None /\ fetch'[d].type = u
  <2>1. TAKE u \in Types, d \in Callers
  <2>2. inflight[u] = d <=> fetch[d] # None /\ fetch[d].type = u BY DEF QueryInv
  <2>3. d \in Fetchers BY DEF Fetchers
  <2>4. CASE d = c BY <1>1, <1>3, <1>4, <1>5, <2>2, <2>4
  <2>5. CASE d # c BY <1>3, <1>4, <1>5, <1>7, <2>2, <2>3, <2>5
  <2> QED BY <2>4, <2>5
<1>9. \A d \in Callers : fetch'[d] # None => awaits'[d] = d
  BY <1>2, <1>4 DEF QueryInv, Fetchers
<1>10. NobodyAwaitsTheEnded'
  <2>1. SUFFICES ASSUME NEW d \in Callers, awaits'[d] # None PROVE fetch'[awaits'[d]] # None
    BY DEF NobodyAwaitsTheEnded
  <2>2. awaits[d] # c /\ awaits'[d] = awaits[d] BY <1>2, <2>1
  <2>3. PICK o \in Callers : o = awaits[d] BY <2>1, <2>2 DEF TypeOK
  <2>4. fetch[o] # None BY <2>1, <2>2, <2>3 DEF QueryInv, NobodyAwaitsTheEnded
  <2> QED BY <1>4, <2>2, <2>3, <2>4 DEF Fetchers
<1>11. QueryInv' BY <1>8, <1>9, <1>10 DEF QueryInv
<1>12. WarmingIsHonest'
  <2>1. \A w \in Workers : fetch'[w] = fetch[w] BY <1>3, <1>4 DEF Fetchers
  <2> QED BY <1>2, <2>1, WarmingStays
<1> QED BY <1>6, <1>11, <1>12

LEMMA QueryKeeps ==
    ASSUME CacheInv, NEW c \in Callers, QueryStep(c)
    PROVE  CacheInv'
<1>1. fetch[c] # None /\ QueryEnds(c) BY DEF QueryStep, QueryDone, QueryFails
<1>2. TypeOK /\ c \in Fetchers BY DEF CacheInv, Fetchers
<1>3. phase # "load" BY <1>1, <1>2, FetchingIsLoaded DEF CacheInv
<1>4. UNCHANGED <<phase, stale, warming, todo, now, tmp, file, disk, quits>> BY <1>1 DEF QueryEnds
<1>5. CASE QueryDone(c)
  <2>1. PICK t \in Types, e \in Entry : t = fetch[c].type /\ e = fetch[c].entry BY <1>1, <1>2, FetchTyped
  <2>2. PICK contents \in Contents : contents = [mem EXCEPT ![t] = e] /\ Known(mem) \subseteq Known(contents)
    BY <1>2, MemGrows
  <2>3. mem' = contents /\ saves' = Saving("query", mem') BY <1>5, <2>1, <2>2 DEF QueryDone
  <2>4. saves' = Saving("query", contents) BY <2>3
  <2>5. SaveInv' /\ saves' \in Seq(Save)
    BY <1>2, <1>3, <1>4, <2>2, <2>3, <2>4, ChainingKeeps DEF CacheInv
  <2>6. UNCHANGED warmAt BY <1>1 DEF QueryEnds
  <2>7. /\ QueryInv' /\ WarmingIsHonest'
        /\ fetch' \in [Fetchers -> Fetch \union {None}] /\ inflight' \in [Types -> Callers \union {None}]
        /\ awaits' \in [Callers -> Callers \union {None}]
    BY <1>1, <2>6, EndedQueryKeeps DEF CacheInv
  <2>8. TypeOK' BY <1>2, <1>4, <2>3, <2>5, <2>6, <2>7 DEF TypeOK
  <2> QED BY <2>5, <2>7, <2>8 DEF CacheInv
<1>6. CASE QueryFails(c)
  <2>1. UNCHANGED <<mem, saves, warmAt>> BY <1>6 DEF QueryFails, QueryEnds
  <2>2. SaveInv' BY <1>3, <1>4, <2>1, SavesStay DEF CacheInv
  <2>3. /\ QueryInv' /\ WarmingIsHonest'
        /\ fetch' \in [Fetchers -> Fetch \union {None}] /\ inflight' \in [Types -> Callers \union {None}]
        /\ awaits' \in [Callers -> Callers \union {None}]
    BY <1>1, <2>1, EndedQueryKeeps DEF CacheInv
  <2>4. TypeOK' BY <1>2, <1>4, <2>1, <2>3 DEF TypeOK
  <2> QED BY <2>2, <2>3, <2>4 DEF CacheInv
<1> QED BY <1>5, <1>6 DEF QueryStep

-----------------------------------------------------------------------------
(* Saving.                                                                  *)

LEMMA SaveKeeps == ASSUME CacheInv, SaveStep PROVE CacheInv'
<1>1. TypeOK /\ SaveInv /\ saves \in Seq(Save) BY DEF CacheInv, TypeOK
<1>2. PICK i \in 1 .. Len(saves) : WriteTmp(i) \/ RenameTmp(i) \/ SaveFails(i) BY <1>1 DEF SaveStep
<1>3. saves[i].at # "wait" BY <1>2 DEF WriteTmp, RenameTmp, SaveFails
<1>4. i = 1 /\ saves # <<>> /\ Len(saves) \in Nat /\ saves[1] \in Save BY <1>1, <1>2, <1>3 DEF SaveInv, ChainOrder
<1>5. phase # "load" BY <1>1, <1>4 DEF SaveInv, NotLoaded
<1>6. saves[1].data \in Snapshot BY <1>1, <1>4 DEF SaveInv, ChainOrder
<1>7. CASE WriteTmp(1)
  <2> DEFINE x == [saves[1] EXCEPT !.at = "rename"]
  <2>1. /\ tmp' = saves[1].data /\ saves' = [saves EXCEPT ![1] = x]
        /\ UNCHANGED <<phase, mem, stale, warming, warmAt, todo, fetch, inflight, awaits, now, file, counts>>
    BY <1>7 DEF WriteTmp
  <2>2. x \in Save /\ x.at = "rename" /\ x.data = saves[1].data BY <1>4 DEF Save
  <2> HIDE DEF x
  <2>3. /\ saves' \in Seq(Save) /\ Len(saves') = Len(saves) /\ saves'[1] = x
        /\ \A j \in 1 .. Len(saves) : j > 1 => saves'[j] = saves[j]
    BY <1>1, <1>2, <1>4, <2>1, <2>2, ExceptSeq
  <2>4. saves' # <<>> BY <1>1, <1>2, <1>4, <2>3
  <2>5. ChainOrder' BY <1>1, <1>6, <2>1, <2>2, <2>3, <2>4 DEF SaveInv, ChainOrder
  <2>6. NotLoaded' BY <1>5, <2>1 DEF NotLoaded
  <2>7. SavedOrGoingTo'
    BY <1>1, <1>4, <2>1, <2>2, <2>3, <2>4 DEF SaveInv, SavedOrGoingTo, SaysWhatItKnows, counts
  <2>8. KnownGrow' BY <1>1, <1>4, <2>1, <2>2, <2>3, <2>4 DEF SaveInv, KnownGrow, counts
  <2>9. TypeOK' BY <1>1, <1>6, <2>1, <2>3 DEF TypeOK, counts
  <2>10. QueryInv' BY <2>1, QueriesStay DEF CacheInv
  <2>11. WarmingIsHonest' BY <2>1, WarmingStays DEF CacheInv
  <2> QED BY <2>5, <2>6, <2>7, <2>8, <2>9, <2>10, <2>11 DEF CacheInv, SaveInv
<1>8. CASE RenameTmp(1) \/ SaveFails(1)
  <2>1. SaveEnds(1) BY <1>8 DEF RenameTmp, SaveFails
  <2>2. /\ saves' = Ended(1)
        /\ UNCHANGED <<phase, mem, todo, fetch, inflight, awaits, now, quits>>
    BY <2>1 DEF SaveEnds
  <2>3. warmAt' = warmAt \/ (warmAt = "save" /\ warmAt' = "idle") BY <2>1 DEF SaveEnds, WarmSaved
  <2>4. disk' \in 0 .. MaxDisk /\ (disk' = 0 => disk = 0 /\ file' = saves[1].data) /\ tmp' = None /\ file' \in Files
    <3>1. disk \in 0 .. MaxDisk /\ MaxDisk \in Nat /\ tmp \in Snapshot \union {None} /\ file \in Files
      BY <1>1, CacheAssumption DEF TypeOK
    <3>2. CASE RenameTmp(1)
      <4>1. saves[1].at = "rename" /\ disk' = disk /\ tmp' = None /\ file' = IF tmp = None THEN file ELSE tmp
        BY <3>2 DEF RenameTmp
      <4>2. tmp = saves[1].data /\ tmp # None BY <1>1, <1>4, <1>6, <4>1, CacheAssumption DEF SaveInv, ChainOrder
      <4> QED BY <1>6, <3>1, <4>1, <4>2 DEF Files
    <3>3. CASE SaveFails(1)
      <4>1. disk < MaxDisk /\ disk' = disk + 1 /\ tmp' = None /\ file' = file BY <3>3 DEF SaveFails
      <4> QED BY <3>1, <4>1
    <3> QED BY <1>8, <3>2, <3>3
  <2>5. SaveInv' /\ saves' \in Seq(Save) BY <1>1, <1>4, <1>5, <2>2, <2>3, <2>4, EndingKeeps
  <2>6. stale' \in BOOLEAN /\ warming' \in BOOLEAN /\ warmAt' \in {"idle", "list", "work", "save"}
    BY <1>1, <2>1 DEF SaveEnds, TypeOK
  <2>7. TypeOK' BY <1>1, <2>2, <2>4, <2>5, <2>6 DEF TypeOK
  <2>8. QueryInv' BY <1>1, <2>2, QueriesStay DEF CacheInv
  <2>9. WarmingIsHonest' BY <2>1, <2>2 DEF CacheInv, WarmingIsHonest, SaveEnds, WarmSaved
  <2> QED BY <2>5, <2>7, <2>8, <2>9 DEF CacheInv
<1> QED BY <1>2, <1>4, <1>7, <1>8

-----------------------------------------------------------------------------
(* Warming.                                                                 *)

LEMMA UseCcuKeeps == ASSUME CacheInv, UseCcu PROVE CacheInv'
<1>1. /\ phase = "up" /\ ~warming /\ warming' = TRUE /\ warmAt' = "list"
      /\ UNCHANGED <<phase, mem, stale, todo, fetch, inflight, awaits, saves, now, tmp, file, counts>>
  BY DEF UseCcu, WarmStarts, MayWarm
<1>2. warmAt = "idle" BY <1>1 DEF CacheInv, WarmingIsHonest
<1>3. TypeOK' BY <1>1 DEF CacheInv, TypeOK, counts
<1>4. QueryInv' BY <1>1, QueriesStay DEF CacheInv
<1>5. WarmingIsHonest' BY <1>1, <1>2 DEF CacheInv, WarmingIsHonest
<1>6. SaveInv' BY <1>1, <1>2, SavesStay DEF CacheInv, counts
<1> QED BY <1>3, <1>4, <1>5, <1>6 DEF CacheInv

LEMMA WarmFailsKeeps == ASSUME CacheInv, WarmFails PROVE CacheInv'
<1>1. /\ warmAt = "list" /\ warmAt' = "idle" /\ warming' = FALSE
      /\ UNCHANGED <<phase, mem, stale, todo, fetch, inflight, awaits, saves, now, tmp, file, counts>>
  BY DEF WarmFails, WarmOver
<1>2. phase # "load" BY <1>1 DEF CacheInv, SaveInv, NotLoaded
<1>3. TypeOK' BY <1>1 DEF CacheInv, TypeOK, counts
<1>4. QueryInv' BY <1>1, QueriesStay DEF CacheInv
<1>5. WarmingIsHonest' BY <1>1 DEF CacheInv, WarmingIsHonest
<1>6. SaveInv' BY <1>1, <1>2, SavesStay DEF CacheInv, counts
<1> QED BY <1>3, <1>4, <1>5, <1>6 DEF CacheInv

\* The listing is followed by work, or by the save if it names no type.
LEMMA WarmListsKeeps == ASSUME CacheInv, WarmLists PROVE CacheInv'
<1> DEFINE Begins(s, g) ==
          /\ todo' = s \ {g[w] : w \in Workers}
          /\ fetch' = [f \in Fetchers |-> IF f \in Workers /\ g[f] # None THEN NewFetch(g[f]) ELSE fetch[f]]
          /\ warmAt' = IF s = {} THEN "save" ELSE "work"
          /\ saves' = IF s = {} THEN Saving("warm", mem) ELSE saves
<1>0. PICK s \in SUBSET Types : \E g \in Taken(s) : Begins(s, g) BY DEF WarmLists, Fetchable
<1>1. PICK g \in Taken(s) : Begins(s, g) BY <1>0
<1>2. /\ warmAt = "list" /\ phase # "load"
      /\ UNCHANGED <<phase, mem, stale, warming, inflight, awaits, now, tmp, file, disk, quits>>
  BY DEF WarmLists, CacheInv, SaveInv, NotLoaded
<1>3. TypeOK /\ None \notin Types BY CacheAssumption DEF CacheInv
<1>4. g \in [Workers -> s \union {None}] /\ ((\E w \in Workers : g[w] = None) => s \subseteq {g[w] : w \in Workers})
  BY DEF Taken
<1>5. ASSUME NEW w \in Workers
      PROVE  /\ w \in Fetchers /\ fetch[w] = None /\ (fetch'[w] # None <=> g[w] # None)
             /\ fetch'[w] \in Fetch \union {None}
  <2>1. w \in Fetchers BY DEF Fetchers
  <2>2. fetch[w] = None BY <1>2 DEF CacheInv, WarmingIsHonest
  <2>3. CASE g[w] = None BY <1>1, <2>1, <2>2, <2>3
  <2>4. CASE g[w] # None
    <3>1. PICK t \in Types : t = g[w] BY <1>4, <2>4
    <3>2. NewFetch(t) \in Fetch /\ NewFetch(t) # None BY <1>3, NewFetchTyped
    <3>3. fetch'[w] = NewFetch(t) BY <1>1, <2>1, <2>4, <3>1
    <3> QED BY <2>1, <2>2, <2>4, <3>2, <3>3
  <2> QED BY <2>3, <2>4
<1>6. \A c \in Callers : fetch'[c] = fetch[c] BY <1>1, CacheAssumption DEF Fetchers
<1>7. fetch' \in [Fetchers -> Fetch \union {None}]
  <2>1. \A f \in Fetchers : fetch'[f] \in Fetch \union {None} BY <1>3, <1>5, <1>6 DEF TypeOK, Fetchers
  <2> QED BY <1>1, <2>1
<1>8. QueryInv' BY <1>2, <1>3, <1>6, QueriesStay DEF CacheInv
<1>9. CASE s = {}
  <2>1. \A w \in Workers : fetch'[w] = None BY <1>4, <1>5, <1>9
  <2>2. warmAt' = "save" /\ saves' = Saving("warm", mem) BY <1>1, <1>9
  <2>3. PICK contents \in Contents : contents = mem BY <1>3 DEF TypeOK
  <2>4. saves' = Saving("warm", contents) /\ mem' = contents BY <1>2, <2>2, <2>3
  <2>5. SaveInv' /\ saves' \in Seq(Save) BY <1>2, <1>3, <2>3, <2>4, ChainingKeeps DEF CacheInv
  <2>6. TypeOK' BY <1>1, <1>2, <1>3, <1>7, <2>2, <2>5 DEF TypeOK
  <2>7. WarmingIsHonest' BY <1>2, <2>1, <2>2 DEF CacheInv, WarmingIsHonest
  <2> QED BY <1>8, <2>5, <2>6, <2>7 DEF CacheInv
<1>10. CASE s # {}
  <2>1. \E w \in Workers : g[w] # None
    <3>1. SUFFICES ASSUME \A w \in Workers : g[w] = None PROVE FALSE OBVIOUS
    <3>2. PICK t \in s : TRUE BY <1>10
    <3>3. \E w \in Workers : g[w] = None BY <3>1, CacheAssumption
    <3>4. PICK w \in Workers : t = g[w] BY <1>4, <3>2, <3>3
    <3> QED BY <1>3, <3>1, <3>2, <3>4
  <2>2. \E w \in Workers : fetch'[w] # None BY <1>5, <2>1
  <2>3. warmAt' = "work" /\ saves' = saves BY <1>1, <1>10
  <2>4. SaveInv' BY <1>2, <2>3, SavesStay DEF CacheInv
  <2>5. TypeOK' BY <1>1, <1>2, <1>3, <1>7, <2>3 DEF TypeOK
  <2>6. WarmingIsHonest' BY <1>2, <2>2, <2>3 DEF CacheInv, WarmingIsHonest
  <2> QED BY <1>8, <2>4, <2>5, <2>6 DEF CacheInv
<1> QED BY <1>9, <1>10

\* A worker goes on, with what it has learnt, or without.
LEMMA WorkerKeeps ==
    ASSUME CacheInv, NEW w \in Workers, WorkerStep(w)
    PROVE  CacheInv'
<1>1. fetch[w] # None /\ WorkerGoesOn(w) BY DEF WorkerStep, WorkerDone, WorkerFails
<1>2. TypeOK /\ w \in Fetchers /\ w \notin Callers BY CacheAssumption DEF CacheInv, Fetchers
<1>3. phase # "load" /\ warmAt = "work" /\ warming
  BY <1>1, <1>2, FetchingIsLoaded DEF CacheInv, WarmingIsHonest
<1>4. UNCHANGED <<phase, stale, warming, inflight, awaits, now, tmp, file, disk, quits>> BY <1>1 DEF WorkerGoesOn
<1>5. PICK contents \in Contents : contents = mem' /\ Known(mem) \subseteq Known(contents)
  <2>1. CASE WorkerDone(w)
    <3>1. PICK t \in Types, e \in Entry : t = fetch[w].type /\ e = fetch[w].entry BY <1>1, <1>2, FetchTyped
    <3>2. mem' = [mem EXCEPT ![t] = e] BY <2>1, <3>1 DEF WorkerDone
    <3> QED BY <1>2, <3>2, MemGrows
  <2>2. CASE WorkerFails(w) BY <1>2, <2>2 DEF WorkerFails, TypeOK
  <2> QED BY <2>1, <2>2 DEF WorkerStep
<1>6. CASE todo # {}
  <2>1. PICK t \in todo : fetch' = [fetch EXCEPT ![w] = NewFetch(t)] /\ todo' = todo \ {t}
    BY <1>1, <1>6 DEF WorkerGoesOn, Rest
  <2>2. UNCHANGED <<warmAt, saves>> BY <1>1, <1>6 DEF WorkerGoesOn
  <2>3. PICK x \in Fetch : x = NewFetch(t) /\ x # None BY <1>2, NewFetchTyped DEF TypeOK
  <2>4. fetch' = [fetch EXCEPT ![w] = x] BY <2>1, <2>3
  <2>5. fetch'[w] = x /\ \A f \in Fetchers \ {w} : fetch'[f] = fetch[f] BY <1>2, <2>4 DEF TypeOK
  <2>6. TypeOK' BY <1>2, <1>4, <1>5, <2>1, <2>2, <2>4 DEF TypeOK
  <2>7. QueryInv' BY <1>2, <1>4, <2>5, QueriesStay DEF CacheInv, Fetchers
  <2>8. WarmingIsHonest' BY <1>1, <1>4, <2>2, <2>3, <2>5, WarmingStays DEF CacheInv, Fetchers
  <2>9. SaveInv' BY <1>3, <1>4, <1>5, <2>2, LearningKeeps DEF CacheInv
  <2> QED BY <2>6, <2>7, <2>8, <2>9 DEF CacheInv
<1>7. CASE todo = {}
  <2>1. fetch' = [fetch EXCEPT ![w] = None] /\ UNCHANGED todo BY <1>1, <1>7 DEF WorkerGoesOn
  <2>2. fetch'[w] = None /\ \A f \in Fetchers \ {w} : fetch'[f] = fetch[f] BY <1>2, <2>1 DEF TypeOK
  <2>3. fetch' \in [Fetchers -> Fetch \union {None}] BY <1>2, <2>1 DEF TypeOK
  <2>4. QueryInv' BY <1>2, <1>4, <2>2, QueriesStay DEF CacheInv, Fetchers
  <2>5. CASE \A v \in Workers \ {w} : Idle(v)
    <3>1. warmAt' = "save" /\ saves' = Saving("warm", mem') BY <1>1, <1>7, <2>5 DEF WorkerGoesOn
    <3>2. saves' = Saving("warm", contents) /\ mem' = contents BY <1>5, <3>1
    <3>3. SaveInv' /\ saves' \in Seq(Save) BY <1>2, <1>3, <1>4, <1>5, <3>2, ChainingKeeps DEF CacheInv
    <3>4. TypeOK' BY <1>2, <1>4, <1>5, <2>1, <2>3, <3>1, <3>3 DEF TypeOK
    <3>5. \A v \in Workers : fetch'[v] = None BY <2>2, <2>5 DEF Idle, Fetchers
    <3>6. WarmingIsHonest' BY <1>3, <1>4, <3>1, <3>5 DEF WarmingIsHonest
    <3> QED BY <2>4, <3>3, <3>4, <3>6 DEF CacheInv
  <2>6. CASE ~\A v \in Workers \ {w} : Idle(v)
    <3>1. UNCHANGED <<warmAt, saves>> BY <1>1, <1>7, <2>6 DEF WorkerGoesOn
    <3>2. SaveInv' BY <1>3, <1>4, <1>5, <3>1, LearningKeeps DEF CacheInv
    <3>3. TypeOK' BY <1>2, <1>4, <1>5, <2>1, <2>3, <3>1 DEF TypeOK
    <3>4. \E v \in Workers : fetch'[v] # None BY <2>2, <2>6 DEF Idle, Fetchers
    <3>5. WarmingIsHonest' BY <1>3, <1>4, <3>1, <3>4 DEF WarmingIsHonest
    <3> QED BY <2>4, <3>2, <3>3, <3>5 DEF CacheInv
  <2> QED BY <2>5, <2>6
<1> QED BY <1>6, <1>7

-----------------------------------------------------------------------------
(* The process.                                                             *)

\* The cache is loaded, or starts empty; warmDefault() may follow.
LEMMA LoadKeeps == ASSUME CacheInv, Load \/ LoadFails PROVE CacheInv'
<1>1. /\ phase = "load" /\ phase' = "up"
      /\ UNCHANGED <<todo, fetch, inflight, awaits, saves, now, tmp, file, quits>>
  BY DEF Load, LoadFails, counts
<1>2. /\ TypeOK /\ mem = Empty /\ saves = <<>> /\ warmAt = "idle" /\ ~warming
      /\ \A w \in Workers : fetch[w] = None
  BY <1>1 DEF CacheInv, SaveInv, NotLoaded, Fetchers
<1>3. \/ UNCHANGED <<warming, warmAt>>
      \/ warming' = TRUE /\ warmAt' = "list"
  BY DEF Load, LoadFails, WarmsAtStart, WarmStarts
<1>4. WarmingIsHonest' BY <1>1, <1>2, <1>3 DEF WarmingIsHonest
<1>5. QueryInv' BY <1>1, <1>2, QueriesStay DEF CacheInv
<1>6. ChainOrder' BY <1>1, <1>2 DEF ChainOrder
<1>7. NotLoaded' BY <1>1 DEF NotLoaded
<1>8. warming' \in BOOLEAN /\ warmAt' \in {"idle", "list", "work", "save"} BY <1>2, <1>3 DEF TypeOK
<1>9. CASE LoadFails
  <2>1. disk < MaxDisk /\ disk' = disk + 1 /\ UNCHANGED <<mem, stale>> BY <1>9 DEF LoadFails
  <2>2. disk \in 0 .. MaxDisk /\ MaxDisk \in Nat BY <1>2, CacheAssumption DEF TypeOK
  <2>3. disk' \in 0 .. MaxDisk /\ disk' # 0 BY <2>1, <2>2
  <2>4. TypeOK' BY <1>1, <1>2, <1>8, <2>1, <2>3 DEF TypeOK
  <2>5. SavedOrGoingTo' /\ KnownGrow' BY <2>3 DEF SavedOrGoingTo, KnownGrow
  <2> QED BY <1>4, <1>5, <1>6, <1>7, <2>4, <2>5 DEF CacheInv, SaveInv
<1>10. CASE Load
  <2>1. UNCHANGED <<disk, quits>> BY <1>10 DEF Load, counts
  <2>2. mem' \in Contents /\ stale' \in BOOLEAN /\ (\A t \in Types : mem'[t] # None => Entries(file)[t] = mem'[t])
        /\ Known(Entries(file)) \subseteq Known(mem')
    <3>1. CASE file \in Snapshot
      <4>1. mem' = file.types /\ stale' = Expired(file) BY <1>10, <3>1 DEF Load, Loaded
      <4>2. Entries(file) = file.types BY <3>1, CacheAssumption DEF Entries
      <4>3. Expired(file) \in BOOLEAN BY DEF Expired
      <4> QED BY <3>1, <4>1, <4>2, <4>3 DEF Snapshot
    <3>2. CASE file \notin Snapshot
      <4>1. UNCHANGED <<mem, stale>> BY <1>10, <3>2 DEF Load
      <4>2. Entries(file) = Empty BY <1>2, <3>2 DEF TypeOK, Files, Entries
      <4> QED BY <1>2, <4>1, <4>2 DEF TypeOK
    <3> QED BY <3>1, <3>2
  <2>3. TypeOK' BY <1>1, <1>2, <1>8, <2>1, <2>2 DEF TypeOK
  <2>4. SavedOrGoingTo' BY <1>1, <1>2, <2>2 DEF SavedOrGoingTo, SaysWhatItKnows
  <2>5. KnownGrow' BY <1>1, <1>2, <2>2 DEF KnownGrow
  <2> QED BY <1>4, <1>5, <1>6, <1>7, <2>3, <2>4, <2>5 DEF CacheInv, SaveInv
<1> QED BY <1>9, <1>10

LEMMA ShutdownKeeps == ASSUME CacheInv, Shutdown PROVE CacheInv'
<1>1. /\ phase = "up" /\ phase' = "exit" /\ saves' = Saving("exit", mem)
      /\ UNCHANGED <<mem, stale, warming, warmAt, todo, fetch, inflight, awaits, now, tmp, file, counts>>
  BY DEF Shutdown
<1>2. TypeOK BY DEF CacheInv
<1>3. PICK contents \in Contents : contents = mem BY <1>2 DEF TypeOK
<1>4. saves' = Saving("exit", contents) /\ mem' = contents BY <1>1, <1>3
<1>5. SaveInv' /\ saves' \in Seq(Save) BY <1>1, <1>2, <1>3, <1>4, ChainingKeeps DEF CacheInv, counts
<1>6. TypeOK' BY <1>1, <1>2, <1>5 DEF TypeOK, counts
<1>7. QueryInv' BY <1>1, <1>2, QueriesStay DEF CacheInv
<1>8. WarmingIsHonest' BY <1>1, WarmingStays DEF CacheInv
<1> QED BY <1>5, <1>6, <1>7, <1>8 DEF CacheInv

LEMMA QuitKeeps == ASSUME CacheInv, Quit PROVE CacheInv'
<1>1. TypeOK BY DEF CacheInv
<1>2. quits' \in 0 .. MaxQuits
  <2>1. quits \in 0 .. MaxQuits /\ MaxQuits \in Nat BY <1>1, CacheAssumption DEF TypeOK
  <2>2. quits < MaxQuits /\ quits' = quits + 1 BY DEF Quit
  <2> QED BY <2>1, <2>2
<1>3. /\ phase' = "load" /\ mem' = Empty /\ stale' = TRUE /\ warming' = FALSE /\ warmAt' = "idle" /\ todo' = {}
      /\ fetch' = [f \in Fetchers |-> None] /\ inflight' = [t \in Types |-> None]
      /\ awaits' = [c \in Callers |-> None] /\ saves' = <<>>
      /\ UNCHANGED <<now, tmp, file, disk>>
  BY DEF Quit
<1>4. TypeOK'
  <2>1. /\ fetch' \in [Fetchers -> Fetch \union {None}] /\ inflight' \in [Types -> Callers \union {None}]
        /\ awaits' \in [Callers -> Callers \union {None}] /\ saves' \in Seq(Save) /\ mem' \in Contents
    BY <1>3, EmptyTyped
  <2>2. phase' \in {"load", "up", "exit"} /\ stale' \in BOOLEAN /\ warming' \in BOOLEAN /\ todo' \subseteq Types
        /\ warmAt' \in {"idle", "list", "work", "save"}
    BY <1>3
  <2>3. now' \in Time /\ tmp' \in Snapshot \union {None} /\ file' \in Files /\ disk' \in 0 .. MaxDisk
    BY <1>1, <1>3 DEF TypeOK
  <2> QED BY <1>2, <2>1, <2>2, <2>3 DEF TypeOK
<1>5. QueryInv'
  <2>1. None \notin Callers BY CacheAssumption
  <2> QED BY <1>3, <2>1 DEF QueryInv, NobodyAwaitsTheEnded, Fetchers
<1>6. WarmingIsHonest' BY <1>3 DEF WarmingIsHonest, Fetchers
<1>7. SaveInv' BY <1>3 DEF SaveInv, ChainOrder, NotLoaded, SavedOrGoingTo, KnownGrow
<1> QED BY <1>4, <1>5, <1>6, <1>7 DEF CacheInv

LEMMA TickKeeps == ASSUME CacheInv, Tick PROVE CacheInv'
<1>1. now < MaxTime /\ now' = now + 1 /\ UNCHANGED <<memory, tmp, file, counts>> BY DEF Tick
<1>2. TypeOK BY DEF CacheInv
<1>3. now' \in Time
  <2>1. now \in 0 .. MaxTime /\ MaxTime \in Nat BY <1>2, CacheAssumption DEF TypeOK, Time
  <2> QED BY <1>1, <2>1 DEF Time
<1>4. TypeOK' BY <1>1, <1>2, <1>3 DEF TypeOK, memory, counts
<1>5. QueryInv' BY <1>1, <1>2, QueriesStay DEF CacheInv, memory
<1>6. WarmingIsHonest' BY <1>1, WarmingStays DEF CacheInv, memory
<1>7. SaveInv' BY <1>1 DEF CacheInv, SaveInv, ChainOrder, NotLoaded, SavedOrGoingTo, SaysWhatItKnows, KnownGrow,
                           memory, counts
<1> QED BY <1>4, <1>5, <1>6, <1>7 DEF CacheInv

-----------------------------------------------------------------------------
LEMMA InitOfCache == ASSUME Init PROVE CacheInv
<1>1. 0 \in Time /\ 0 \in 0 .. MaxDisk /\ 0 \in 0 .. MaxQuits BY CacheAssumption DEF Time
<1>2. [types |-> [t \in Types |-> 0], stamp |-> 0] \in Snapshot BY <1>1 DEF Snapshot, Contents, Entry
<1>3. file \in Files BY <1>2 DEF Init, Files
<1>4. TypeOK
  <2>1. /\ fetch \in [Fetchers -> Fetch \union {None}] /\ inflight \in [Types -> Callers \union {None}]
        /\ awaits \in [Callers -> Callers \union {None}] /\ saves \in Seq(Save) /\ mem \in Contents
    BY EmptyTyped DEF Init
  <2>2. phase \in {"load", "up", "exit"} /\ stale \in BOOLEAN /\ warming \in BOOLEAN /\ todo \subseteq Types
        /\ warmAt \in {"idle", "list", "work", "save"} /\ tmp \in Snapshot \union {None}
    BY DEF Init
  <2>3. now \in Time /\ disk \in 0 .. MaxDisk /\ quits \in 0 .. MaxQuits BY <1>1 DEF Init
  <2> QED BY <1>3, <2>1, <2>2, <2>3 DEF TypeOK
<1>5. QueryInv
  <2>1. None \notin Callers BY CacheAssumption
  <2> QED BY <2>1 DEF Init, QueryInv, NobodyAwaitsTheEnded, Fetchers
<1>6. WarmingIsHonest BY DEF Init, WarmingIsHonest, Fetchers
<1>7. SaveInv BY DEF Init, SaveInv, ChainOrder, NotLoaded, SavedOrGoingTo, KnownGrow
<1> QED BY <1>4, <1>5, <1>6, <1>7 DEF CacheInv

LEMMA StepKeeps == ASSUME CacheInv, [Next]_vars PROVE CacheInv'
<1>1. CASE UNCHANGED vars
  <2>1. TypeOK /\ UNCHANGED <<now, memory, tmp, file, counts>> BY <1>1 DEF CacheInv, vars
  <2>2. TypeOK' BY <2>1 DEF TypeOK, memory, counts
  <2>3. QueryInv' BY <2>1, QueriesStay DEF CacheInv, memory
  <2>4. WarmingIsHonest' BY <2>1, WarmingStays DEF CacheInv, memory
  <2>5. SaveInv' BY <2>1 DEF CacheInv, SaveInv, ChainOrder, NotLoaded, SavedOrGoingTo, SaysWhatItKnows, KnownGrow,
                             memory, counts
  <2> QED BY <2>2, <2>3, <2>4, <2>5 DEF CacheInv
<1>2. ASSUME NEW c \in Callers, QueryStep(c) \/ \E t \in Types : Ask(c, t) PROVE CacheInv'
  BY <1>2, QueryKeeps, AskKeeps
<1>3. ASSUME NEW w \in Workers, WorkerStep(w) PROVE CacheInv' BY <1>3, WorkerKeeps
<1>4. ASSUME NEW f \in Fetchers, FetchNext(f) PROVE CacheInv' BY <1>4, FetchNextKeeps
<1>5. CASE UseCcu \/ WarmListStep BY <1>5, UseCcuKeeps, WarmListsKeeps, WarmFailsKeeps DEF WarmListStep
<1>6. CASE SaveStep BY <1>6, SaveKeeps
<1>7. CASE Load \/ LoadFails \/ Shutdown \/ Quit \/ Tick BY <1>7, LoadKeeps, ShutdownKeeps, QuitKeeps, TickKeeps
<1> QED BY <1>1, <1>2, <1>3, <1>4, <1>5, <1>6, <1>7 DEF Next

(* The inductive invariant: the map, the live queries and those who await   *)
(* them agree, warming is a warm() under way, the saves form a chain whose  *)
(* head alone has taken its data, and file, head and memory know more and   *)
(* more.                                                                    *)
THEOREM SpecTypes == Spec => []CacheInv
<1>1. Init => CacheInv BY InitOfCache
<1>2. CacheInv /\ [Next]_vars => CacheInv' BY StepKeeps
<1> QED BY <1>1, <1>2, PTL DEF Spec

(* Every variable keeps its type.                                           *)
THEOREM TypesKept == Spec => []TypeOK
<1>1. CacheInv => TypeOK BY DEF CacheInv
<1> QED BY <1>1, SpecTypes, PTL

(* No two calls query the CCU for the same type at once, and inflightQueries*)
(* names the queries that run.                                              *)
THEOREM QueriesAreShared == Spec => []OneQueryPerType
<1>1. ASSUME CacheInv PROVE OneQueryPerType
  <2>1. TypeOK /\ QueryInv BY <1>1 DEF CacheInv
  <2>2. ASSUME NEW c \in Callers, NEW d \in Callers, fetch[c] # None, fetch[d] # None, fetch[c].type = fetch[d].type
        PROVE  c = d
    <3>1. PICK t \in Types : t = fetch[c].type BY <2>1, <2>2, FetchTyped DEF Fetchers
    <3> QED BY <2>1, <2>2, <3>1 DEF QueryInv
  <2> QED BY <2>1, <2>2 DEF OneQueryPerType, QueryInv
<1> QED BY <1>1, SpecTypes, PTL

(* Whoever shares a query is answered with it: the one it awaits runs.      *)
THEOREM NobodyIsForgotten == Spec => []NobodyAwaitsTheEnded
<1>1. CacheInv => NobodyAwaitsTheEnded BY DEF CacheInv, QueryInv
<1> QED BY <1>1, SpecTypes, PTL

(* this.warming is set exactly while a warm() is under way.                 *)
THEOREM WarmingIsTrue == Spec => []WarmingIsHonest
<1>1. CacheInv => WarmingIsHonest BY DEF CacheInv
<1> QED BY <1>1, SpecTypes, PTL

(* Chaining the saves loses nothing that memory knows.                      *)
THEOREM SavesAreChained == Spec => []NoSaveIsLost
<1>1. ASSUME CacheInv PROVE NoSaveIsLost
  <2>1. saves \in Seq(Save) /\ Len(saves) \in Nat /\ (saves = <<>> <=> Len(saves) = 0) BY <1>1 DEF CacheInv, TypeOK
  <2>2. SUFFICES ASSUME disk = 0, phase # "load", warmAt # "work", ~SaysWhatItKnows(Entries(file))
                 PROVE  \E i \in DOMAIN saves : saves[i].at = "wait" \/ SaysWhatItKnows(saves[i].data.types)
    BY DEF NoSaveIsLost
  <2>3. Len(saves) > 1 \/ (saves # <<>> /\ SaysWhatItKnows(saves[1].data.types))
    BY <1>1, <2>2 DEF CacheInv, SaveInv, SavedOrGoingTo
  <2>4. CASE Len(saves) > 1
    <3>1. 2 \in DOMAIN saves /\ saves[2].at = "wait" BY <1>1, <2>1, <2>4 DEF CacheInv, SaveInv, ChainOrder
    <3> QED BY <3>1
  <2>5. CASE saves # <<>> /\ SaysWhatItKnows(saves[1].data.types)
    <3>1. 1 \in DOMAIN saves BY <2>1, <2>5
    <3> QED BY <2>5, <3>1
  <2> QED BY <2>3, <2>4, <2>5
<1> QED BY <1>1, SpecTypes, PTL

\* The file changes only when the first save replaces it.
LEMMA FileStep ==
    ASSUME CacheInv, [Next]_vars, disk' = 0
    PROVE  Known(Entries(file)) \subseteq Known(Entries(file'))
<1>1. CASE file' = file BY <1>1
<1>2. CASE SaveStep
  <2>1. saves \in Seq(Save) BY DEF CacheInv, TypeOK
  <2>2. PICK i \in 1 .. Len(saves) : WriteTmp(i) \/ RenameTmp(i) \/ SaveFails(i) BY <1>2, <2>1 DEF SaveStep
  <2>3. CASE WriteTmp(i) \/ SaveFails(i) BY <2>3 DEF WriteTmp, SaveFails
  <2>4. CASE RenameTmp(i)
    <3>1. saves[i].at = "rename" /\ file' = (IF tmp = None THEN file ELSE tmp) /\ disk' = disk
      BY <2>4 DEF RenameTmp
    <3>2. i = 1 /\ saves # <<>> BY <2>1, <2>2, <3>1 DEF CacheInv, SaveInv, ChainOrder
    <3>3. tmp = saves[1].data /\ tmp \in Snapshot /\ phase # "load"
      BY <3>1, <3>2 DEF CacheInv, SaveInv, ChainOrder, NotLoaded
    <3>4. Entries(file') = saves[1].data.types BY <3>1, <3>3, CacheAssumption DEF Entries
    <3> QED BY <3>1, <3>2, <3>3, <3>4 DEF CacheInv, SaveInv, KnownGrow
  <2> QED BY <2>2, <2>3, <2>4
<1>3. file' = file \/ SaveStep
  BY DEF Next, vars, QueryStep, QueryDone, QueryFails, QueryEnds, Ask, WorkerStep, WorkerDone, WorkerFails,
         WorkerGoesOn, FetchNext, UseCcu, WarmListStep, WarmLists, WarmFails, Load, LoadFails, Shutdown, Quit, Tick
<1> QED BY <1>1, <1>2, <1>3

(* What the file knows it never forgets, unless a file operation fails.     *)
THEOREM FilesOnlyLearn == Spec => FileForgetsNothing
<1>1. CacheInv /\ [Next]_vars
        => [disk' = 0 => Known(Entries(file)) \subseteq Known(Entries(file'))]_vars
  BY FileStep
<1> QED BY <1>1, SpecTypes, PTL DEF Spec, FileForgetsNothing

=============================================================================
