--------------------------- MODULE SetupFlowProofs ---------------------------
(***************************************************************************)
(* Theorems about SetupFlow, for any CCUs, names, terminals, and any       *)
(* number of tool calls, commands, edits and renewals.                     *)
(***************************************************************************)
EXTENDS SetupFlow, SequenceTheorems, TLAPS

\* A password that is there is the one of the entry's CCU, and was entered
\* for a CCU of S.
Fits(e, S) == e.secret # None => e.secret = PasswordOf(e.host) /\ e.host \in S

Sound(f, S) == \A p \in Prefixes : Fits(f.keys[p], S)

HostsOf(f) == {EntryOf(f, n).host : n \in Targets(f)}

\* A target has a CCU.
Hosted(f) == \A n \in Targets(f) : EntryOf(f, n).host # None

\* What doctor and setup_test check was well-formed when they read it.
FitChecks == {j \in Check : j.entry.host # None /\ TlsFits(j.entry)}

\* The file, and what a command is about to make of it.
DiskFits == disk # None => Sound(disk, typed) /\ Hosted(disk)

CommandFits(t) ==
    /\ Waits(t, "hidden") =>
          /\ Sound(term[t].content, typed) /\ Hosted(term[t].content)
          /\ term[t].content.keys[term[t].prefix].host # None
    /\ Waits(t, "check") \/ Waits(t, "offer") => term[t].todo \in Seq(FitChecks) /\ term[t].todo # <<>>
    /\ Waits(t, "composed") \/ Waits(t, "replace") =>
          Sound(term[t].file, typed \union HostsOf(term[t].file)) /\ WellFormed(term[t].file)

SecretInv == TypeOK /\ DiskFits /\ \A t \in Terminals : CommandFits(t)

-----------------------------------------------------------------------------
\* Entries and files.

LEMMA BlankFits == Blank \in Entry /\ (\A S : Fits(Blank, S)) /\ TlsFits(Blank)
BY SetupAssumption DEF Blank, Entry, Fits, TlsFits

LEMMA RosterNames ==
    ASSUME NEW roster \in Seq(Names)
    PROVE  /\ Range(roster) \subseteq Names
           /\ roster # <<>> => Len(roster) \in Nat \ {0} /\ roster[1] \in Range(roster)
BY DEF Range

LEMMA FileEntries ==
    ASSUME NEW f \in File
    PROVE  /\ Targets(f) \subseteq Names
           /\ \A n \in Names : PrefixIn(f, n) \in Prefixes /\ EntryOf(f, n) \in Entry
           /\ f.roster # <<>> => Targets(f) = Range(f.roster)
<1>1. f.roster \in Seq(Names) /\ f.keys \in [Prefixes -> Entry] BY DEF File
<1>2. Range(f.roster) \subseteq Names BY <1>1, RosterNames
<1> QED BY <1>1, <1>2, SetupAssumption DEF Targets, PrefixIn, EntryOf, Prefixes

LEMMA SameHosts ==
    ASSUME NEW f \in File, NEW g \in File, g.roster = f.roster, Hosted(f),
           \A p \in Prefixes : g.keys[p].host = f.keys[p].host
    PROVE  Hosted(g)
<1>1. Targets(g) = Targets(f) BY DEF Targets, Prefixes
<1>2. \A n \in Targets(f) : EntryOf(g, n).host = EntryOf(f, n).host
  BY FileEntries DEF EntryOf, PrefixIn
<1> QED BY <1>1, <1>2 DEF Hosted

LEMMA KeyedFile ==
    ASSUME NEW f \in File, NEW p \in Prefixes, NEW key \in {"pin", "secret", "trust"}, NEW value,
           [f.keys[p] EXCEPT ![key] = value] \in Entry
    PROVE  /\ Keyed(p, key, value, f) \in File
           /\ \A q \in Prefixes : Keyed(p, key, value, f).keys[q] =
                 IF q = p THEN [f.keys[p] EXCEPT ![key] = value] ELSE f.keys[q]
           /\ Keyed(p, key, value, f).roster = f.roster /\ Keyed(p, key, value, f).dflt = f.dflt
           /\ Keyed(p, key, value, f).extra = f.extra
BY DEF Keyed, File

\* buildEnvContent() makes a file; it holds the secrets of its targets only.
LEMMA WrittenFile ==
    ASSUME NEW roster \in Seq(Names), roster # <<>>, NEW dflt \in Names \union {None},
           NEW entry \in [Names -> Entry], NEW forced \in BOOLEAN, NEW extra \in BOOLEAN
    PROVE  /\ Written(roster, dflt, entry, forced, extra) \in File
           /\ \A S : (\A n \in Range(roster) : Fits(entry[n], S)) => Sound(Written(roster, dflt, entry, forced, extra), S)
           /\ \A p \in Prefixes : \/ Written(roster, dflt, entry, forced, extra).keys[p] = Blank
                                  \/ \E n \in Range(roster) : Written(roster, dflt, entry, forced, extra).keys[p] = entry[n]
<1> DEFINE w == Written(roster, dflt, entry, forced, extra)
           flat == Len(roster) = 1 /\ ~forced
<1>1. Range(roster) \subseteq Names /\ roster[1] \in Range(roster) BY RosterNames
<1>2. Blank \in Entry /\ \A S : Fits(Blank, S) BY BlankFits
<1>3. w.keys = [p \in Prefixes |->
                    IF flat THEN (IF p = Flat THEN entry[roster[1]] ELSE Blank)
                    ELSE IF p \in Range(roster) THEN entry[p] ELSE Blank]
  BY DEF Written
<1>4. w.keys \in [Prefixes -> Entry] BY <1>1, <1>2, <1>3
<1>5. w.roster \in Seq(Names) /\ w.dflt \in Names \union {None} /\ w.extra \in BOOLEAN
  BY DEF Written, DefaultKey
<1>6. w = [roster |-> w.roster, dflt |-> w.dflt, keys |-> w.keys, extra |-> w.extra] BY DEF Written
<1>7. w \in File BY <1>4, <1>5, <1>6 DEF File
<1>8. \A p \in Prefixes : w.keys[p] = Blank \/ \E n \in Range(roster) : w.keys[p] = entry[n] BY <1>1, <1>3
<1>9. ASSUME NEW S, \A n \in Range(roster) : Fits(entry[n], S) PROVE Sound(w, S)
  BY <1>2, <1>8, <1>9 DEF Sound
<1> QED BY <1>7, <1>8, <1>9

\* The targets of a file that was written are those it was written for.
LEMMA WrittenTargets ==
    ASSUME NEW roster \in Seq(Names), roster # <<>>, NEW dflt \in Names \union {None},
           NEW entry \in [Names -> Entry], NEW forced \in BOOLEAN, NEW extra \in BOOLEAN,
           \A n \in Range(roster) : entry[n].host # None
    PROVE  LET w == Written(roster, dflt, entry, forced, extra) IN
           /\ \A m \in Targets(w) : \E n \in Range(roster) : EntryOf(w, m) = entry[n]
           /\ \A n \in Range(roster) : entry[n].host \in HostsOf(w)
           /\ Hosted(w)
           /\ \/ w.roster = <<>> /\ w.dflt = None /\ w.keys[Flat].host # None
              \/ w.roster = roster /\ w.dflt = dflt
<1> DEFINE w == Written(roster, dflt, entry, forced, extra)
<1>1. Range(roster) \subseteq Names /\ roster[1] \in Range(roster) BY RosterNames
<1>2. CASE Len(roster) = 1 /\ ~forced
  <2>1. w.roster = <<>> /\ w.dflt = None BY <1>2 DEF Written, DefaultKey
  <2>2. w.keys[Flat] = entry[roster[1]] BY <1>2 DEF Written, Prefixes
  <2>3. EntryOf(w, Default) = entry[roster[1]] BY <2>1, <2>2 DEF EntryOf, PrefixIn
  <2>4. w.keys[Flat].host # None BY <1>1, <2>2
  <2>5. Targets(w) = {Default} BY <2>1, <2>4 DEF Targets
  <2>6. \A n \in Range(roster) : n = roster[1] BY <1>2 DEF Range
  <2>7. Hosted(w) BY <1>1, <2>3, <2>5 DEF Hosted
  <2>8. \A n \in Range(roster) : entry[n].host \in HostsOf(w) BY <2>3, <2>5, <2>6 DEF HostsOf
  <2> QED BY <1>1, <2>1, <2>3, <2>4, <2>5, <2>7, <2>8
<1>3. CASE ~(Len(roster) = 1 /\ ~forced)
  <2>1. w.roster = roster /\ w.dflt = dflt BY <1>3 DEF Written, DefaultKey
  <2>2. \A n \in Range(roster) : w.keys[n] = entry[n]
    BY <1>1, <1>3, SetupAssumption DEF Written, Prefixes
  <2>3. Targets(w) = Range(roster) BY <2>1 DEF Targets
  <2>4. \A n \in Targets(w) : EntryOf(w, n) = entry[n] BY <2>1, <2>2, <2>3 DEF EntryOf, PrefixIn
  <2> QED BY <2>1, <2>3, <2>4 DEF HostsOf, Hosted
<1> QED BY <1>2, <1>3

LEMMA WrittenWellFormed ==
    ASSUME NEW roster \in Seq(Names), roster # <<>>, NEW dflt \in Range(roster),
           NEW entry \in [Names -> Entry], NEW forced \in BOOLEAN, NEW extra \in BOOLEAN,
           \A n \in Range(roster) : entry[n].host # None /\ TlsFits(entry[n])
    PROVE  WellFormed(Written(roster, dflt, entry, forced, extra))
<1> DEFINE w == Written(roster, dflt, entry, forced, extra)
<1>1. dflt \in Names \union {None} BY RosterNames
<1>2. /\ \A m \in Targets(w) : \E n \in Range(roster) : EntryOf(w, m) = entry[n]
      /\ \/ w.roster = <<>> /\ w.dflt = None /\ w.keys[Flat].host # None
         \/ w.roster = roster /\ w.dflt = dflt
  BY <1>1, WrittenTargets
<1> QED BY <1>2 DEF WellFormed

\* What setup_write_profile takes over from the file.
LEMMA PreviousFits ==
    ASSUME NEW f \in File \union {None}, NEW m \in Names
    PROVE  /\ Known(f) \in Seq(Names)
           /\ Previous(f, m) \in Entry
           /\ \A S : (f # None => Sound(f, S)) => Fits(Previous(f, m), S)
           /\ (f # None => Hosted(f)) /\ m \in Range(Known(f)) => Previous(f, m).host # None
<1>1. Known(f) \in Seq(Names) BY SetupAssumption DEF Known, File
<1>2. CASE m \notin Range(Known(f)) BY <1>1, <1>2, BlankFits DEF Previous
<1>3. CASE m \in Range(Known(f))
  <2>1. f \in File /\ f # None BY <1>3 DEF Known, Range
  <2>2. PrefixIn(f, m) \in Prefixes /\ EntryOf(f, m) \in Entry BY <2>1, FileEntries
  <2>3. Previous(f, m) = [EntryOf(f, m) EXCEPT !.trust = FALSE] BY <1>3 DEF Previous, Parsed
  <2>4. Previous(f, m) \in Entry /\ Previous(f, m).secret = EntryOf(f, m).secret
        /\ Previous(f, m).host = EntryOf(f, m).host
    BY <2>2, <2>3 DEF Entry
  <2>5. ASSUME NEW S, f # None => Sound(f, S) PROVE Fits(Previous(f, m), S)
    <3>1. Fits(EntryOf(f, m), S) BY <1>3, <2>2, <2>5 DEF Sound, EntryOf, Known, Range
    <3> QED BY <2>4, <3>1 DEF Fits
  <2>6. m \in Targets(f) BY <1>3, <2>1 DEF Targets, Known, Range
  <2> QED BY <1>1, <2>1, <2>4, <2>5, <2>6 DEF Hosted
<1> QED BY <1>2, <1>3

LEMMA UpdatedFits ==
    ASSUME NEW f \in File \union {None}, NEW n \in Names, NEW h \in Hosts,
           NEW pin \in Pin \union {None}, NEW gate \in BOOLEAN \union {None}
    PROVE  /\ Updated(f, n, h, pin, gate) \in Entry
           /\ Updated(f, n, h, pin, gate).host = h /\ Updated(f, n, h, pin, gate).pin = pin
           /\ Updated(f, n, h, pin, gate).trust = FALSE
           /\ \A S : (f # None => Sound(f, S)) => Fits(Updated(f, n, h, pin, gate), S)
<1>1. Previous(f, n) \in Entry BY PreviousFits
<1>2. Kept(Previous(f, n), h) \in Secret \union {None} BY <1>1 DEF Kept, Entry
<1>3. (IF gate = None THEN Previous(f, n).gate ELSE gate) \in BOOLEAN BY <1>1 DEF Entry
<1>4. Updated(f, n, h, pin, gate) \in Entry BY <1>2, <1>3 DEF Updated, Entry
<1>5. ASSUME NEW S, f # None => Sound(f, S) PROVE Fits(Updated(f, n, h, pin, gate), S)
  <2>1. Fits(Previous(f, n), S) BY <1>5, PreviousFits
  <2> QED BY <2>1, SetupAssumption DEF Updated, Fits, Kept
<1> QED BY <1>4, <1>5 DEF Updated

LEMMA UpsertedRange ==
    ASSUME NEW roster \in Seq(Names), NEW n \in Names
    PROVE  /\ Upserted(roster, n) \in Seq(Names) /\ Upserted(roster, n) # <<>>
           /\ Range(Upserted(roster, n)) = Range(roster) \union {n}
<1>1. CASE n \in Range(roster) BY <1>1 DEF Upserted, Range
<1>2. CASE n \notin Range(roster)
  <2>1. Upserted(roster, n) = Append(roster, n) BY <1>2 DEF Upserted
  <2>2. DOMAIN Append(roster, n) = 1 .. Len(roster) + 1 /\ DOMAIN roster = 1 .. Len(roster) OBVIOUS
  <2>3. \A i \in 1 .. Len(roster) : Append(roster, n)[i] = roster[i] OBVIOUS
  <2>4. Append(roster, n)[Len(roster) + 1] = n OBVIOUS
  <2>5. Range(Append(roster, n)) \subseteq Range(roster) \union {n} BY <2>2, <2>3, <2>4 DEF Range
  <2>6. Range(roster) \union {n} \subseteq Range(Append(roster, n)) BY <2>2, <2>3, <2>4 DEF Range
  <2> QED BY <2>1, <2>5, <2>6
<1> QED BY <1>1, <1>2

LEMMA ProfiledFits ==
    ASSUME NEW f \in File \union {None}, NEW n \in Names, NEW h \in Hosts,
           NEW pin \in Pin \union {None}, NEW gate \in BOOLEAN \union {None}, NEW makeDefault \in BOOLEAN
    PROVE  /\ Profiled(f, n, h, pin, gate, makeDefault) \in File
           /\ \A S : (f # None => Sound(f, S)) => Sound(Profiled(f, n, h, pin, gate, makeDefault), S)
           /\ (f # None => Hosted(f)) => Hosted(Profiled(f, n, h, pin, gate, makeDefault))
<1> DEFINE roster == Upserted(Known(f), n)
           dflt == NewDefault(f, roster, n, makeDefault)
           entry == [m \in Names |-> IF m = n THEN Updated(f, n, h, pin, gate) ELSE Previous(f, m)]
           forced == roster # <<Default>>
           extra == f # None /\ f.extra
<1>1. Known(f) \in Seq(Names) /\ n \in Names BY PreviousFits
<1>2. roster \in Seq(Names) /\ roster # <<>> BY <1>1, UpsertedRange
<1>10. Range(roster) = Range(Known(f)) \union {n} BY <1>1, UpsertedRange
<1>11. entry[n].host = h /\ \A m \in Names \ {n} : entry[m] = Previous(f, m) BY DEF Updated
<1>3. dflt \in Names \union {None}
  <2>1. roster[1] \in Range(roster) /\ Range(roster) \subseteq Names BY <1>2, RosterNames
  <2> HIDE DEF roster
  <2> QED BY <2>1 DEF NewDefault
<1>4. entry \in [Names -> Entry] BY PreviousFits, UpdatedFits
<1>5. forced \in BOOLEAN /\ extra \in BOOLEAN BY DEF File
<1>6. Profiled(f, n, h, pin, gate, makeDefault) = Written(roster, dflt, entry, forced, extra) BY DEF Profiled
<1>7. ASSUME NEW S, f # None => Sound(f, S), NEW m \in Range(roster) PROVE Fits(entry[m], S)
  <2>1. m \in Names BY <1>2, <1>7, RosterNames
  <2> QED BY <1>7, <2>1, PreviousFits, UpdatedFits
<1> HIDE DEF roster, dflt, entry, forced, extra
<1>8. /\ Written(roster, dflt, entry, forced, extra) \in File
      /\ \A S : (\A m \in Range(roster) : Fits(entry[m], S)) => Sound(Written(roster, dflt, entry, forced, extra), S)
  BY <1>2, <1>3, <1>4, <1>5, WrittenFile
<1>9. ASSUME f # None => Hosted(f) PROVE Hosted(Written(roster, dflt, entry, forced, extra))
  <2>1. ASSUME NEW m \in Range(roster) PROVE entry[m].host # None
    <3>1. m \in Names BY <1>2, RosterNames
    <3>2. m = n \/ m \in Range(Known(f)) BY <1>10, <2>1
    <3>3. m = n => entry[m].host = h BY <1>11
    <3>4. m # n => entry[m].host # None BY <1>9, <1>11, <3>1, <3>2, PreviousFits
    <3> QED BY <3>3, <3>4, SetupAssumption
  <2> QED BY <1>2, <1>3, <1>4, <1>5, <2>1, WrittenTargets
<1> QED BY <1>6, <1>7, <1>8, <1>9

LEMMA CertPin == ASSUME TypeOK, NEW h \in Hosts PROVE Cert(h) \in Pin /\ Cert(h)[1] = h
<1>1. cert[h] \in 0 .. MaxRenewals BY DEF TypeOK
<1> QED BY <1>1 DEF Cert, Pin

\* What init composes from the answers.
LEMMA ComposedFits ==
    ASSUME TypeOK, NEW a \in Answers
    PROVE  /\ Composed(a) \in File /\ WellFormed(Composed(a)) /\ Hosted(Composed(a))
           /\ Sound(Composed(a), HostsOf(Composed(a)))
<1> DEFINE roster == a.roster
           entry == [n \in Names |-> [host |-> a.host[n], secret |-> PasswordOf(a.host[n]), trust |-> FALSE,
                              pin |-> IF a.pinned /\ a.host[n] \in Https THEN Cert(a.host[n]) ELSE None,
                              gate |-> a.gate]]
           w == Composed(a)
<1>1. w = Written(roster, roster[1], entry, FALSE, FALSE) BY DEF Composed
<1>2. /\ a.host \in [Names -> Hosts] /\ a.pinned \in BOOLEAN /\ a.gate \in BOOLEAN
      /\ a.roster \in {<<n>> : n \in Names} \union {<<Default, n>> : n \in Names \ {Default}}
  BY SetupAssumption DEF Answers
<1>3. roster \in Seq(Names) /\ roster # <<>>
  <2>1. ASSUME NEW n \in Names PROVE <<n>> \in Seq(Names) /\ <<n>> # <<>> OBVIOUS
  <2>2. ASSUME NEW n \in Names PROVE <<Default, n>> \in Seq(Names) /\ <<Default, n>> # <<>> BY SetupAssumption
  <2> QED BY <1>2, <2>1, <2>2
<1>4. ASSUME NEW n \in Names
      PROVE  entry[n] \in Entry /\ entry[n].host # None /\ TlsFits(entry[n]) /\ Fits(entry[n], {entry[n].host})
  <2>1. a.host[n] \in Hosts /\ PasswordOf(a.host[n]) \in {a.host[n], Empty} BY <1>2 DEF PasswordOf
  <2>2. Cert(a.host[n]) \in Pin BY <2>1, CertPin
  <2>3. entry[n] \in Entry BY <1>2, <2>1, <2>2 DEF Entry, Secret
  <2>4. entry[n].host # None /\ TlsFits(entry[n]) BY <2>1, SetupAssumption DEF TlsFits
  <2>5. Fits(entry[n], {entry[n].host}) BY <2>1, SetupAssumption DEF Fits
  <2> QED BY <2>3, <2>4, <2>5
<1>5. entry \in [Names -> Entry] BY <1>4
<1>6. roster[1] \in Range(roster) /\ Range(roster) \subseteq Names BY <1>3, RosterNames
<1> HIDE DEF roster, entry, w
<1>7. WellFormed(w) /\ Hosted(w) /\ \A n \in Range(roster) : entry[n].host \in HostsOf(w)
  <2>1. roster[1] \in Names \union {None} /\ FALSE \in BOOLEAN BY <1>6
  <2>2. \A n \in Range(roster) : entry[n].host # None /\ TlsFits(entry[n]) BY <1>4, <1>6
  <2>3. WellFormed(w) BY <1>1, <1>3, <1>5, <1>6, <2>1, <2>2, WrittenWellFormed
  <2>4. Hosted(w) /\ \A n \in Range(roster) : entry[n].host \in HostsOf(w)
    BY <1>1, <1>3, <1>5, <2>1, <2>2, WrittenTargets
  <2> QED BY <2>3, <2>4
<1>8. \A n \in Range(roster) : Fits(entry[n], HostsOf(w)) BY <1>4, <1>6, <1>7 DEF Fits
<1>9. /\ Written(roster, roster[1], entry, FALSE, FALSE) \in File
      /\ \A S : (\A m \in Range(roster) : Fits(entry[m], S)) => Sound(Written(roster, roster[1], entry, FALSE, FALSE), S)
  BY <1>3, <1>5, <1>6, WrittenFile
<1>10. w \in File /\ Sound(w, HostsOf(w)) BY <1>1, <1>8, <1>9
<1> QED BY <1>7, <1>10 DEF w

\* mergeEnvContent() keeps the other lines, and changes no key.
LEMMA MergedFits ==
    ASSUME NEW f \in File, disk \in File \union {None}
    PROVE  /\ Merged(f) \in File
           /\ Merged(f).keys = f.keys /\ HostsOf(Merged(f)) = HostsOf(f)
           /\ Targets(Merged(f)) = Targets(f) /\ \A n \in Targets(f) : EntryOf(Merged(f), n) = EntryOf(f, n)
           /\ WellFormed(f) => WellFormed(Merged(f)) /\ Hosted(Merged(f))
           /\ \A S : Sound(f, S) => Sound(Merged(f), S)
<1>1. /\ Merged(f).keys = f.keys /\ Merged(f).roster = f.roster /\ Merged(f).dflt = f.dflt
      /\ Merged(f).extra \in BOOLEAN /\ Merged(f) \in File
  BY DEF Merged, File
<1>2. Targets(Merged(f)) = Targets(f) /\ \A n \in Targets(f) : EntryOf(Merged(f), n) = EntryOf(f, n)
  BY <1>1 DEF Targets, EntryOf, PrefixIn
<1>3. HostsOf(Merged(f)) = HostsOf(f) BY <1>2 DEF HostsOf
<1> QED BY <1>1, <1>2, <1>3 DEF WellFormed, Sound, Hosted

-----------------------------------------------------------------------------
\* Steps.

LEMMA SoundMore == ASSUME NEW f, NEW S, NEW S2, S \subseteq S2, Sound(f, S) PROVE Sound(f, S2)
BY DEF Sound, Fits

\* What goes on elsewhere: the file is sound, and the terminals are as before.
LEMMA ElsewhereKeeps ==
    ASSUME SecretInv, TypeOK', DiskFits', typed \subseteq typed', term' = term
    PROVE  SecretInv'
<1>1. ASSUME NEW t \in Terminals PROVE CommandFits(t)'
  <2>1. CommandFits(t) BY DEF SecretInv
  <2>2. typed \union HostsOf(term[t].file) \subseteq typed' \union HostsOf(term[t].file) OBVIOUS
  <2>3. \A place : Waits(t, place)' <=> Waits(t, place) BY DEF Waits
  <2> QED BY <2>1, <2>2, <2>3, SoundMore DEF CommandFits
<1> QED BY <1>1 DEF SecretInv

\* A step of the command in terminal t.
LEMMA TerminalKeeps ==
    ASSUME SecretInv, TypeOK', DiskFits', typed \subseteq typed',
           NEW t \in Terminals, NEW x, term' = [term EXCEPT ![t] = x], CommandFits(t)'
    PROVE  SecretInv'
<1>1. ASSUME NEW u \in Terminals, u # t PROVE CommandFits(u)'
  <2>1. CommandFits(u) BY DEF SecretInv
  <2>2. term'[u] = term[u] BY <1>1 DEF SecretInv, TypeOK
  <2>3. typed \union HostsOf(term[u].file) \subseteq typed' \union HostsOf(term[u].file) OBVIOUS
  <2>4. \A place : Waits(u, place)' <=> Waits(u, place) BY <2>2 DEF Waits
  <2> QED BY <2>1, <2>2, <2>3, <2>4, SoundMore DEF CommandFits
<1> QED BY <1>1 DEF SecretInv

\* One that ends.
LEMMA LeavingKeeps ==
    ASSUME SecretInv, TypeOK', DiskFits', typed \subseteq typed', NEW t \in Terminals, Leaves(t)
    PROVE  SecretInv'
<1>1. term' = [term EXCEPT ![t] = None] /\ term'[t] = None BY DEF Leaves, SecretInv, TypeOK
<1>2. CommandFits(t)' BY <1>1 DEF CommandFits, Waits
<1> QED BY <1>1, <1>2, TerminalKeeps

LEMMA StartKeeps == ASSUME SecretInv, NEW eligible \in BOOLEAN, Start(eligible) PROVE SecretInv'
<1>1. TypeOK' BY DEF SecretInv, TypeOK, Start, Starts, NoTest, history
<1>2. DiskFits' BY DEF SecretInv, DiskFits, Start, history
<1> QED BY <1>1, <1>2, ElsewhereKeeps DEF Start, history

LEMMA WriteProfileKeeps ==
    ASSUME SecretInv, NEW n \in Names, NEW h \in Hosts, NEW pinned \in BOOLEAN,
           NEW gate \in Gates \union {None}, NEW makeDefault \in BOOLEAN,
           WriteProfile(n, h, pinned, gate, makeDefault)
    PROVE  SecretInv'
<1> DEFINE pin == IF pinned THEN Cert(h) ELSE None
<1>1. pin \in Pin \union {None} BY CertPin DEF SecretInv
<1>2. disk \in File \union {None} /\ gate \in BOOLEAN \union {None} BY SetupAssumption DEF SecretInv, TypeOK
<1>3. /\ disk' = Profiled(disk, n, h, pin, gate, makeDefault)
      /\ UNCHANGED <<cert, server, test, term, typed, strayPin>>
      /\ asked' = IF gate = None THEN asked ELSE [asked EXCEPT ![n] = gate]
      /\ acts < MaxActs /\ acts' = acts + 1
  BY DEF WriteProfile, Acts
<1> HIDE DEF pin
<1>4. disk' \in File /\ Sound(disk', typed) /\ Hosted(disk') BY <1>1, <1>2, <1>3, ProfiledFits DEF SecretInv, DiskFits
<1>5. TypeOK' BY <1>2, <1>3, <1>4, SetupAssumption DEF SecretInv, TypeOK
<1>6. DiskFits' BY <1>3, <1>4 DEF DiskFits
<1> QED BY <1>3, <1>5, <1>6, ElsewhereKeeps

-----------------------------------------------------------------------------
\* setup_test: it reads only.
LEMMA JobsTyped ==
    ASSUME NEW f \in File, f # None, WellFormed(f)
    PROVE  Jobs(f) \in Seq(FitChecks) /\ Jobs(f) # <<>> /\ Jobs(f) \in Seq(Check)
<1>1. Known(f) \in Seq(Names) BY PreviousFits, SetupAssumption
<1>2. Range(Known(f)) = Targets(f) /\ Known(f) # <<>>
  BY DEF Known, Targets, Range, WellFormed
<1>3. \A n \in Names : Job(f, n) \in Check BY FileEntries DEF Job, Check
<1>4. \A n \in Targets(f) : Job(f, n) \in FitChecks
  BY <1>3, FileEntries DEF WellFormed, Job, FitChecks
<1>5. \A i \in DOMAIN Known(f) : Known(f)[i] \in Targets(f) BY <1>2 DEF Range
<1>6. DOMAIN Known(f) = 1 .. Len(Known(f)) /\ Len(Known(f)) \in Nat BY <1>1
<1>7. Jobs(f) \in Seq(FitChecks) BY <1>4, <1>5, <1>6 DEF Jobs
<1>8. Jobs(f) \in Seq(Check) BY <1>1, <1>3 DEF Jobs
<1>9. Jobs(f) # <<>> BY <1>1, <1>2 DEF Jobs
<1> QED BY <1>7, <1>8, <1>9

Tests == [place: {"idle", "probe", "pin", "login", "green", "red"}, ok: BOOLEAN,
          todo: Seq(Check), targets: SUBSET Check]

LEMMA NoTestTyped == NoTest \in Tests
BY DEF NoTest, Tests

LEMMA FoundTyped == ASSUME NEW finding \in BOOLEAN, test \in Tests PROVE Found(finding) \in Tests
<1> DEFINE ok == Verdict(test.ok, finding)
<1>1. ok \in BOOLEAN /\ test.todo \in Seq(Check) BY DEF Verdict, Tests
<1>2. Len(test.todo) > 1 => Tail(test.todo) \in Seq(Check) BY <1>1, HeadTailProperties
<1>3. [test EXCEPT !.place = "green", !.todo = <<>>] \in Tests
  <2>1. <<>> \in Seq(Check) OBVIOUS
  <2> QED BY <2>1 DEF Tests
<1>4. [NoTest EXCEPT !.place = "red"] \in Tests BY NoTestTyped DEF Tests
<1> HIDE DEF ok
<1>5. ASSUME Len(test.todo) > 1
      PROVE  [test EXCEPT !.place = "probe", !.ok = ok, !.todo = Tail(@)] \in Tests
  <2>1. Tail(test.todo) \in Seq(Check) BY <1>2, <1>5
  <2>2. \A todo \in Seq(Check) : [test EXCEPT !.place = "probe", !.ok = ok, !.todo = todo] \in Tests
    BY <1>1 DEF Tests
  <2> QED BY <2>1, <2>2
<1> QED BY <1>3, <1>4, <1>5 DEF Found, ok

TestSteps == TestStarts \/ TestProbes \/ TestComparesPin \/ TestLogsIn

LEMMA TestTyped == ASSUME TypeOK, TestSteps PROVE test' \in Tests
<1>1. test \in Tests BY DEF TypeOK, Tests
<1>2. \A place \in {"pin", "login"} : [test EXCEPT !.place = place] \in Tests BY <1>1 DEF Tests
<1>3. CASE TestStarts
  <2>1. CASE Loads(disk)
    <3>1. Jobs(disk) \in Seq(Check) BY <2>1, JobsTyped DEF Loads, TypeOK
    <3>2. Range(Jobs(disk)) \subseteq Check BY <3>1 DEF Range
    <3> QED BY <1>3, <2>1, <3>1, <3>2 DEF TestStarts, Tests
  <2>2. CASE ~Loads(disk) BY <1>3, <2>2, NoTestTyped DEF TestStarts, Tests
  <2> QED BY <2>1, <2>2
<1>4. CASE TestProbes BY <1>1, <1>2, <1>4, FoundTyped DEF TestProbes
<1>5. CASE TestComparesPin BY <1>1, <1>2, <1>5, FoundTyped DEF TestComparesPin
<1>6. CASE TestLogsIn BY <1>1, <1>2, <1>6, FoundTyped DEF TestLogsIn
<1> QED BY <1>3, <1>4, <1>5, <1>6 DEF TestSteps

LEMMA TestStepsKeep == ASSUME SecretInv, TestSteps PROVE SecretInv'
<1>1. UNCHANGED <<disk, cert, server, term, acts, typed, asked, strayPin>>
  BY DEF TestSteps, TestStarts, TestProbes, TestComparesPin, TestLogsIn, TestUnchanged, history
<1>2. TypeOK' BY <1>1, TestTyped DEF SecretInv, TypeOK, Tests
<1>3. DiskFits' BY <1>1 DEF SecretInv, DiskFits
<1> QED BY <1>1, <1>2, <1>3, ElsewhereKeeps

-----------------------------------------------------------------------------
\* The commands.
LEMMA WaitsTyped ==
    ASSUME TypeOK, NEW t \in Terminals
    PROVE  /\ Waits(t, "hidden") => term[t].content \in File /\ term[t].prefix \in Prefixes
           /\ Waits(t, "check") \/ Waits(t, "offer") => term[t].todo \in Seq(Check)
           /\ Waits(t, "offer") => term[t].presented \in Pin
           /\ Waits(t, "composed") \/ Waits(t, "replace") => term[t].file \in File
<1>1. term[t] # None => term[t] \in Suspended BY DEF TypeOK
<1> QED BY <1>1 DEF Waits, Suspended

LEMMA SecretPromptsKeeps ==
    ASSUME SecretInv, NEW t \in Terminals, NEW n \in Names, SecretPrompts(t, n) PROVE SecretInv'
<1> DEFINE x == [place |-> "hidden", content |-> disk, prefix |-> PrefixIn(disk, n)]
<1>1. /\ disk # None /\ term' = [term EXCEPT ![t] = x] /\ acts < MaxActs /\ acts' = acts + 1
      /\ UNCHANGED <<disk, cert, server, test, typed, asked, strayPin>>
  BY DEF SecretPrompts, Runs, Acts, history
<1>2. x \in Suspended BY <1>1, FileEntries DEF SecretInv, TypeOK, Suspended
<1>3. TypeOK' BY <1>1, <1>2, SetupAssumption DEF SecretInv, TypeOK
<1>4. DiskFits' BY <1>1 DEF SecretInv, DiskFits
<1>5. CommandFits(t)'
  <2>1. term'[t] = x BY <1>1 DEF SecretInv, TypeOK
  <2>2. disk.keys[PrefixIn(disk, n)].host # None
    BY DEF SecretPrompts, SecretInv, DiskFits, Hosted, Targets, EntryOf, PrefixIn
  <2> QED BY <1>1, <2>1, <2>2 DEF CommandFits, Waits, SecretInv, DiskFits
<1> QED BY <1>1, <1>3, <1>4, <1>5, TerminalKeeps

LEMMA SecretTypedKeeps ==
    ASSUME SecretInv, NEW t \in Terminals, SecretTyped(t) PROVE SecretInv'
<1> DEFINE f == term[t].content
           p == term[t].prefix
           h == f.keys[p].host
           e == [f.keys[p] EXCEPT !["secret"] = PasswordOf(h)]
<1>1. /\ Waits(t, "hidden") /\ Leaves(t) /\ disk' = Keyed(p, "secret", PasswordOf(h), f)
      /\ typed' = typed \union {h} /\ UNCHANGED <<cert, server, test, acts, asked, strayPin>>
  BY DEF SecretTyped, SecretBase
<1>2. f \in File /\ p \in Prefixes BY <1>1, WaitsTyped DEF SecretInv
<1>3. Sound(f, typed) /\ Hosted(f) /\ h # None BY <1>1 DEF SecretInv, CommandFits
<1>4. f.keys[p] \in Entry /\ h \in Hosts BY <1>2, <1>3 DEF File, Entry
<1>5. PasswordOf(h) \in {h, Empty} BY DEF PasswordOf
<1>6. e \in Entry /\ e.host = h /\ e.secret = PasswordOf(h) BY <1>4, <1>5 DEF Entry, Secret
<1> HIDE DEF f, p, h, e
<1>7. Fits(e, typed') BY <1>1, <1>4, <1>5, <1>6, SetupAssumption DEF Fits
<1>8. /\ disk' \in File /\ disk'.roster = f.roster
      /\ \A q \in Prefixes : disk'.keys[q] = IF q = p THEN e ELSE f.keys[q]
  BY <1>1, <1>2, <1>6, KeyedFile DEF e
<1>9. Sound(disk', typed') BY <1>1, <1>3, <1>7, <1>8 DEF Sound, Fits
<1>10. Hosted(disk')
  <2>1. \A q \in Prefixes : disk'.keys[q].host = f.keys[q].host BY <1>6, <1>8 DEF h
  <2> QED BY <1>2, <1>3, <1>8, <2>1, SameHosts
<1>11. TypeOK' BY <1>1, <1>4, <1>8 DEF SecretInv, TypeOK, Leaves
<1>12. DiskFits' BY <1>9, <1>10 DEF DiskFits
<1> QED BY <1>1, <1>11, <1>12, LeavingKeeps

\* doctor: any pin may be written, no host and no secret.
LEMMA DoctorStartsKeeps ==
    ASSUME SecretInv, NEW t \in Terminals, DoctorStarts(t) PROVE SecretInv'
<1> DEFINE x == [place |-> "check", todo |-> Jobs(disk)]
<1>1. /\ Loads(disk) /\ term' = [term EXCEPT ![t] = x] /\ acts < MaxActs /\ acts' = acts + 1
      /\ UNCHANGED <<disk, cert, server, test, typed, asked, strayPin>>
  BY DEF DoctorStarts, Runs, Acts, history
<1>2. Jobs(disk) \in Seq(Check) /\ Jobs(disk) \in Seq(FitChecks) /\ Jobs(disk) # <<>>
  BY <1>1, JobsTyped DEF SecretInv, TypeOK, Loads
<1>3. x \in Suspended BY <1>2 DEF Suspended
<1>4. TypeOK' BY <1>1, <1>3, SetupAssumption DEF SecretInv, TypeOK
<1>5. DiskFits' BY <1>1 DEF SecretInv, DiskFits
<1>6. CommandFits(t)'
  <2>1. term'[t] = x BY <1>1 DEF SecretInv, TypeOK
  <2> QED BY <1>2, <2>1 DEF CommandFits, Waits
<1> QED BY <1>1, <1>4, <1>5, <1>6, TerminalKeeps

LEMMA FitSequences == ASSUME NEW todo \in Seq(FitChecks) PROVE todo \in Seq(Check)
<1>1. FitChecks \subseteq Check BY DEF FitChecks
<1> QED BY <1>1

LEMMA TailMore ==
    ASSUME NEW S, NEW s \in Seq(S), Len(s) > 1
    PROVE  Tail(s) \in Seq(S) /\ Tail(s) # <<>>
<1> DEFINE n == Len(s)
           rest == Tail(s)
<1>1. s # <<>> /\ n \in Nat OBVIOUS
<1>2. rest \in Seq(S) /\ Len(rest) = n - 1 BY <1>1, HeadTailProperties
<1>3. n > 1 OBVIOUS
<1> HIDE DEF n, rest
<1>4. Len(rest) # 0 BY <1>1, <1>2, <1>3
<1>5. rest # <<>> BY <1>4
<1> QED BY <1>2, <1>5 DEF rest

LEMMA TailNone ==
    ASSUME NEW S, NEW s \in Seq(S), s # <<>>, ~(Len(s) > 1)
    PROVE  Tail(s) = <<>>
<1> DEFINE n == Len(s)
           rest == Tail(s)
<1>1. n \in Nat /\ n # 0 /\ ~(n > 1) OBVIOUS
<1>2. rest \in Seq(S) /\ Len(rest) = n - 1 BY HeadTailProperties
<1> HIDE DEF n, rest
<1>3. n = 1 BY <1>1
<1>4. Len(rest) = 0 BY <1>2, <1>3
<1>5. rest = <<>> BY <1>2, <1>4
<1> QED BY <1>5 DEF rest

LEMMA NextCheckTyped ==
    ASSUME NEW t \in Terminals, term[t].todo \in Seq(FitChecks)
    PROVE  /\ NextCheck(t) \in Suspended \union {None}
           /\ NextCheck(t) # None =>
                 NextCheck(t).place = "check" /\ NextCheck(t).todo \in Seq(FitChecks) /\ NextCheck(t).todo # <<>>
<1>1. Len(term[t].todo) > 1 => Tail(term[t].todo) \in Seq(FitChecks) /\ Tail(term[t].todo) # <<>>
  BY TailMore
<1>2. \A todo \in Seq(FitChecks) : [place |-> "check", todo |-> todo] \in Suspended
  BY FitSequences DEF Suspended
<1> QED BY <1>1, <1>2 DEF NextCheck

\* On to the next check: nothing else has changed but, maybe, the file.
LEMMA NextCheckKeeps ==
    ASSUME SecretInv, NEW t \in Terminals, Waits(t, "check") \/ Waits(t, "offer"),
           term' = [term EXCEPT ![t] = NextCheck(t)], disk' \in File \union {None}, DiskFits', strayPin' \in BOOLEAN,
           UNCHANGED <<cert, server, test, acts, typed, asked>>
    PROVE  SecretInv'
<1>1. term[t].todo \in Seq(FitChecks) BY DEF SecretInv, CommandFits
<1>2. term'[t] = NextCheck(t) BY DEF SecretInv, TypeOK
<1>3. TypeOK' BY <1>1, NextCheckTyped DEF SecretInv, TypeOK
<1>4. CommandFits(t)' BY <1>1, <1>2, NextCheckTyped DEF CommandFits, Waits
<1> QED BY <1>3, <1>4, TerminalKeeps

LEMMA DoctorChecksKeeps ==
    ASSUME SecretInv, NEW t \in Terminals, DoctorChecks(t) PROVE SecretInv'
<1> DEFINE todo == term[t].todo
           x == [place |-> "offer", todo |-> todo, presented |-> Cert(Head(todo).entry.host)]
<1>1. Waits(t, "check") /\ UNCHANGED <<disk, cert, server, test, acts, typed, asked, strayPin>>
  BY DEF DoctorChecks, history
<1>2. todo \in Seq(FitChecks) /\ todo # <<>> BY <1>1 DEF SecretInv, CommandFits
<1>3. DiskFits' BY <1>1 DEF SecretInv, DiskFits
<1>4. CASE term' = [term EXCEPT ![t] = NextCheck(t)]
  BY <1>1, <1>3, <1>4, NextCheckKeeps DEF SecretInv, TypeOK
<1>5. CASE term' = [term EXCEPT ![t] = x]
  <2>1. Head(todo) \in FitChecks BY <1>2, HeadTailProperties
  <2>2. Cert(Head(todo).entry.host) \in Pin
    BY <2>1, CertPin DEF SecretInv, FitChecks, Check, Entry
  <2>3. x \in Suspended BY <1>2, <2>2, FitSequences DEF Suspended
  <2>4. TypeOK' BY <1>1, <1>5, <2>3 DEF SecretInv, TypeOK
  <2>5. term'[t] = x BY <1>5 DEF SecretInv, TypeOK
  <2>6. CommandFits(t)' BY <1>2, <2>5 DEF CommandFits, Waits
  <2> QED BY <1>1, <1>3, <1>5, <2>4, <2>6, TerminalKeeps
<1>6. term' = [term EXCEPT ![t] = NextCheck(t)] \/ term' = [term EXCEPT ![t] = x]
  BY DEF DoctorChecks, SecretInv, TypeOK
<1> QED BY <1>4, <1>5, <1>6

LEMMA DoctorAnsweredKeeps ==
    ASSUME SecretInv, NEW t \in Terminals, NEW yes \in BOOLEAN, DoctorAnswered(t, yes) PROVE SecretInv'
<1> DEFINE todo == term[t].todo
           p == Head(todo).prefix
           pin == term[t].presented
           e == [disk.keys[p] EXCEPT !["pin"] = pin]
<1>1. /\ Waits(t, "offer") /\ term' = [term EXCEPT ![t] = NextCheck(t)]
      /\ UNCHANGED <<cert, server, test, acts, typed, asked>>
  BY DEF DoctorAnswered
<1>2. pin \in Pin /\ todo \in Seq(FitChecks) /\ todo # <<>>
  BY <1>1, WaitsTyped DEF SecretInv, CommandFits
<1>3. CASE UNCHANGED <<disk, strayPin>>
  <2>1. DiskFits' BY <1>1, <1>3 DEF SecretInv, DiskFits
  <2> QED BY <1>1, <1>3, <2>1, NextCheckKeeps DEF SecretInv, TypeOK
<1>4. CASE ~UNCHANGED <<disk, strayPin>>
  <2>1. disk # None /\ disk' = Keyed(p, "pin", pin, disk) /\ strayPin' \in BOOLEAN
    BY <1>4 DEF DoctorAnswered, DoctorBase, SecretInv, TypeOK
  <2>2. disk \in File /\ Sound(disk, typed) /\ Hosted(disk) BY <2>1 DEF SecretInv, TypeOK, DiskFits
  <2>3. p \in Prefixes BY <1>2, HeadTailProperties DEF FitChecks, Check
  <2>4. disk.keys[p] \in Entry BY <2>2, <2>3 DEF File
  <2>5. e \in Entry /\ e.host = disk.keys[p].host /\ e.secret = disk.keys[p].secret
    BY <1>2, <2>4 DEF Entry
  <2> HIDE DEF p, pin, e
  <2>6. /\ disk' \in File /\ disk'.roster = disk.roster
        /\ \A q \in Prefixes : disk'.keys[q] = IF q = p THEN e ELSE disk.keys[q]
    BY <2>1, <2>2, <2>3, <2>5, KeyedFile DEF e
  <2>7. Sound(disk', typed) BY <2>2, <2>5, <2>6 DEF Sound, Fits
  <2>8. Hosted(disk') BY <2>2, <2>5, <2>6, SameHosts
  <2>9. DiskFits' BY <1>1, <2>7, <2>8 DEF DiskFits
  <2> QED BY <1>1, <2>1, <2>6, <2>9, NextCheckKeeps
<1> QED BY <1>3, <1>4

\* init: what it composed goes to the file, and with it the passwords that
\* were typed.
LEMMA InitAsksKeeps ==
    ASSUME SecretInv, NEW t \in Terminals, NEW a \in Answers, InitAsks(t, a) PROVE SecretInv'
<1> DEFINE f == Composed(a)
           x == [place |-> "composed", file |-> f]
<1>1. /\ term' = [term EXCEPT ![t] = x] /\ acts < MaxActs /\ acts' = acts + 1
      /\ UNCHANGED <<disk, cert, server, test, typed, asked, strayPin>>
  BY DEF InitAsks, Runs, Acts, history
<1>2. f \in File /\ WellFormed(f) /\ Sound(f, HostsOf(f)) BY ComposedFits DEF SecretInv
<1> HIDE DEF f
<1>3. x \in Suspended BY <1>2 DEF Suspended
<1>4. TypeOK' BY <1>1, <1>3, SetupAssumption DEF SecretInv, TypeOK
<1>5. DiskFits' BY <1>1 DEF SecretInv, DiskFits
<1>6. CommandFits(t)'
  <2>1. term'[t] = x BY <1>1 DEF SecretInv, TypeOK
  <2>2. Sound(f, typed' \union HostsOf(f)) BY <1>2, SoundMore
  <2> QED BY <1>2, <2>1, <2>2 DEF CommandFits, Waits
<1> QED BY <1>1, <1>4, <1>5, <1>6, TerminalKeeps

LEMMA ReplacedKeeps ==
    ASSUME SecretInv, NEW t \in Terminals, Leaves(t), NEW f \in File, Replaced(f),
           WellFormed(f), Sound(f, typed \union HostsOf(f)),
           UNCHANGED <<cert, server, test, acts, strayPin>>
    PROVE  SecretInv'
<1>1. disk' = f /\ typed' = typed \union HostsOf(f) BY DEF Replaced, HostsOf
<1>2. HostsOf(f) \subseteq Hosts
  <2>1. ASSUME NEW n \in Targets(f) PROVE EntryOf(f, n).host \in Hosts
    BY FileEntries DEF WellFormed, Entry
  <2> QED BY <2>1 DEF HostsOf
<1>3. Hosted(f) BY DEF WellFormed, Hosted
<1>4. asked' \in [Names -> BOOLEAN]
  <2>1. \A n \in Names : (n \in Targets(f) /\ EntryOf(f, n).gate) \in BOOLEAN OBVIOUS
  <2> QED BY <2>1 DEF Replaced
<1>5. TypeOK' BY <1>1, <1>2, <1>4 DEF SecretInv, TypeOK, Leaves
<1>6. DiskFits' BY <1>1, <1>3 DEF DiskFits
<1> QED BY <1>1, <1>5, <1>6, LeavingKeeps

LEMMA InitMergesKeeps ==
    ASSUME SecretInv, NEW t \in Terminals, InitMerges(t) PROVE SecretInv'
<1> DEFINE f == Merged(term[t].file)
           S == typed \union HostsOf(term[t].file)
           x == [term[t] EXCEPT !.place = "replace", !.file = f]
<1>1. Waits(t, "composed") /\ UNCHANGED <<cert, server, test, acts, strayPin>> BY DEF InitMerges
<1>2. /\ term[t].file \in File /\ WellFormed(term[t].file) /\ Sound(term[t].file, S)
      /\ disk \in File \union {None} /\ term[t] \in Suspended
  BY <1>1, WaitsTyped DEF SecretInv, CommandFits, TypeOK, Waits
<1>3. f \in File /\ WellFormed(f) /\ Sound(f, S) /\ HostsOf(f) = HostsOf(term[t].file)
  BY <1>2, MergedFits
<1>4. CASE disk # None /\ Managed(disk)
  <2>1. UNCHANGED <<disk, typed, asked>> /\ term' = [term EXCEPT ![t] = [place |-> "replace", file |-> f]]
    BY <1>4 DEF InitMerges
  <2> HIDE DEF f
  <2>2. [place |-> "replace", file |-> f] \in Suspended BY <1>3 DEF Suspended
  <2>3. TypeOK' BY <1>1, <2>1, <2>2 DEF SecretInv, TypeOK
  <2>4. DiskFits' BY <2>1 DEF SecretInv, DiskFits
  <2>5. term'[t] = [place |-> "replace", file |-> f] BY <2>1 DEF SecretInv, TypeOK
  <2>6. Sound(f, typed' \union HostsOf(f)) BY <1>3, <2>1
  <2>7. CommandFits(t)' BY <1>3, <2>5, <2>6 DEF CommandFits, Waits
  <2> QED BY <2>1, <2>3, <2>4, <2>7, TerminalKeeps
<1>5. CASE ~(disk # None /\ Managed(disk))
  <2>1. Leaves(t) /\ Replaced(f) BY <1>5 DEF InitMerges
  <2> QED BY <1>1, <1>3, <2>1, ReplacedKeeps
<1> QED BY <1>4, <1>5

LEMMA InitReplacesKeeps ==
    ASSUME SecretInv, NEW t \in Terminals, InitReplaces(t) PROVE SecretInv'
<1>1. /\ Waits(t, "replace") /\ Leaves(t) /\ Replaced(term[t].file)
      /\ UNCHANGED <<cert, server, test, acts, strayPin>>
  BY DEF InitReplaces
<1>2. /\ term[t].file \in File /\ WellFormed(term[t].file)
      /\ Sound(term[t].file, typed \union HostsOf(term[t].file))
  BY <1>1, WaitsTyped DEF SecretInv, CommandFits
<1> QED BY <1>1, <1>2, ReplacedKeeps

LEMMA AbortsKeeps ==
    ASSUME SecretInv, NEW t \in Terminals, Aborts(t) PROVE SecretInv'
<1>1. Leaves(t) /\ UNCHANGED <<disk, cert, server, test, acts, typed, asked, strayPin>> BY DEF Aborts, history
<1>2. TypeOK' BY <1>1 DEF SecretInv, TypeOK, Leaves
<1>3. DiskFits' BY <1>1 DEF SecretInv, DiskFits
<1> QED BY <1>1, <1>2, <1>3, LeavingKeeps

\* The surroundings.
LEMMA RenewedKeeps == ASSUME SecretInv, NEW h \in Hosts, Renewed(h) PROVE SecretInv'
<1>1. cert[h] < MaxRenewals /\ cert' = [cert EXCEPT ![h] = @ + 1] /\ cert[h] \in Nat
      /\ UNCHANGED <<disk, server, test, term, acts, typed, asked, strayPin>>
  BY DEF Renewed, history, SecretInv, TypeOK
<1>2. cert[h] + 1 \in 0 .. MaxRenewals BY <1>1, SetupAssumption
<1>3. TypeOK' BY <1>1, <1>2 DEF SecretInv, TypeOK
<1>4. DiskFits' BY <1>1 DEF SecretInv, DiskFits
<1> QED BY <1>1, <1>3, <1>4, ElsewhereKeeps

LEMMA OperatorEditsKeeps == ASSUME SecretInv, NEW n \in Names, OperatorEdits(n) PROVE SecretInv'
<1> DEFINE p == PrefixIn(disk, n)
           f == Keyed(p, "trust", TRUE, disk)
           e == [disk.keys[p] EXCEPT !["trust"] = TRUE]
<1>1. /\ disk # None /\ disk' = [f EXCEPT !.extra = TRUE] /\ acts < MaxActs /\ acts' = acts + 1
      /\ UNCHANGED <<cert, server, test, term, typed, asked, strayPin>>
  BY DEF OperatorEdits, Acts, history
<1>2. disk \in File /\ Sound(disk, typed) /\ Hosted(disk) BY <1>1 DEF SecretInv, TypeOK, DiskFits
<1>3. p \in Prefixes BY <1>2, FileEntries
<1>4. disk.keys[p] \in Entry BY <1>2, <1>3 DEF File
<1>5. e \in Entry /\ e.host = disk.keys[p].host /\ e.secret = disk.keys[p].secret BY <1>4 DEF Entry
<1> HIDE DEF p, e
<1>6. f = [disk EXCEPT !.keys[p] = e] BY DEF Keyed, e
<1> HIDE DEF f
<1>12. /\ f \in File /\ f.roster = disk.roster
      /\ \A q \in Prefixes : f.keys[q] = IF q = p THEN e ELSE disk.keys[q]
  BY <1>2, <1>3, <1>5, <1>6 DEF File
<1>7. disk' \in File /\ disk'.roster = f.roster /\ disk'.keys = f.keys BY <1>1, <1>12 DEF File
<1>8. Sound(disk', typed) BY <1>2, <1>5, <1>12, <1>7 DEF Sound, Fits
<1>9. Hosted(disk') BY <1>2, <1>5, <1>12, <1>7, SameHosts
<1>10. TypeOK' BY <1>1, <1>7, SetupAssumption DEF SecretInv, TypeOK
<1>11. DiskFits' BY <1>1, <1>8, <1>9 DEF DiskFits
<1> QED BY <1>1, <1>10, <1>11, ElsewhereKeeps

-----------------------------------------------------------------------------
LEMMA InitSecrets == Init => SecretInv
<1> SUFFICES ASSUME Init PROVE SecretInv OBVIOUS
<1> USE SetupAssumption
<1>1. ASSUME NEW h \in Https
      PROVE  /\ ByHand(h) \in File /\ Sound(ByHand(h), {h}) /\ Hosted(ByHand(h))
             /\ ByHand(h).keys[Flat].host = h
  <2> DEFINE e == [Blank EXCEPT !.host = h, !.secret = PasswordOf(h), !.trust = TRUE]
  <2>1. h \in Hosts /\ PasswordOf(h) \in {h, Empty} BY DEF PasswordOf
  <2>2. e \in Entry /\ Fits(e, {h}) /\ e.host = h BY <2>1 DEF Blank, Entry, Secret, Fits
  <2> HIDE DEF e
  <2>3. /\ ByHand(h).roster = <<>> /\ ByHand(h).dflt = None /\ ByHand(h).extra = TRUE
        /\ ByHand(h).keys = [p \in Prefixes |-> IF p # Flat THEN Blank ELSE e]
        /\ ByHand(h) = [roster |-> <<>>, dflt |-> None, extra |-> TRUE,
                       keys |-> [p \in Prefixes |-> IF p # Flat THEN Blank ELSE e]]
    BY DEF ByHand, e
  <2>4. ByHand(h) \in File BY <2>2, <2>3, BlankFits DEF File
  <2>5. Sound(ByHand(h), {h}) BY <2>2, <2>3, BlankFits DEF Sound
  <2>6. ByHand(h).keys[Flat] = e BY <2>3 DEF Prefixes
  <2>7. Hosted(ByHand(h)) BY <2>1, <2>2, <2>3, <2>6 DEF Hosted, EntryOf, PrefixIn
  <2> QED BY <2>2, <2>4, <2>5, <2>6, <2>7
<1>2. /\ disk \in {None} \union {ByHand(h) : h \in Https}
      /\ typed = IF disk = None THEN {} ELSE {disk.keys[Flat].host}
  BY DEF Init
<1>3. disk # None => disk \in File /\ Sound(disk, typed) /\ Hosted(disk) /\ typed \subseteq Hosts
  BY <1>1, <1>2
<1>4. NoTest \in Tests BY NoTestTyped
<1>5. TypeOK
  <2>1. disk \in File \union {None} /\ typed \subseteq Hosts BY <1>2, <1>3
  <2>2. cert \in [Hosts -> 0 .. MaxRenewals] /\ acts \in 0 .. MaxActs BY DEF Init
  <2>3. asked \in [Names -> BOOLEAN] /\ strayPin \in BOOLEAN BY DEF Init
  <2>4. server = "off" /\ term \in [Terminals -> Suspended \union {None}] BY DEF Init
  <2>5. test \in Tests BY <1>4 DEF Init
  <2> QED BY <2>1, <2>2, <2>3, <2>4, <2>5 DEF TypeOK, Tests
<1>6. DiskFits BY <1>3 DEF DiskFits
<1>7. \A t \in Terminals : CommandFits(t) BY DEF Init, CommandFits, Waits
<1> QED BY <1>5, <1>6, <1>7 DEF SecretInv

LEMMA CommandKeeps == ASSUME SecretInv, NEW t \in Terminals, Command(t) PROVE SecretInv'
BY SecretPromptsKeeps, SecretTypedKeeps, DoctorStartsKeeps, DoctorChecksKeeps, DoctorAnsweredKeeps,
   InitAsksKeeps, InitMergesKeeps, InitReplacesKeeps, AbortsKeeps
DEF Command

LEMMA NextKeeps == SecretInv /\ [Next]_vars => SecretInv'
<1> SUFFICES ASSUME SecretInv, [Next]_vars PROVE SecretInv' OBVIOUS
<1>1. CASE Next
  BY <1>1, StartKeeps, WriteProfileKeeps, TestStepsKeep, CommandKeeps, RenewedKeeps, OperatorEditsKeeps
  DEF Next, TestSteps
<1>2. CASE UNCHANGED vars
  <2>1. UNCHANGED <<disk, cert, server, test, term, acts, typed, asked, strayPin>> BY <1>2 DEF vars, history
  <2>2. TypeOK' /\ DiskFits' BY <2>1 DEF SecretInv, TypeOK, DiskFits
  <2> QED BY <2>1, <2>2, ElsewhereKeeps
<1> QED BY <1>1, <1>2

\* The inductive invariant of everybody who writes the env file.
THEOREM SpecSecrets == Spec => []SecretInv
BY InitSecrets, NextKeeps, PTL DEF Spec

\* Files, prompts and tests keep their shape.
THEOREM TypesKept == Spec => []TypeOK
<1>1. SecretInv => TypeOK BY DEF SecretInv
<1> QED BY <1>1, SpecSecrets, PTL

\* The setup tools, secret, doctor, init and the operator, in any number of
\* terminals and in any order, never leave a password with another CCU than
\* the one it was typed for.
THEOREM SecretsWithTheirCcu == Spec => []NoForeignSecret
<1>1. SecretInv => NoForeignSecret 
  BY SetupAssumption DEF SecretInv, DiskFits, Sound, Fits, PasswordOf, NoForeignSecret
<1> QED BY <1>1, SpecSecrets, PTL

\* A start in setup mode comes up only when somebody has entered, or left
\* empty on purpose, the password of every target.
THEOREM UpOnlyDecided == Spec => []UpIsDecided
<1> SUFFICES SecretInv => UpIsDecided BY SpecSecrets, PTL
<1> SUFFICES ASSUME SecretInv, disk # None, Starts(disk, TRUE) = "up", NEW n \in Targets(disk)
             PROVE  EntryOf(disk, n).host \in typed
  BY DEF UpIsDecided
<1>1. disk \in File /\ Sound(disk, typed) BY DEF SecretInv, TypeOK, DiskFits
<1>2. n \in Names /\ PrefixIn(disk, n) \in Prefixes BY <1>1, FileEntries
<1>3. Loads(disk) /\ Awaiting(disk) = {} BY DEF Starts
<1>4. EntryOf(disk, n).secret # None BY <1>1, <1>3, FileEntries DEF Loads, Awaiting, EntryOf, PrefixIn
<1> QED BY <1>1, <1>2, <1>4 DEF Sound, Fits, EntryOf

-----------------------------------------------------------------------------
\* The verdict of setup_test.
Passed(e) == (e.secret = e.host \/ e.host \in Open) /\ (e.pin # None => e.pin[1] = e.host)

\* As long as nothing was found, a target has passed or is still to come.
TestFits ==
    /\ test.place \in {"probe", "pin", "login"} => test.todo # <<>> /\ test.targets # {}
    /\ test.place = "green" => test.ok /\ test.todo = <<>> /\ test.targets # {}
    /\ test.ok => \A j \in test.targets : j \in Range(test.todo) \/ Passed(j.entry)

LEMMA RangeSplits ==
    ASSUME NEW S, NEW s \in Seq(S), s # <<>>
    PROVE  \A x \in Range(s) : x = Head(s) \/ x \in Range(Tail(s))
<1> SUFFICES ASSUME NEW i \in 1 .. Len(s), i # 1 PROVE s[i] \in Range(Tail(s))
  BY DEF Range
<1>1. Tail(s) \in Seq(S) /\ Len(Tail(s)) = Len(s) - 1 /\ \A k \in 1 .. Len(Tail(s)) : Tail(s)[k] = s[k + 1]
  BY HeadTailProperties
<1>2. i - 1 \in 1 .. Len(Tail(s)) /\ (i - 1) + 1 = i BY <1>1
<1>3. Tail(s)[i - 1] = s[i] BY <1>1, <1>2
<1>4. i - 1 \in DOMAIN Tail(s) BY <1>1, <1>2
<1> QED BY <1>3, <1>4 DEF Range

LEMMA FoundFits ==
    ASSUME test \in Tests, TestFits, test.place \in {"probe", "pin", "login"}, NEW finding \in BOOLEAN,
           finding => Passed(Subject), test' = Found(finding)
    PROVE  TestFits'
<1> DEFINE todo == test.todo
<1>1. test.ok \in BOOLEAN /\ todo \in Seq(Check) /\ todo # <<>> /\ test.targets # {} BY DEF Tests, TestFits
<1>2. \A x \in Range(todo) : x = Head(todo) \/ x \in Range(Tail(todo)) BY <1>1, RangeSplits
<1>3. Verdict(test.ok, finding) =>
        \A j \in test.targets : j \in Range(Tail(todo)) \/ Passed(j.entry)
  BY <1>2 DEF Verdict, TestFits, Subject
<1>4. CASE Len(todo) > 1
  <2>1. Tail(todo) # <<>> BY <1>1, <1>4, TailMore
  <2>2. test'.place = "probe" /\ test'.ok = Verdict(test.ok, finding) /\ test'.todo = Tail(todo)
        /\ test'.targets = test.targets
    BY <1>4 DEF Found, Tests
  <2> QED BY <1>1, <1>3, <2>1, <2>2 DEF TestFits
<1>5. CASE ~(Len(todo) > 1) /\ Verdict(test.ok, finding)
  <2>1. test'.place = "green" /\ test'.ok = test.ok /\ test'.todo = <<>> /\ test'.targets = test.targets
    BY <1>5 DEF Found, Tests
  <2>2. test.ok BY <1>1, <1>5 DEF Verdict
  <2>4. Tail(todo) = <<>> BY <1>1, <1>5, TailNone
  <2>5. Range(Tail(todo)) = {} BY <2>4 DEF Range
  <2> QED BY <1>1, <1>3, <1>5, <2>1, <2>2, <2>5 DEF TestFits
<1>6. CASE ~(Len(todo) > 1) /\ ~Verdict(test.ok, finding)
  <2>1. test'.place = "red" /\ test'.ok = FALSE BY <1>6 DEF Found, NoTest
  <2> QED BY <2>1 DEF TestFits
<1> QED BY <1>4, <1>5, <1>6

LEMMA TestFitsKept == TypeOK /\ TestFits /\ [Next]_vars => TestFits'
<1> SUFFICES ASSUME TypeOK, TestFits, [Next]_vars PROVE TestFits' OBVIOUS
<1>1. test \in Tests BY DEF TypeOK, Tests
<1>2. CASE UNCHANGED test BY <1>2 DEF TestFits
<1>3. ASSUME NEW eligible \in BOOLEAN, Start(eligible) PROVE TestFits'
  BY <1>3 DEF Start, NoTest, TestFits
<1>4. CASE TestStarts
  <2>1. CASE Loads(disk)
    <3>1. test' = [place |-> "probe", ok |-> TRUE, todo |-> Jobs(disk), targets |-> Range(Jobs(disk))]
      BY <1>4, <2>1 DEF TestStarts
    <3>2. Jobs(disk) # <<>> /\ Jobs(disk) \in Seq(Check) BY <2>1, JobsTyped DEF Loads, TypeOK
    <3>3. Range(Jobs(disk)) # {} BY <3>2 DEF Range
    <3> QED BY <3>1, <3>2, <3>3 DEF TestFits
  <2>2. CASE ~Loads(disk) BY <1>4, <2>2 DEF TestStarts, NoTest, TestFits
  <2> QED BY <2>1, <2>2
<1>5. ASSUME test.place \in {"probe", "pin", "login"}, NEW place \in {"pin", "login"},
             test' = [test EXCEPT !.place = place]
      PROVE  TestFits'
  BY <1>1, <1>5 DEF Tests, TestFits
<1>6. CASE TestProbes BY <1>1, <1>5, <1>6, FoundFits DEF TestProbes
<1>7. CASE TestComparesPin BY <1>1, <1>5, <1>7, FoundFits DEF TestComparesPin
<1>8. CASE TestLogsIn
  <2>1. CASE test' = Found(FALSE) BY <1>1, <1>8, <2>1, FoundFits DEF TestLogsIn
  <2>2. CASE Accepts(Subject) /\ test' = Found(TRUE)
    <3>1. Passed(Subject) BY <2>2 DEF Accepts, Passed, Cert
    <3> QED BY <1>1, <1>8, <2>2, <3>1, FoundFits DEF TestLogsIn
  <2> QED BY <1>8, <2>1, <2>2 DEF TestLogsIn
<1>9. ASSUME NEW t \in Terminals, Command(t) PROVE UNCHANGED test
  BY <1>9 DEF Command, SecretPrompts, SecretTyped, DoctorStarts, DoctorChecks, DoctorAnswered,
              InitAsks, InitMerges, InitReplaces, Aborts
<1> QED
  BY <1>2, <1>3, <1>4, <1>6, <1>7, <1>8, <1>9
  DEF Next, vars, WriteProfile, Renewed, OperatorEdits

\* A green setup_test has seen every target it was about accept its password
\* over a connection that fits the pin, however many targets there are.
THEOREM GreenIsEarned == Spec => []GreenMeansLogin
<1>1. Init => TestFits BY DEF Init, NoTest, TestFits
<1>2. TypeOK /\ TestFits => GreenMeansLogin
  <2> SUFFICES ASSUME TestFits, test.place = "green"
               PROVE  test.targets # {} /\ \A j \in test.targets : Passed(j.entry)
    BY DEF GreenMeansLogin, Passed
  <2> QED BY DEF TestFits, Range
<1> QED BY <1>1, <1>2, TypesKept, TestFitsKept, PTL DEF Spec

-----------------------------------------------------------------------------
\* The form of the file.  A prompt keeps what was well-formed when it
\* opened; a fingerprint that doctor offers is one of an HTTPS CCU.
DiskForm == disk # None /\ ~strayPin => WellFormed(disk)

PromptForm(t) ==
    /\ Waits(t, "hidden") /\ ~strayPin => WellFormed(term[t].content)
    /\ Waits(t, "offer") => term[t].presented[1] \in Https

FormInv == SecretInv /\ DiskForm /\ \A t \in Terminals : PromptForm(t)

LEMMA SameForm ==
    ASSUME NEW f \in File, NEW g \in File, g.roster = f.roster, g.dflt = f.dflt, WellFormed(f),
           \A p \in Prefixes : /\ g.keys[p].host = f.keys[p].host
                               /\ TlsFits(f.keys[p]) => TlsFits(g.keys[p])
    PROVE  WellFormed(g)
<1>1. Flat \in Prefixes BY DEF Prefixes
<1>2. Targets(g) = Targets(f) BY <1>1 DEF Targets
<1>3. \A n \in Targets(f) : /\ EntryOf(g, n).host = EntryOf(f, n).host
                            /\ TlsFits(EntryOf(f, n)) => TlsFits(EntryOf(g, n))
  BY FileEntries DEF EntryOf, PrefixIn
<1> QED BY <1>1, <1>2, <1>3 DEF WellFormed

LEMMA ProfiledWellFormed ==
    ASSUME NEW f \in File \union {None}, f # None => WellFormed(f), NEW n \in Names, NEW h \in Hosts,
           NEW pin \in Pin \union {None}, pin # None => h \in Https,
           NEW gate \in BOOLEAN \union {None}, NEW makeDefault \in BOOLEAN
    PROVE  WellFormed(Profiled(f, n, h, pin, gate, makeDefault))
<1> DEFINE roster == Upserted(Known(f), n)
           dflt == NewDefault(f, roster, n, makeDefault)
           entry == [m \in Names |-> IF m = n THEN Updated(f, n, h, pin, gate) ELSE Previous(f, m)]
           forced == roster # <<Default>>
           extra == f # None /\ f.extra
<1>1. Known(f) \in Seq(Names) BY PreviousFits
<1>2. roster \in Seq(Names) /\ roster # <<>> /\ Range(roster) = Range(Known(f)) \union {n}
  BY <1>1, UpsertedRange
<1>3. entry \in [Names -> Entry] BY PreviousFits, UpdatedFits
<1>4. forced \in BOOLEAN /\ extra \in BOOLEAN BY DEF File
<1>5. Profiled(f, n, h, pin, gate, makeDefault) = Written(roster, dflt, entry, forced, extra) BY DEF Profiled
<1>6. entry[n].host = h /\ entry[n].pin = pin /\ entry[n].trust = FALSE BY DEF Updated
<1>7. entry[n].host # None /\ TlsFits(entry[n]) BY <1>6, SetupAssumption DEF TlsFits
<1>8. ASSUME NEW m \in Range(Known(f)), m # n PROVE entry[m].host # None /\ TlsFits(entry[m])
  <2>1. m \in Names BY <1>1, <1>8, RosterNames
  <2>2. f \in File /\ f # None /\ m \in Targets(f) BY <1>8 DEF Known, Targets, Range
  <2>3. EntryOf(f, m) \in Entry /\ EntryOf(f, m).host # None /\ TlsFits(EntryOf(f, m))
    BY <2>1, <2>2, FileEntries DEF WellFormed
  <2>4. entry[m] = [EntryOf(f, m) EXCEPT !.trust = FALSE] BY <1>8, <2>1 DEF Previous, Parsed
  <2>5. entry[m].host = EntryOf(f, m).host /\ entry[m].pin = EntryOf(f, m).pin /\ entry[m].trust = FALSE
    BY <2>3, <2>4 DEF Entry
  <2> QED BY <2>3, <2>5 DEF TlsFits
<1>9. roster[1] \in Range(roster) BY <1>2, RosterNames
<1> HIDE DEF roster, entry
<1>10. dflt \in Range(roster) BY <1>2, <1>9 DEF NewDefault
<1>11. \A m \in Range(roster) : entry[m].host # None /\ TlsFits(entry[m]) BY <1>2, <1>7, <1>8
<1> HIDE DEF dflt, forced, extra
<1> QED BY <1>2, <1>3, <1>4, <1>5, <1>10, <1>11, WrittenWellFormed

\* A prompt that stays as it is, and a terminal without one.
LEMMA PromptStays ==
    ASSUME NEW t \in Terminals, PromptForm(t), term'[t] = term[t], strayPin => strayPin'
    PROVE  PromptForm(t)'
BY DEF PromptForm, Waits

LEMMA NoPrompt ==
    ASSUME NEW t \in Terminals, term'[t] # None => term'[t].place \notin {"hidden", "offer"}
    PROVE  PromptForm(t)'
BY DEF PromptForm, Waits

\* Only terminal t moves.
LEMMA OthersForm ==
    ASSUME FormInv, SecretInv', DiskForm', strayPin => strayPin', NEW t \in Terminals, PromptForm(t)',
           \A u \in Terminals \ {t} : term'[u] = term[u]
    PROVE  FormInv'
<1>1. ASSUME NEW u \in Terminals \ {t} PROVE PromptForm(u)' BY PromptStays DEF FormInv
<1> QED BY <1>1 DEF FormInv

LEMMA FormElsewhere ==
    ASSUME FormInv, SecretInv', DiskForm', UNCHANGED <<term, strayPin>>
    PROVE  FormInv'
<1>1. ASSUME NEW u \in Terminals PROVE PromptForm(u)' BY PromptStays DEF FormInv
<1> QED BY <1>1 DEF FormInv

LEMMA CommandKeepsForm ==
    ASSUME FormInv, SecretInv', NEW t \in Terminals, Command(t)
    PROVE  FormInv'
<1> USE DEF FormInv
<1>0. DOMAIN term = Terminals /\ disk \in File \union {None} /\ disk' \in File \union {None}
  BY DEF SecretInv, TypeOK
<1>1. ASSUME NEW n \in Names, SecretPrompts(t, n) PROVE FormInv'
  <2>1. /\ term' = [term EXCEPT ![t] = [place |-> "hidden", content |-> disk, prefix |-> PrefixIn(disk, n)]]
        /\ disk # None /\ UNCHANGED <<disk, strayPin>>
    BY <1>1 DEF SecretPrompts, history
  <2>2. PromptForm(t)' BY <1>0, <2>1 DEF PromptForm, Waits, DiskForm
  <2>3. DiskForm' BY <2>1 DEF DiskForm
  <2> QED BY <1>0, <2>1, <2>2, <2>3, OthersForm
<1>2. CASE SecretTyped(t)
  <2> DEFINE f == term[t].content
             p == term[t].prefix
             value == PasswordOf(f.keys[p].host)
             e == [f.keys[p] EXCEPT !["secret"] = value]
  <2>1. /\ Waits(t, "hidden") /\ term' = [term EXCEPT ![t] = None] /\ UNCHANGED strayPin
        /\ disk' = Keyed(p, "secret", value, f)
    BY <1>2 DEF SecretTyped, SecretBase, Leaves
  <2>2. f \in File /\ p \in Prefixes BY <2>1, WaitsTyped DEF SecretInv
  <2>3. f.keys[p] \in Entry BY <2>2 DEF File
  <2>4. f.keys[p].host \in Hosts BY <2>1, <2>3 DEF SecretInv, CommandFits, Entry
  <2>5. value \in {f.keys[p].host, Empty} BY DEF PasswordOf
  <2>6. /\ e \in Entry /\ e.host = f.keys[p].host /\ e.pin = f.keys[p].pin /\ e.trust = f.keys[p].trust
    BY <2>3, <2>4, <2>5 DEF Entry, Secret
  <2> HIDE DEF f, p, value, e
  <2>7. /\ disk' \in File /\ disk'.roster = f.roster /\ disk'.dflt = f.dflt
        /\ \A q \in Prefixes : disk'.keys[q] = IF q = p THEN e ELSE f.keys[q]
    BY <2>1, <2>2, <2>6, KeyedFile DEF e
  <2>8. WellFormed(f) => WellFormed(disk') BY <2>2, <2>6, <2>7, SameForm DEF TlsFits
  <2>9. DiskForm' BY <2>1, <2>8 DEF DiskForm, PromptForm, f
  <2>10. PromptForm(t)' BY <1>0, <2>1, NoPrompt
  <2> QED BY <1>0, <2>1, <2>9, <2>10, OthersForm
<1>3. CASE DoctorStarts(t)
  <2>1. term' = [term EXCEPT ![t] = [place |-> "check", todo |-> Jobs(disk)]] /\ UNCHANGED <<disk, strayPin>>
    BY <1>3 DEF DoctorStarts, history
  <2>2. DiskForm' BY <2>1 DEF DiskForm
  <2>3. PromptForm(t)' BY <1>0, <2>1, NoPrompt
  <2> QED BY <1>0, <2>1, <2>2, <2>3, OthersForm
<1>4. CASE DoctorChecks(t)
  <2> DEFINE e == Head(term[t].todo).entry
  <2>1. Waits(t, "check") /\ UNCHANGED <<disk, strayPin>> BY <1>4 DEF DoctorChecks, history
  <2>2. DiskForm' BY <2>1 DEF DiskForm
  <2>3. term[t].todo \in Seq(FitChecks) /\ term[t].todo # <<>> BY <2>1 DEF SecretInv, CommandFits
  <2>4. CASE term' = [term EXCEPT ![t] = NextCheck(t)]
    <3>1. PromptForm(t)' BY <1>0, <2>3, <2>4, NextCheckTyped, NoPrompt
    <3> QED BY <1>0, <2>1, <2>2, <2>4, <3>1, OthersForm
  <2>5. CASE /\ e.pin # None
             /\ term' = [term EXCEPT ![t] = [place |-> "offer", todo |-> term[t].todo, presented |-> Cert(e.host)]]
    <3>1. e.host \in Https
      <4>1. Head(term[t].todo) \in FitChecks BY <2>3, HeadTailProperties
      <4> QED BY <2>5, <4>1 DEF FitChecks, TlsFits
    <3>2. PromptForm(t)' BY <1>0, <2>5, <3>1 DEF PromptForm, Waits, Cert
    <3> QED BY <1>0, <2>1, <2>2, <2>5, <3>2, OthersForm
  <2>6. \/ term' = [term EXCEPT ![t] = NextCheck(t)]
        \/ /\ e.pin # None
           /\ term' = [term EXCEPT ![t] = [place |-> "offer", todo |-> term[t].todo, presented |-> Cert(e.host)]]
    BY <1>0, <1>4 DEF DoctorChecks
  <2> QED BY <2>4, <2>5, <2>6
<1>5. ASSUME NEW yes \in BOOLEAN, DoctorAnswered(t, yes) PROVE FormInv'
  <2> DEFINE p == Head(term[t].todo).prefix
             pin == term[t].presented
             e == [disk.keys[p] EXCEPT !["pin"] = pin]
  <2>1. Waits(t, "offer") /\ term' = [term EXCEPT ![t] = NextCheck(t)] BY <1>5 DEF DoctorAnswered
  <2>2. /\ pin \in Pin /\ pin[1] \in Https
        /\ term[t].todo \in Seq(FitChecks) /\ term[t].todo # <<>>
    BY <2>1, WaitsTyped DEF SecretInv, CommandFits, PromptForm
  <2>3. PromptForm(t)' BY <1>0, <2>1, <2>2, NextCheckTyped, NoPrompt
  <2>4. CASE UNCHANGED <<disk, strayPin>>
    <3>1. DiskForm' BY <2>4 DEF DiskForm
    <3> QED BY <1>0, <2>1, <2>3, <2>4, <3>1, OthersForm
  <2>5. CASE ~UNCHANGED <<disk, strayPin>>
    <3>1. /\ disk # None /\ disk' = Keyed(p, "pin", pin, disk)
          /\ strayPin' = (strayPin \/ disk.keys[p].host # pin[1])
      BY <1>5, <2>5 DEF DoctorAnswered, DoctorBase
    <3>2. p \in Prefixes BY <2>2, HeadTailProperties DEF FitChecks, Check
    <3>3. disk \in File /\ disk.keys[p] \in Entry BY <1>0, <3>1, <3>2 DEF File
    <3>4. e \in Entry /\ e.host = disk.keys[p].host BY <2>2, <3>3 DEF Entry
    <3> HIDE DEF p, pin, e
    <3>5. /\ disk' \in File /\ disk'.roster = disk.roster /\ disk'.dflt = disk.dflt
          /\ \A q \in Prefixes : disk'.keys[q] = IF q = p THEN e ELSE disk.keys[q]
      BY <3>1, <3>2, <3>3, <3>4, KeyedFile DEF e
    <3>6. ASSUME ~strayPin' PROVE WellFormed(disk')
      <4>1. WellFormed(disk) /\ e.host \in Https BY <2>2, <3>1, <3>4, <3>6 DEF DiskForm
      <4> QED BY <3>3, <3>4, <3>5, <4>1, SameForm DEF TlsFits
    <3>7. DiskForm' BY <3>6 DEF DiskForm
    <3> QED BY <1>0, <2>1, <2>3, <3>1, <3>7, OthersForm
  <2> QED BY <2>4, <2>5
<1>6. ASSUME NEW a \in Answers, InitAsks(t, a) PROVE FormInv'
  <2>1. term' = [term EXCEPT ![t] = [place |-> "composed", file |-> Composed(a)]] /\ UNCHANGED <<disk, strayPin>>
    BY <1>6 DEF InitAsks, history
  <2>2. DiskForm' BY <2>1 DEF DiskForm
  <2>3. PromptForm(t)' BY <1>0, <2>1, NoPrompt
  <2> QED BY <1>0, <2>1, <2>2, <2>3, OthersForm
<1>7. CASE InitMerges(t)
  <2> DEFINE f == Merged(term[t].file)
  <2>1. Waits(t, "composed") /\ UNCHANGED strayPin BY <1>7 DEF InitMerges
  <2>2. term[t].file \in File /\ WellFormed(term[t].file) BY <2>1, WaitsTyped DEF SecretInv, CommandFits
  <2>3. WellFormed(f) BY <1>0, <2>2, MergedFits
  <2> HIDE DEF f
  <2>4. \/ UNCHANGED disk /\ term' = [term EXCEPT ![t] = [place |-> "replace", file |-> f]]
        \/ disk' = f /\ term' = [term EXCEPT ![t] = None]
    BY <1>0, <1>7 DEF InitMerges, Leaves, Replaced, f
  <2>5. DiskForm' BY <2>1, <2>3, <2>4 DEF DiskForm
  <2>6. PromptForm(t)' BY <1>0, <2>4, NoPrompt
  <2>7. \A u \in Terminals \ {t} : term'[u] = term[u] BY <1>0, <2>4
  <2> QED BY <2>1, <2>5, <2>6, <2>7, OthersForm
<1>8. CASE InitReplaces(t)
  <2>1. /\ Waits(t, "replace") /\ term' = [term EXCEPT ![t] = None] /\ disk' = term[t].file
        /\ UNCHANGED strayPin
    BY <1>8 DEF InitReplaces, Leaves, Replaced
  <2>2. WellFormed(term[t].file) BY <2>1 DEF SecretInv, CommandFits
  <2>3. DiskForm' BY <2>1, <2>2 DEF DiskForm
  <2>4. PromptForm(t)' BY <1>0, <2>1, NoPrompt
  <2> QED BY <1>0, <2>1, <2>3, <2>4, OthersForm
<1>9. CASE Aborts(t)
  <2>1. term' = [term EXCEPT ![t] = None] /\ UNCHANGED <<disk, strayPin>> BY <1>9 DEF Aborts, Leaves, history
  <2>2. DiskForm' BY <2>1 DEF DiskForm
  <2>3. PromptForm(t)' BY <1>0, <2>1, NoPrompt
  <2> QED BY <1>0, <2>1, <2>2, <2>3, OthersForm
<1> QED BY <1>1, <1>2, <1>3, <1>4, <1>5, <1>6, <1>7, <1>8, <1>9 DEF Command

LEMMA WriteProfileKeepsForm ==
    ASSUME FormInv, SecretInv', NEW n \in Names, NEW h \in Hosts, NEW pinned \in BOOLEAN,
           NEW gate \in Gates \union {None}, NEW makeDefault \in BOOLEAN,
           WriteProfile(n, h, pinned, gate, makeDefault)
    PROVE  FormInv'
<1> DEFINE pin == IF pinned THEN Cert(h) ELSE None
<1>1. pin \in Pin \union {None} /\ (pin # None => h \in Https) BY CertPin DEF FormInv, SecretInv, WriteProfile
<1>2. disk \in File \union {None} /\ gate \in BOOLEAN \union {None}
  BY SetupAssumption DEF FormInv, SecretInv, TypeOK
<1>3. disk' = Profiled(disk, n, h, pin, gate, makeDefault) /\ UNCHANGED <<term, strayPin>>
  BY DEF WriteProfile
<1> HIDE DEF pin
<1>4. ASSUME ~strayPin' PROVE WellFormed(disk')
  <2>1. disk # None => WellFormed(disk) BY <1>3, <1>4 DEF FormInv, DiskForm
  <2> QED BY <1>1, <1>2, <1>3, <2>1, ProfiledWellFormed
<1>5. DiskForm' BY <1>4 DEF DiskForm
<1> QED BY <1>3, <1>5, FormElsewhere

LEMMA OperatorKeepsForm ==
    ASSUME FormInv, SecretInv', NEW n \in Names, OperatorEdits(n) PROVE FormInv'
<1> DEFINE p == PrefixIn(disk, n)
           f == Keyed(p, "trust", TRUE, disk)
           e == [disk.keys[p] EXCEPT !["trust"] = TRUE]
<1>1. /\ disk # None /\ disk' = [f EXCEPT !.extra = TRUE] /\ disk.keys[p].host \in Https
      /\ UNCHANGED <<term, strayPin>>
  BY DEF OperatorEdits, EntryOf, history
<1>2. disk \in File BY <1>1 DEF FormInv, SecretInv, TypeOK
<1>3. p \in Prefixes BY <1>2, FileEntries
<1>4. disk.keys[p] \in Entry BY <1>2, <1>3 DEF File
<1>5. e \in Entry /\ e.host = disk.keys[p].host BY <1>4 DEF Entry
<1> HIDE DEF p, e
<1>6. f = [disk EXCEPT !.keys[p] = e] BY DEF Keyed, e
<1> HIDE DEF f
<1>7. /\ f \in File /\ f.roster = disk.roster /\ f.dflt = disk.dflt
      /\ \A q \in Prefixes : f.keys[q] = IF q = p THEN e ELSE disk.keys[q]
  BY <1>2, <1>3, <1>5, <1>6 DEF File
<1>8. /\ disk' \in File /\ disk'.roster = disk.roster /\ disk'.dflt = disk.dflt
      /\ \A q \in Prefixes : disk'.keys[q] = IF q = p THEN e ELSE disk.keys[q]
  BY <1>1, <1>7 DEF File
<1>9. WellFormed(disk) => WellFormed(disk')
  <2>1. \A q \in Prefixes : /\ disk'.keys[q].host = disk.keys[q].host
                            /\ TlsFits(disk.keys[q]) => TlsFits(disk'.keys[q])
    BY <1>1, <1>5, <1>8 DEF TlsFits
  <2> QED BY <1>2, <1>8, <2>1, SameForm
<1>10. DiskForm' BY <1>1, <1>9 DEF FormInv, DiskForm
<1> QED BY <1>1, <1>10, FormElsewhere

LEMMA InitForm == Init => FormInv
<1> SUFFICES ASSUME Init PROVE FormInv OBVIOUS
<1>1. ASSUME NEW h \in Https PROVE WellFormed(ByHand(h))
  <2> DEFINE f == ByHand(h)
             e == [Blank EXCEPT !.host = h, !.secret = PasswordOf(h), !.trust = TRUE]
  <2>1. e.host = h /\ h # None BY SetupAssumption DEF Blank
  <2> HIDE DEF e
  <2>2. f.roster = <<>> /\ f.dflt = None /\ f.keys[Flat] = e BY DEF ByHand, Prefixes, e
  <2> HIDE DEF f
  <2>3. \A n : EntryOf(f, n) = e BY <2>2 DEF EntryOf, PrefixIn
  <2> QED BY <2>1, <2>2, <2>3 DEF WellFormed, TlsFits, f
<1>2. DiskForm BY <1>1 DEF Init, DiskForm
<1>3. \A t \in Terminals : PromptForm(t) BY DEF Init, PromptForm, Waits
<1> QED BY <1>2, <1>3, InitSecrets DEF FormInv

LEMMA FormKept == FormInv /\ [Next]_vars => FormInv'
<1> SUFFICES ASSUME FormInv, [Next]_vars PROVE FormInv' OBVIOUS
<1>0. SecretInv' BY NextKeeps DEF FormInv
<1>1. ASSUME UNCHANGED <<disk, term, strayPin>> PROVE FormInv'
  <2>1. DiskForm' BY <1>1 DEF FormInv, DiskForm
  <2> QED BY <1>0, <1>1, <2>1, FormElsewhere
<1>2. ASSUME NEW eligible \in BOOLEAN, Start(eligible) PROVE FormInv'
  BY <1>1, <1>2 DEF Start, history
<1>3. CASE TestSteps
  BY <1>1, <1>3 DEF TestSteps, TestStarts, TestProbes, TestComparesPin, TestLogsIn, TestUnchanged, history
<1>4. ASSUME NEW h \in Hosts, Renewed(h) PROVE FormInv' BY <1>1, <1>4 DEF Renewed, history
<1>5. CASE UNCHANGED vars BY <1>1, <1>5 DEF vars, history
<1> QED
  BY <1>0, <1>2, <1>3, <1>4, <1>5, WriteProfileKeepsForm, CommandKeepsForm, OperatorKeepsForm
  DEF Next, TestSteps

\* Whatever the tools, the commands and the operator do to each other, the
\* file they leave loads or lacks only a password, as long as doctor has not
\* pinned a target that was changed under its question.
THEOREM FilesStayWellFormed == Spec => []OnlyPasswordsMissing
<1>1. FormInv => OnlyPasswordsMissing BY DEF FormInv, DiskForm, OnlyPasswordsMissing
<1> QED BY <1>1, InitForm, FormKept, PTL DEF Spec

-----------------------------------------------------------------------------
\* Stored passwords.  From file f to file g, a target keeps its password
\* unless it moves to another CCU.
Stays(f, g, n) ==
    n \in Targets(f) /\ EntryOf(f, n).secret # None =>
        /\ n \in Targets(g)
        /\ EntryOf(g, n).host = EntryOf(f, n).host => EntryOf(g, n).secret = EntryOf(f, n).secret

LEMMA StaysEnough ==
    ASSUME NEW n \in Names, disk # None => Stays(disk, disk', n)
    PROVE  ~LosesSecret(n)
BY DEF LosesSecret, Stays

LEMMA SameSecrets ==
    ASSUME NEW f \in File, NEW g \in File, g.roster = f.roster, NEW n \in Names,
           \A p \in Prefixes : /\ g.keys[p].host = f.keys[p].host
                               /\ f.keys[p].secret # None => g.keys[p].secret = f.keys[p].secret
    PROVE  Stays(f, g, n)
<1>1. Flat \in Prefixes BY DEF Prefixes
<1>2. Targets(g) = Targets(f) BY <1>1 DEF Targets
<1>3. PrefixIn(g, n) = PrefixIn(f, n) /\ PrefixIn(f, n) \in Prefixes BY FileEntries DEF PrefixIn
<1> QED BY <1>2, <1>3 DEF Stays, EntryOf

\* The flat form of a roster that was not forced is the one of Default.
LEMMA WrittenEntries ==
    ASSUME NEW roster \in Seq(Names), roster # <<>>, NEW dflt, NEW entry \in [Names -> Entry], NEW extra,
           NEW forced \in BOOLEAN, ~forced => roster = <<Default>>,
           NEW n \in Range(roster), entry[n].host # None
    PROVE  /\ n \in Targets(Written(roster, dflt, entry, forced, extra))
           /\ EntryOf(Written(roster, dflt, entry, forced, extra), n) = entry[n]
<1> DEFINE w == Written(roster, dflt, entry, forced, extra)
<1>1. Range(roster) \subseteq Names BY RosterNames
<1>2. CASE Len(roster) = 1 /\ ~forced
  <2>1. n = Default /\ roster[1] = Default /\ Len(roster) = 1 BY <1>2 DEF Range
  <2>2. w.roster = <<>> /\ w.keys[Flat] = entry[Default] BY <1>2, <2>1 DEF Written, Prefixes
  <2>3. EntryOf(w, n) = entry[n] BY <2>1, <2>2 DEF EntryOf, PrefixIn
  <2>4. Targets(w) = {Default} BY <2>1, <2>2 DEF Targets
  <2> QED BY <2>1, <2>3, <2>4
<1>3. CASE ~(Len(roster) = 1 /\ ~forced)
  <2>1. w.roster = roster BY <1>3 DEF Written
  <2>2. w.keys[n] = entry[n] BY <1>1, <1>3, SetupAssumption DEF Written, Prefixes
  <2>3. n \in Targets(w) /\ EntryOf(w, n) = entry[n] BY <2>1, <2>2 DEF Targets, EntryOf, PrefixIn
  <2> QED BY <2>3
<1> QED BY <1>2, <1>3

LEMMA ProfiledStays ==
    ASSUME NEW f \in File, f # None, Hosted(f), NEW n \in Names, NEW m \in Names, NEW h \in Hosts,
           NEW pin \in Pin \union {None}, NEW gate \in BOOLEAN \union {None}, NEW makeDefault \in BOOLEAN
    PROVE  Stays(f, Profiled(f, m, h, pin, gate, makeDefault), n)
<1> DEFINE roster == Upserted(Known(f), m)
           dflt == NewDefault(f, roster, m, makeDefault)
           entry == [k \in Names |-> IF k = m THEN Updated(f, m, h, pin, gate) ELSE Previous(f, k)]
           forced == roster # <<Default>>
           extra == f # None /\ f.extra
           g == Profiled(f, m, h, pin, gate, makeDefault)
<1> SUFFICES ASSUME n \in Targets(f), EntryOf(f, n).secret # None
             PROVE  /\ n \in Targets(g)
                    /\ EntryOf(g, n).host = EntryOf(f, n).host => EntryOf(g, n).secret = EntryOf(f, n).secret
  BY DEF Stays
<1>1. Known(f) \in Seq(Names) BY PreviousFits
<1>2. roster \in Seq(Names) /\ roster # <<>> /\ Range(roster) = Range(Known(f)) \union {m}
  BY <1>1, UpsertedRange
<1>3. entry \in [Names -> Entry] BY PreviousFits, UpdatedFits
<1>4. n \in Range(Known(f)) BY DEF Known, Targets, Range
<1>5. g = Written(roster, dflt, entry, forced, extra) BY DEF Profiled
<1>6. EntryOf(f, n) \in Entry /\ EntryOf(f, n).host # None BY FileEntries DEF Hosted
<1>7. Previous(f, n) = [EntryOf(f, n) EXCEPT !.trust = FALSE] BY <1>4 DEF Previous, Parsed
<1>8. Previous(f, n).host = EntryOf(f, n).host /\ Previous(f, n).secret = EntryOf(f, n).secret
  BY <1>6, <1>7 DEF Entry
<1>9. /\ entry[n].host # None
      /\ entry[n].host = EntryOf(f, n).host => entry[n].secret = EntryOf(f, n).secret
  <2>1. CASE n # m
    <3>1. entry[n] = Previous(f, n) BY <2>1
    <3> QED BY <1>6, <1>8, <3>1
  <2>2. CASE n = m
    <3>1. entry[n].host = h /\ entry[n].secret = Kept(Previous(f, n), h) BY <2>2 DEF Updated
    <3> QED BY <1>8, <3>1, SetupAssumption DEF Kept
  <2> QED BY <2>1, <2>2
<1>10. forced \in BOOLEAN /\ (~forced => roster = <<Default>>) OBVIOUS
<1> HIDE DEF roster, dflt, entry, forced, extra, g
<1>11. n \in Targets(g) /\ EntryOf(g, n) = entry[n]
  <2>1. n \in Range(roster) /\ entry[n].host # None BY <1>2, <1>4, <1>9
  <2>2. /\ n \in Targets(Written(roster, dflt, entry, forced, extra))
        /\ EntryOf(Written(roster, dflt, entry, forced, extra), n) = entry[n]
    BY <1>2, <1>3, <1>10, <2>1, WrittenEntries
  <2> QED BY <1>5, <2>2
<1> QED BY <1>9, <1>11

\* A password that is typed anew for the same CCU is the same.
LEMMA SecretTypedStays ==
    ASSUME SecretInv, NEW t \in Terminals, SecretTyped(t), term[t].content = disk, NEW n \in Names
    PROVE  Stays(disk, disk', n)
<1> DEFINE p == term[t].prefix
           h == disk.keys[p].host
           e == [disk.keys[p] EXCEPT !["secret"] = PasswordOf(h)]
<1>1. Waits(t, "hidden") /\ disk' = Keyed(p, "secret", PasswordOf(h), disk) BY DEF SecretTyped, SecretBase
<1>2. disk \in File /\ p \in Prefixes /\ Sound(disk, typed) /\ h # None
  BY <1>1, WaitsTyped DEF SecretInv, CommandFits
<1>3. disk.keys[p] \in Entry /\ h \in Hosts BY <1>2 DEF File, Entry
<1>4. PasswordOf(h) \in {h, Empty} BY DEF PasswordOf
<1>5. e \in Entry /\ e.host = h /\ e.secret = PasswordOf(h) BY <1>3, <1>4 DEF Entry, Secret
<1>6. disk.keys[p].secret # None => e.secret = disk.keys[p].secret BY <1>2, <1>5 DEF Sound, Fits
<1>7. h = disk.keys[p].host OBVIOUS
<1> HIDE DEF p, h, e
<1>8. /\ disk' \in File /\ disk'.roster = disk.roster
      /\ \A q \in Prefixes : disk'.keys[q] = IF q = p THEN e ELSE disk.keys[q]
  BY <1>1, <1>2, <1>5, KeyedFile DEF e
<1> QED BY <1>2, <1>5, <1>6, <1>7, <1>8, SameSecrets

LEMMA DoctorAnsweredStays ==
    ASSUME SecretInv, NEW t \in Terminals, NEW yes \in BOOLEAN, DoctorAnswered(t, yes), disk # None,
           NEW n \in Names
    PROVE  Stays(disk, disk', n)
<1> DEFINE p == Head(term[t].todo).prefix
           pin == term[t].presented
           e == [disk.keys[p] EXCEPT !["pin"] = pin]
<1>1. Waits(t, "offer") BY DEF DoctorAnswered
<1>2. pin \in Pin /\ term[t].todo \in Seq(FitChecks) /\ term[t].todo # <<>>
  BY <1>1, WaitsTyped DEF SecretInv, CommandFits
<1>3. p \in Prefixes BY <1>2, HeadTailProperties DEF FitChecks, Check
<1>4. disk \in File /\ disk.keys[p] \in Entry BY <1>3 DEF SecretInv, TypeOK, File
<1>5. e \in Entry /\ e.host = disk.keys[p].host /\ e.secret = disk.keys[p].secret
  BY <1>2, <1>4 DEF Entry
<1>6. UNCHANGED disk \/ disk' = Keyed(p, "pin", pin, disk) BY DEF DoctorAnswered, DoctorBase
<1> HIDE DEF p, pin, e
<1>7. Keyed(p, "pin", pin, disk) \in File /\ Keyed(p, "pin", pin, disk).roster = disk.roster
      /\ \A q \in Prefixes : Keyed(p, "pin", pin, disk).keys[q] = IF q = p THEN e ELSE disk.keys[q]
  BY <1>3, <1>4, <1>2, <1>5, KeyedFile DEF e
<1>8. \A q \in Prefixes : disk'.keys[q].host = disk.keys[q].host /\ disk'.keys[q].secret = disk.keys[q].secret
  BY <1>5, <1>6, <1>7
<1> QED BY <1>4, <1>6, <1>7, <1>8, SameSecrets

LEMMA OperatorStays ==
    ASSUME SecretInv, NEW m \in Names, OperatorEdits(m), NEW n \in Names
    PROVE  Stays(disk, disk', n)
<1> DEFINE p == PrefixIn(disk, m)
           f == Keyed(p, "trust", TRUE, disk)
           e == [disk.keys[p] EXCEPT !["trust"] = TRUE]
<1>1. disk # None /\ disk' = [f EXCEPT !.extra = TRUE] BY DEF OperatorEdits
<1>2. disk \in File BY <1>1 DEF SecretInv, TypeOK
<1>3. p \in Prefixes BY <1>2, FileEntries
<1>4. disk.keys[p] \in Entry BY <1>2, <1>3 DEF File
<1>5. e \in Entry /\ e.host = disk.keys[p].host /\ e.secret = disk.keys[p].secret BY <1>4 DEF Entry
<1> HIDE DEF p, e
<1>6. f = [disk EXCEPT !.keys[p] = e] BY DEF Keyed, e
<1> HIDE DEF f
<1>7. /\ f \in File /\ f.roster = disk.roster
      /\ \A q \in Prefixes : f.keys[q] = IF q = p THEN e ELSE disk.keys[q]
  BY <1>2, <1>3, <1>5, <1>6 DEF File
<1>8. disk' \in File /\ disk'.roster = disk.roster /\ disk'.keys = f.keys BY <1>1, <1>7 DEF File
<1>9. \A q \in Prefixes : disk'.keys[q].host = disk.keys[q].host /\ disk'.keys[q].secret = disk.keys[q].secret
  BY <1>5, <1>7, <1>8
<1> QED BY <1>2, <1>8, <1>9, SameSecrets

\* init writes without its second question only where nothing is managed.
LEMMA InitMergesStays ==
    ASSUME SecretInv, NEW t \in Terminals, InitMerges(t), disk # None, NEW n \in Names
    PROVE  Stays(disk, disk', n)
<1>1. CASE Managed(disk) BY <1>1 DEF InitMerges, Stays
<1>2. CASE ~Managed(disk)
  <2>1. disk.roster = <<>> /\ disk.keys[Flat] = Blank BY <1>2 DEF Managed, Prefixes
  <2>2. Targets(disk) = {} BY <2>1 DEF Targets, Blank
  <2> QED BY <2>2 DEF Stays
<1> QED BY <1>1, <1>2

\* No step of anybody loses a stored password, but the two that their user
\* was asked about, or that write over a change.
THEOREM SecretsAreKept == Spec => SecretsStay
<1> DEFINE Excused == \A n \in Names : LosesSecret(n) => \E t \in Terminals : OverwritesStale(t)
<1>1. ASSUME SecretInv, [Next]_vars PROVE Excused
  <2> SUFFICES ASSUME NEW n \in Names, LosesSecret(n) PROVE \E t \in Terminals : OverwritesStale(t)
    OBVIOUS
  <2>1. disk # None /\ ~Stays(disk, disk', n) BY StaysEnough DEF LosesSecret
  <2>2. disk \in File /\ Hosted(disk) BY <1>1, <2>1 DEF SecretInv, TypeOK, DiskFits
  <2>3. disk' # disk BY <2>1 DEF Stays
  <2>4. ASSUME NEW m \in Names, NEW h \in Hosts, NEW pinned \in BOOLEAN, NEW gate \in Gates \union {None},
               NEW makeDefault \in BOOLEAN, WriteProfile(m, h, pinned, gate, makeDefault)
        PROVE  FALSE
    <3> DEFINE pin == IF pinned THEN Cert(h) ELSE None
    <3>1. pin \in Pin \union {None} BY <1>1, CertPin DEF SecretInv
    <3>2. gate \in BOOLEAN \union {None} BY SetupAssumption
    <3>3. disk' = Profiled(disk, m, h, pin, gate, makeDefault) BY <2>4 DEF WriteProfile
    <3> HIDE DEF pin
    <3> QED BY <2>1, <2>2, <3>1, <3>2, <3>3, ProfiledStays
  <2>5. ASSUME NEW t \in Terminals, Command(t) PROVE OverwritesStale(t)
    <3>1. DOMAIN term = Terminals BY <1>1 DEF SecretInv, TypeOK
    <3>2. CASE SecretTyped(t)
      <4>1. term[t].content # disk BY <1>1, <2>1, <3>2, SecretTypedStays
      <4> QED BY <3>1, <3>2, <4>1 DEF SecretTyped, Leaves, OverwritesStale
    <3>3. CASE InitReplaces(t) BY <3>1, <3>3 DEF InitReplaces, Leaves, OverwritesStale
    <3>4. ASSUME NEW yes \in BOOLEAN, DoctorAnswered(t, yes) PROVE FALSE
      BY <1>1, <2>1, <3>4, DoctorAnsweredStays
    <3>5. CASE InitMerges(t) BY <1>1, <2>1, <3>5, InitMergesStays
    <3> QED BY <2>3, <2>5, <3>2, <3>3, <3>4, <3>5
        DEF Command, SecretPrompts, DoctorStarts, DoctorChecks, InitAsks, Aborts
  <2>6. ASSUME NEW m \in Names, OperatorEdits(m) PROVE FALSE BY <1>1, <2>1, <2>6, OperatorStays
  <2> QED BY <1>1, <2>3, <2>4, <2>5, <2>6
      DEF Next, vars, Start, TestStarts, TestProbes, TestComparesPin, TestLogsIn, TestUnchanged, Renewed
<1>2. SecretInv /\ [Next]_vars => [Excused]_vars BY <1>1
<1> QED BY <1>2, SpecSecrets, PTL DEF Spec, SecretsStay

=============================================================================
