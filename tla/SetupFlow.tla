----------------------------- MODULE SetupFlow -----------------------------
(***************************************************************************)
(* The env file and everybody who writes it: the setup_* tools of a server *)
(* in setup mode (tools/setup.ts), the commands `secret`, `doctor` and     *)
(* `init` in other terminals (cli/), and the start-up that reads it        *)
(* (index.ts, config.ts).                                                  *)
(*                                                                         *)
(* A tool reads and writes the file in one step.  A command reads it, asks *)
(* its user, and writes later what it computed from what it had read.      *)
(* A write is one step: the temporary file is renamed in the same tick.    *)
(***************************************************************************)
EXTENDS Naturals, Sequences, Functions

CONSTANTS
    Hosts,          \* CCUs, as addressed by host and port
    Https, Open,    \* those that speak HTTPS, those that need no password
    Names, Default, \* target names, the one of the single-CCU form
    Flat,           \* key prefix of the single-CCU form: none
    Gates,          \* the values of PROTECTED that somebody gives
    Terminals,      \* where commands are run
    None, Empty,    \* an absent key, a deliberately empty password
    MaxActs,        \* bound on setup_write_profile calls, commands and edits
    MaxRenewals     \* bound on certificate renewals

ASSUME SetupAssumption ==
    /\ Https \subseteq Hosts /\ Open \subseteq Hosts
    /\ Gates \subseteq BOOLEAN /\ Default \in Names /\ Flat \notin Names
    /\ None \notin Hosts /\ Empty \notin Hosts /\ None # Empty /\ None \notin Names
    /\ MaxActs \in Nat /\ MaxRenewals \in Nat

VARIABLES
    disk,     \* the env file, or None
    cert,     \* CCU -> how often its certificate was renewed
    server,   \* "off", in "setup" mode, or "up"
    test,     \* the setup_test in progress, or its verdict
    term,     \* terminal -> the command that waits in it, or None
    acts,     \* how many of them there were
    typed,    \* history: the CCUs whose password somebody has entered
    asked,    \* history: target name -> whether protection was last asked for
    strayPin  \* history: doctor has pinned a target that had changed meanwhile

history == <<typed, asked, strayPin>>
vars == <<disk, cert, server, test, term, acts, history>>

-----------------------------------------------------------------------------
(* The file.  trust stands for CA_CERT and TLS_VERIFY, gate for PROTECTED   *)
(* and READONLY, extra for the operator's lines about other things.  HTTPS  *)
(* is written as setup_probe finds it, so it goes with the CCU.             *)

Prefixes == Names \union {Flat}
Pin == Hosts \X (0 .. MaxRenewals)
Secret == Hosts \union {Empty}

Entry == [host: Hosts \union {None}, pin: Pin \union {None}, secret: Secret \union {None},
          trust: BOOLEAN, gate: BOOLEAN]
Blank == [host |-> None, pin |-> None, secret |-> None, trust |-> FALSE, gate |-> FALSE]

Cert(h) == <<h, cert[h]>>
Acts == acts < MaxActs /\ acts' = acts + 1

(* Names the file configures, and the keys that belong to one.              *)
Targets(f) ==
    IF f.roster # <<>> THEN Range(f.roster)
    ELSE IF f.keys[Flat].host # None THEN {Default} ELSE {}
PrefixIn(f, n) == IF f.roster = <<>> THEN Flat ELSE n
EntryOf(f, n) == f.keys[PrefixIn(f, n)]

Managed(f) == f.roster # <<>> \/ f.dflt # None \/ \E p \in Prefixes : f.keys[p] # Blank

Keyed(p, key, value, f) == [f EXCEPT !.keys[p] = [@ EXCEPT ![key] = value]]

LeftoverDefault(flat, dflt) == dflt
DefaultKey(flat, dflt) == IF flat THEN None ELSE dflt

(* buildEnvContent() and mergeEnvContent(): every managed key is replaced,  *)
(* the other lines stay.  The flat form is for one target, unless forced.   *)
Written(roster, dflt, entry, forced, extra) ==
    LET flat == Len(roster) = 1 /\ ~forced IN
    [roster |-> IF flat THEN <<>> ELSE roster,
     dflt   |-> DefaultKey(flat, dflt),
     keys   |-> [p \in Prefixes |->
                    IF flat THEN (IF p = Flat THEN entry[roster[1]] ELSE Blank)
                    ELSE IF p \in Range(roster) THEN entry[p] ELSE Blank],
     extra  |-> extra]

-----------------------------------------------------------------------------
(* Loading the file, and what a start makes of it.                          *)

TlsFits(e) == e.host \notin Https => e.pin = None /\ ~e.trust

WellFormed(f) ==
    /\ f.roster = <<>> => f.dflt = None /\ f.keys[Flat].host # None
    /\ f.roster # <<>> => f.dflt \in Range(f.roster) \union {None}
    /\ \A n \in Targets(f) : EntryOf(f, n).host # None /\ TlsFits(EntryOf(f, n))

(* loadConfig(): the flat form needs the password key, a named target not.  *)
Loads(f) ==
    /\ f # None /\ WellFormed(f)
    /\ f.roster = <<>> => f.keys[Flat].secret # None

AwaitingIgnored(f) == {}
Awaiting(f) == {n \in Range(f.roster) : f.keys[n].secret = None}

(* The gate of a target in the configuration: only named ones have one.     *)
Protected(f, n) == f.roster # <<>> /\ f.keys[n].gate

(* With --stdio and --env a start goes to setup mode when the file does not *)
(* load or lacks passwords; any other start fails or goes on.               *)
Starts(f, eligible) ==
    IF ~eligible THEN (IF Loads(f) THEN "up" ELSE "off")
    ELSE IF Loads(f) /\ Awaiting(f) = {} THEN "up" ELSE "setup"

NoTest == [place |-> "idle", ok |-> FALSE, todo |-> <<>>, targets |-> {}]

Start(eligible) ==
    /\ server' = Starts(disk, eligible) /\ test' = NoTest
    /\ UNCHANGED <<disk, cert, term, acts, history>>

-----------------------------------------------------------------------------
(* setup_write_profile.                                                     *)

Known(f) == IF f = None THEN <<>> ELSE IF f.roster # <<>> THEN f.roster
            ELSE IF f.keys[Flat].host # None THEN <<Default>> ELSE <<>>

UpsertedAlone(roster, n) == IF n \in Range(roster) THEN roster ELSE <<n>>
Upserted(roster, n) == IF n \in Range(roster) THEN roster ELSE Append(roster, n)

NewDefault(f, roster, n, makeDefault) ==
    IF makeDefault THEN n
    ELSE IF f # None /\ f.roster # <<>> /\ f.dflt \in Range(roster) THEN f.dflt ELSE roster[1]

(* WizardProfile has no field for CA_CERT and TLS_VERIFY.                   *)
Parsed(f, n) == [EntryOf(f, n) EXCEPT !.trust = FALSE]

Previous(f, n) == IF n \in Range(Known(f)) THEN Parsed(f, n) ELSE Blank

KeptAnyway(previous, h) == previous.secret
Kept(previous, h) == IF previous.host = h THEN previous.secret ELSE None

Updated(f, n, h, pin, gate) ==
    LET previous == Previous(f, n) IN
    [host |-> h, pin |-> pin, secret |-> Kept(previous, h), trust |-> FALSE,
     gate |-> IF gate = None THEN previous.gate ELSE gate]

Profiled(f, n, h, pin, gate, makeDefault) ==
    LET roster == Upserted(Known(f), n) IN
    Written(roster, NewDefault(f, roster, n, makeDefault),
            [m \in Names |-> IF m = n THEN Updated(f, n, h, pin, gate) ELSE Previous(f, m)],
            roster # <<Default>>, f # None /\ f.extra)

WriteProfile(n, h, pinned, gate, makeDefault) ==
    /\ server = "setup" /\ Acts
    /\ pinned => h \in Https
    /\ disk' = Profiled(disk, n, h, IF pinned THEN Cert(h) ELSE None, gate, makeDefault)
    /\ asked' = IF gate = None THEN asked ELSE [asked EXCEPT ![n] = gate]
    /\ UNCHANGED <<cert, server, test, term, typed, strayPin>>

-----------------------------------------------------------------------------
(* setup_test: the configuration is read once, then each target is probed,  *)
(* its pin compared and its login tried, with an await before each result.  *)

Job(f, n) == [prefix |-> PrefixIn(f, n), entry |-> EntryOf(f, n)]
Jobs(f) == [i \in DOMAIN Known(f) |-> Job(f, Known(f)[i])]

TestStarts ==
    /\ server = "setup" /\ test.place \in {"idle", "green", "red"}
    /\ test' = IF Loads(disk)
               THEN [place |-> "probe", ok |-> TRUE, todo |-> Jobs(disk), targets |-> Range(Jobs(disk))]
               ELSE [NoTest EXCEPT !.place = "red"]
    /\ UNCHANGED <<disk, cert, server, term, acts, history>>

VerdictOfLast(ok, finding) == finding
Verdict(ok, finding) == ok /\ finding

(* One finding more; the next target, or the end.                           *)
Found(finding) ==
    LET ok == Verdict(test.ok, finding) IN
    IF Len(test.todo) > 1 THEN [test EXCEPT !.place = "probe", !.ok = ok, !.todo = Tail(@)]
    ELSE IF ok THEN [test EXCEPT !.place = "green", !.todo = <<>>]
    ELSE [NoTest EXCEPT !.place = "red"]

TestUnchanged == UNCHANGED <<disk, cert, server, term, acts, history>>
Subject == Head(test.todo).entry

TestProbes ==
    /\ test.place = "probe"
    /\ test' \in {Found(FALSE), [test EXCEPT !.place = IF Subject.host \in Https /\ Subject.pin # None
                                                       THEN "pin" ELSE "login"]}
    /\ TestUnchanged

TestComparesPin ==
    /\ test.place = "pin"
    /\ \/ test' = Found(FALSE)
       \/ Subject.pin = Cert(Subject.host) /\ test' = [test EXCEPT !.place = "login"]
    /\ TestUnchanged

(* The login goes over a connection that honours the pin; an absent         *)
(* password is sent as an empty one.                                        *)
Accepts(e) ==
    /\ e.pin # None => e.pin = Cert(e.host)
    /\ e.secret = e.host \/ e.host \in Open

TestLogsIn ==
    /\ test.place = "login"
    /\ \/ test' = Found(FALSE)
       \/ Accepts(Subject) /\ test' = Found(TRUE)
    /\ TestUnchanged

-----------------------------------------------------------------------------
(* ccu-mcp secret: the file as it was when the prompt opened is written     *)
(* back with the one key replaced.                                          *)

Runs(t) == term[t] = None /\ Acts
Waits(t, place) == term[t] # None /\ term[t].place = place
Leaves(t) == term' = [term EXCEPT ![t] = None]

SecretPrompts(t, n) ==
    /\ Runs(t) /\ disk # None
    /\ IF disk.roster # <<>> THEN n \in Range(disk.roster) ELSE n = Default /\ disk.keys[Flat].host # None
    /\ term' = [term EXCEPT ![t] = [place |-> "hidden", content |-> disk, prefix |-> PrefixIn(disk, n)]]
    /\ UNCHANGED <<disk, cert, server, test, history>>

(* The user types the password of the CCU that the prompt names.            *)
PasswordOf(h) == IF h \in Open THEN Empty ELSE h

SecretBase(t) == term[t].content

SecretTyped(t) ==
    LET h == term[t].content.keys[term[t].prefix].host IN
    /\ Waits(t, "hidden") /\ Leaves(t)
    /\ disk' = Keyed(term[t].prefix, "secret", PasswordOf(h), SecretBase(t))
    /\ typed' = typed \union {h}
    /\ UNCHANGED <<cert, server, test, acts, asked, strayPin>>

-----------------------------------------------------------------------------
(* ccu-mcp doctor: checks the configuration it loaded, target by target,    *)
(* and may write a presented fingerprint into the file as it is by then.    *)

DoctorStarts(t) ==
    /\ Runs(t) /\ Loads(disk)
    /\ term' = [term EXCEPT ![t] = [place |-> "check", todo |-> Jobs(disk)]]
    /\ UNCHANGED <<disk, cert, server, test, history>>

NextCheck(t) ==
    IF Len(term[t].todo) > 1 THEN [place |-> "check", todo |-> Tail(term[t].todo)] ELSE None

(* A CCU out of reach, no pin, or one that fits: on to the next target.     *)
(* Else doctor offers to pin what was presented.                            *)
DoctorChecks(t) ==
    LET e == Head(term[t].todo).entry IN
    /\ Waits(t, "check")
    /\ \/ term' = [term EXCEPT ![t] = NextCheck(t)]
       \/ /\ e.pin # None /\ e.pin # Cert(e.host)
          /\ term' = [term EXCEPT ![t] = [place |-> "offer", todo |-> @.todo, presented |-> Cert(e.host)]]
    /\ UNCHANGED <<disk, cert, server, test, acts, history>>

DoctorBase(t) == disk

DoctorAnswered(t, yes) ==
    LET p == Head(term[t].todo).prefix IN
    /\ Waits(t, "offer") /\ term' = [term EXCEPT ![t] = NextCheck(t)]
    /\ IF yes /\ disk # None
       THEN /\ disk' = Keyed(p, "pin", term[t].presented, DoctorBase(t))
            /\ strayPin' = (strayPin \/ disk.keys[p].host # term[t].presented[1])
       ELSE UNCHANGED <<disk, strayPin>>
    /\ UNCHANGED <<cert, server, test, acts, typed, asked>>

-----------------------------------------------------------------------------
(* ccu-mcp init: asks for everything first, reads the file at the end, and  *)
(* asks once more if it would replace a configuration.  Two targets are     *)
(* given in one order, the first the default: a bound of the model.         *)

Answers == [roster: {<<n>> : n \in Names} \union {<<Default, n>> : n \in Names \ {Default}},
            host: [Names -> Hosts], pinned: BOOLEAN, gate: Gates \union {FALSE}]

Composed(a) ==
    Written(a.roster, a.roster[1],
            [n \in Names |-> [host |-> a.host[n], secret |-> PasswordOf(a.host[n]), trust |-> FALSE,
                              pin |-> IF a.pinned /\ a.host[n] \in Https THEN Cert(a.host[n]) ELSE None,
                              gate |-> a.gate]],
            FALSE, FALSE)

InitAsks(t, a) ==
    /\ Runs(t) /\ term' = [term EXCEPT ![t] = [place |-> "composed", file |-> Composed(a)]]
    /\ UNCHANGED <<disk, cert, server, test, history>>

Merged(file) == [file EXCEPT !.extra = disk # None /\ disk.extra]

Replaced(file) ==
    /\ disk' = file
    /\ typed' = typed \union {EntryOf(file, n).host : n \in Targets(file)}
    /\ asked' = [n \in Names |-> n \in Targets(file) /\ EntryOf(file, n).gate]

InitMerges(t) ==
    /\ Waits(t, "composed")
    /\ IF disk # None /\ Managed(disk)
       THEN /\ term' = [term EXCEPT ![t] = [place |-> "replace", file |-> Merged(@.file)]]
            /\ UNCHANGED <<disk, typed, asked>>
       ELSE Leaves(t) /\ Replaced(Merged(term[t].file))
    /\ UNCHANGED <<cert, server, test, acts, strayPin>>

InitReplaces(t) ==
    /\ Waits(t, "replace") /\ Leaves(t) /\ Replaced(term[t].file)
    /\ UNCHANGED <<cert, server, test, acts, strayPin>>

(* End of input, Ctrl-C or a "no": a command that waits for an answer ends  *)
(* without writing.                                                         *)
Aborts(t) ==
    /\ term[t] # None /\ term[t].place # "check" /\ Leaves(t)
    /\ UNCHANGED <<disk, cert, server, test, acts, history>>

-----------------------------------------------------------------------------
(* The surroundings.                                                        *)

Renewed(h) ==
    /\ h \in Https /\ cert[h] < MaxRenewals /\ cert' = [cert EXCEPT ![h] = @ + 1]
    /\ UNCHANGED <<disk, server, test, term, acts, history>>

(* The operator edits the file: a CA for a target, a line about other       *)
(* things.                                                                  *)
OperatorEdits(n) ==
    /\ Acts /\ disk # None /\ n \in Targets(disk) /\ EntryOf(disk, n).host \in Https
    /\ disk' = [Keyed(PrefixIn(disk, n), "trust", TRUE, disk) EXCEPT !.extra = TRUE]
    /\ UNCHANGED <<cert, server, test, term, history>>

(* No file yet, or a single CCU set up by hand, verified against a CA.      *)
ByHand(h) ==
    [roster |-> <<>>, dflt |-> None, extra |-> TRUE,
     keys |-> [p \in Prefixes |-> IF p # Flat THEN Blank
                 ELSE [Blank EXCEPT !.host = h, !.secret = PasswordOf(h), !.trust = TRUE]]]

Init ==
    /\ disk \in {None} \union {ByHand(h) : h \in Https}
    /\ typed = IF disk = None THEN {} ELSE {disk.keys[Flat].host}
    /\ cert = [h \in Hosts |-> 0] /\ server = "off" /\ test = NoTest
    /\ term = [t \in Terminals |-> None] /\ acts = 0
    /\ asked = [n \in Names |-> FALSE] /\ strayPin = FALSE

Command(t) ==
    \/ \E n \in Names : SecretPrompts(t, n)
    \/ SecretTyped(t)
    \/ DoctorStarts(t) \/ DoctorChecks(t)
    \/ \E yes \in BOOLEAN : DoctorAnswered(t, yes)
    \/ \E a \in Answers : InitAsks(t, a)
    \/ InitMerges(t) \/ InitReplaces(t) \/ Aborts(t)

Next ==
    \/ \E eligible \in BOOLEAN : Start(eligible)
    \/ \E n \in Names, h \in Hosts, pinned \in BOOLEAN, gate \in Gates \union {None},
          makeDefault \in BOOLEAN : WriteProfile(n, h, pinned, gate, makeDefault)
    \/ TestStarts \/ TestProbes \/ TestComparesPin \/ TestLogsIn
    \/ \E t \in Terminals : Command(t)
    \/ \E h \in Hosts : Renewed(h)
    \/ \E n \in Names : OperatorEdits(n)

Spec == Init /\ [][Next]_vars

-----------------------------------------------------------------------------
(* What a command keeps while it waits, by the place where it does.         *)
File == [roster: Seq(Names), dflt: Names \union {None}, keys: [Prefixes -> Entry], extra: BOOLEAN]
Check == [prefix: Prefixes, entry: Entry]

Suspended ==
    [place: {"hidden"}, content: File, prefix: Prefixes]
      \union [place: {"check"}, todo: Seq(Check)]
      \union [place: {"offer"}, todo: Seq(Check), presented: Pin]
      \union [place: {"composed", "replace"}, file: File]

TypeOK ==
    /\ disk \in File \union {None} /\ cert \in [Hosts -> 0 .. MaxRenewals]
    /\ server \in {"off", "setup", "up"} /\ term \in [Terminals -> Suspended \union {None}]
    /\ test \in [place: {"idle", "probe", "pin", "login", "green", "red"}, ok: BOOLEAN,
                 todo: Seq(Check), targets: SUBSET Check]
    /\ acts \in 0 .. MaxActs /\ typed \subseteq Hosts /\ asked \in [Names -> BOOLEAN]
    /\ strayPin \in BOOLEAN

-----------------------------------------------------------------------------
(* What must hold.                                                          *)

(* A password is never stored with, and so never sent to, another CCU than  *)
(* the one whose name was shown when it was typed: not when a target moves  *)
(* while a prompt is open, and not when one form of the file becomes the    *)
(* other.                                                                   *)
NoForeignSecret ==
    disk # None => \A p \in Prefixes :
        disk.keys[p].secret \in Hosts => disk.keys[p].secret = disk.keys[p].host

(* The server leaves setup mode for a configuration in which somebody has   *)
(* entered, or deliberately left empty, the password of every target.       *)
UpIsDecided ==
    disk # None /\ Starts(disk, TRUE) = "up" =>
        \A n \in Targets(disk) : EntryOf(disk, n).host \in typed

(* Whatever the tools and commands do to each other, the file they leave    *)
(* loads, or lacks only a password, unless doctor has pinned a target that  *)
(* was changed while its question was open.                                 *)
OnlyPasswordsMissing == disk # None /\ ~strayPin => WellFormed(disk)

(* A green setup_test has seen every target accept its password over a      *)
(* connection that fits the pin.                                            *)
GreenMeansLogin ==
    test.place = "green" =>
        /\ test.targets # {}
        /\ \A j \in test.targets : /\ j.entry.secret = j.entry.host \/ j.entry.host \in Open
                                   /\ j.entry.pin # None => j.entry.pin[1] = j.entry.host

(* A stored password is lost or changed only with its target's move, by the *)
(* replacement that init has asked about, or by a secret command whose      *)
(* prompt was opened before the file was last changed.                      *)
LosesSecret(n) ==
    /\ disk # None /\ n \in Targets(disk) /\ EntryOf(disk, n).secret # None
    /\ n \in Targets(disk') /\ EntryOf(disk', n).host = EntryOf(disk, n).host
          => EntryOf(disk', n).secret # EntryOf(disk, n).secret
    /\ \/ n \notin Targets(disk') \/ EntryOf(disk', n).host = EntryOf(disk, n).host

OverwritesStale(t) ==
    /\ term'[t] = None
    /\ Waits(t, "replace") \/ (Waits(t, "hidden") /\ term[t].content # disk)

SecretsStay == [][\A n \in Names : LosesSecret(n) => \E t \in Terminals : OverwritesStale(t)]_vars

(* What the README and the tool's description say: a target that was        *)
(* protected is protected in the server that starts.                        *)
GateIsKept ==
    disk # None /\ Starts(disk, TRUE) = "up" =>
        \A n \in Targets(disk) : asked[n] => Protected(disk, n)

=============================================================================
