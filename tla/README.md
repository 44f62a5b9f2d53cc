# ccu-mcp in TLA+

This directory models the parts of ccu-mcp (an MCP server in front of HomeMatic
CCUs, `src/src/`) in which the order of events matters, checks them with TLC and
proves the central ones with TLAPS.

The program is one Node.js event loop. Code between two `await`s runs without
interruption, so a model's action is the code from one resumption to the next
`await`, and what interleaves is what is suspended: tool calls, timers, requests
to the CCU, file operations.

## Inventory

| Component | State it keeps | Operations | Interacts with | Hard behaviour, and what makes it correct |
|---|---|---|---|---|
| `ccu/session.ts` SessionManager (one per target) | `sessionId`, `loginPromise`, `renewTimer`, `closed`, `session.json` | `login`, `call`, `logout`, `destroy`, renewal loop | every tool, start-up, shutdown, the CCU | re-login from several places at once, renewal against re-login, shutdown against login, crash with a file left behind: one login at a time, one timer, no leaked session, a final logout, no call executed twice |
| `middleware/rate-limiter.ts` RateLimiter (one per process) | tokens, queue, interval, `destroyed` | `acquire`, `refill`, `destroy` | every tool call, the poller, cache warming | stranded waiters, overtaking, a queue at its limit, clock steps, calls after shutdown |
| `middleware/retry.ts` withRetry | none | retry of idempotent calls | RateLimiter, SessionManager | a retry of a call the CCU has already executed |
| `cache/device-type-cache.ts` DeviceTypeCache (one per target) | entries, `inflightQueries`, `warming`, `stale`, `savePromise`, a file | `warm`, `getOrQuery`, `loadFromDisk`, `saveToDisk` | tools, start-up, shutdown | warming against live queries, partial failure of a query, saves that overlap, stale data |
| `ccu/target-registry.ts`, `tools/targets.ts` | active target and unlocked targets per MCP session | `use`, `resolveTarget`, `assertWritable` | every tool | a write gated for one target and executed on another; a confirmation that authorises too much |
| `tools/control.ts` | sysvar type cache with a generation counter | the write tools | SessionManager, caches, withRetry | a fetch begun before an invalidation and installed after it; a write repeated |
| `auth/token.ts` | the accepted tokens with their ends, a file with the current and the previous one | verify, resolve, persist, rotation tick | HTTP server | rotation, grace and expiry against requests, restart between rotation and save |
| `resources/poller.ts` | content hashes with the target they are of, a timer, a failure count | `poll`, `stop` | MCP sessions, RateLimiter, SessionManager | hashes of another target after a switch; a hash stored before anybody is told |
| `index.ts` HTTP sessions | session map, open streams, idle timers | create, request, evict, close, shutdown | MCP transports, TargetSelection | the limit checked before an await, eviction of a session in use, a stream never counted down, order of shutdown |
| `prompts/completions.ts` | promises per method | `load` | Targets, SessionManager | an answer kept across a target switch, a late failure removing a newer entry |
| `tools/setup.ts`, `cli/env-writer.ts`, `cli/init.ts`, `secret.ts`, `doctor.ts`, `probe.ts` | the `.env` file | write a target, test, store a password, pin, set up anew | each other, in several processes; `config.ts` at the next start | a prompt open while the file changes; two forms of the file; a password carried to another CCU, lost, or taken for entered |
| `middleware/resolver.ts` (one per target) | the last device list, a shared refresh | `resolveInterface`, `updateDeviceList` | tools | an old list deciding that an address does not exist; overlapping refreshes |
| `ccu/client.ts`, `middleware/error-mapper.ts` | none | one HTTP request with a timeout | SessionManager | errors mapped to the categories others act on |
| `tools/read.ts`, `discovery.ts`, `diagnostics.ts`, `meta.ts`, `resources/registry.ts` | none | read-only tools and resources | SessionManager, Resolver | several calls per answer while `use_ccu` switches |
| `config.ts` | none after start | `loadConfig` | the env file, start-up | which files load, with what gate |
| `server.ts`, `logger.ts`, `utils.ts`, `cli/prompt.ts`, `http/error-response.ts`, `health/handler.ts` | subscriptions per session | wiring, formatting | | sequential |

PROJECT.json lists each with its status, and under `hazards` the lines at which
the hard behaviour bites.

## The session manager

`SessionManager.tla` models `ccu/session.ts` whole. One variable per field, plus
for every suspended activity ("actor") a program counter `pc`, the request it
has outstanding (`wire`) and the login it awaits (`awaits`):

* a *caller* is a tool call inside `call()`: `lazy` (awaiting the login of a
  manager without a session), `call`, `relogin`, `retry`, then its outcome;
* a *flight* is one run of `doLogin()`: `renew` the session in memory, `read` and
  `restore` the persisted one, `login`, `sleep` before the next attempt, `persist`;
* a *handle* is one `setTimeout` of the renewal loop together with its callback;
* `Main` is the process: start-up login, shutdown's `logoutAll()`/`destroyAll()`.

A request is sent by the actor, processed by the CCU (`CcuStep`), and its answer
is taken up later: three steps, since in between anything else may happen.
When a flight settles, everybody who awaits it continues before any other
callback runs, so `Settle` moves all of them in the same step. The CCU is the
one `session.ts` supposes: a call of a dead session and a call without the
privilege are both refused with 400 ("auth"), a login may be refused with "too
many sessions", sessions expire. A request can be lost before or after the CCU
acted on it. `Restart` is a crash or exit at any moment followed by a new
process, which finds the file and the CCU as they were, maybe with another
password.

Runs (module `MCSessionManager`):

* `SessionShared`: two callers, one of a forbidden method, two handles, two
  sessions, one lost request, one retry. Two callers and a handle are the three
  kinds of parties that can meet in `login()`; with a second session there is
  something to confuse the first with. The forbidden method and the second session
  are what `DenialsAreTrue` is about: a call learns whether it lacks the privilege by
  comparing the session it used (`UsedSid`) with the one after the re-login.
* `SessionRestart`: a restart, two session ids (the CCU gives no id out twice), a caller without the privilege, one lost request. Sessions
  valid on the CCU and held by nobody never outnumber the lost requests and dead
  processes, and none is restored for other credentials. Every call and
  `logout()` return. Fairness: every request is answered or times out (the
  client arms a timer on each), and due continuations run; nothing is assumed of
  callers, expiry or shutdown.

The bounds: `MaxFaults` lost requests, `MaxRestarts` restarts, and the number of
ids. Two handles let a new timer be armed while the callback of the old one runs.

Proved (`SessionManagerProofs.tla`), for any number of actors, ids, faults and
restarts: type correctness, single-flight login, the one renewal timer, its being
alive, the finality of `logout()`, that nothing is created or armed after it,
that a running login works on the session it should, that a call is executed at
most once and told a lack of privilege only if that is the reason, that no session of other credentials is taken back, and the bound on
leaked sessions. Most follow from
`SessionInv`. It adds to the properties what makes them inductive: `loginPromise`
is the one flight that is not idle (`PromiseIsFlight`); an actor awaits a flight
exactly in the places that follow `await this.loginPromise`, and then it awaits
this one (`WaitersAwaitIt`); the requests of a flight fit its place
(`FlightRequests`); `closed` and the end of `logout()` go with the process's
place (`Shutdown`); a session has its timer (`TimerKept`). Lemma `SettleKeeps`
is the heart: the one step in which many actors move. `FlightMoves`, `ActorMoves`
and `LoginKeeps` do the rest, each for a whole class of actions.

Four properties need an invariant of their own on top of it. `RunsInv` says how
often the CCU has run a call from what it answered: an answer "ok" means once, a
refusal never, and a lost answer ends the call. `DenialInv` says that an id refused
to a call it could have served has ended, and `EndedForGood` that an ended id never
comes back; so when it is in memory after the re-login, it is a dead session that the
renewal had confirmed before it ended. `CredInv` follows the session ids
with their credentials through file, wire and memory. `LeakInv` is an account:
sessions valid on the CCU and held by nobody, plus one that is owed, are no more
than the faults and restarts. One is owed while the renewal or the logout of the
session in memory has failed but has not been heard of: the fault is
counted before its session is given up. `LeakStep` does the arithmetic, and each
kind of step is shown to pay for what it loses (`Paid`). Both rest on
`FlightStepShape`, `AsideShape` and `CcuShape`, which say what a step of a flight,
of anybody else, and of the CCU leaves behind.
Proved only: `ClosedStaysClosed` (it speaks of single steps after shutdown and
follows from `SessionInv`). Model-checked only: liveness.

## The rate limiter

`RateLimiter.tla` models `middleware/rate-limiter.ts`: lazy refill from elapsed
wall-clock time, the wake-up loop, the queue and its limit, the interval that
exists only while someone waits, `destroy()`. Tokens are counted in units so that
fractions of a token occur. `TokenBucket.tla` is what callers may rely on: a
bucket that fills by itself and serves in order of arrival, with no timer and no
elapsed time. The refinement maps its level to what `refill()` would compute now.

One run (`MCRateLimiter`, `RateLimiter.cfg`): three callers, so that one finds the
queue of two full; a capacity of 2.5 tokens; the clock set back twice. It checks
the order of service, the refinement, and that every waiter is served or
cancelled. Fairness: the interval fires while it is set, and time goes on.
Setting the clock back is bounded: a clock set back for ever starves the queue.
`AcquireDestroyed` and `Admits` are the two sides of the `destroyed` check that
opens `acquire()`. The invariants and the refinement do not need the fairness.

Proved (`RateLimiterProofs.tla`), for all capacities, rates, queue limits and
callers: all safety properties and the refinement, and besides that the queue
keeps its limit (`QueueBounded`) and that nothing is granted after `destroy()`
(`NothingAfterDestroy`). The invariant `QueueInv`
says that while someone queues the interval is set, less than a token is left,
and the queue lists exactly the pending callers, each once.

## The tools that write

`WriteTools.tla` follows a write from the tool call to the CCU, across
`ccu/target-registry.ts` (selection and gate), `middleware/retry.ts` and the tools
in `tools/control.ts`, `run_script` in `tools/meta.ts` and
`acknowledge_service_messages` in `tools/diagnostics.ts`. They share one skeleton:
pin the session of the active target, `assertWritable()`, some reads, a token of
the limiter, the write under `withRetry()`. `assign_channel` goes through the last
three twice. The tools differ in whether they always need a confirmation, whether
their write is exempt from retries and how many writes they make: that is what
`AllTools`, `AlwaysConfirm`, `Retriable` and `Parts` say. Acknowledging is a write whose
answer, when it comes, may say that nothing was confirmed or that this is unknown; the tool
then reports an error (`Outcomes`). A `set_value` is three of
them, since its retry depends on what the schema cache knows of the parameter.

`Begin` runs up to the first `await`: there the gate decides and may unlock.
`Prepare`, `Send`, `LimiterRefuses`, `Lost`, `BackoffEnds`, `CcuRefuses` and
`Answered` are the resumptions. The CCU executes a request (`CcuRuns`) before its
answer is lost or not; a request whose answer did not come stays in `late` and may
be executed at any later time (`CcuRunsLate`) or never. `UseCcu` switches the
target of an MCP session between any two of these steps. `meant` and `said` record
what the user saw and confirmed, `runs` what the CCUs did.

One run (`WriteTools.cfg`): one target of each policy, two MCP sessions whose
unlocks must not be confused, two calls, of which one may unlock for the other,
one retry, two lost answers (both attempts of a call can be lost, or one of each
call), and of each kind of tool one: a one-shot write, a repeatable one that
always needs a confirmation, a repeatable one in two parts, a script, and an
acknowledgement.

Proved (`WriteToolsProofs.tla`) for every number of targets, sessions, calls,
retries and faults: all four properties of the run. The invariant `WriteInv` has two
parts. `Backed` says that an unlocked target has a confirmed ordinary write of
the same MCP session behind it. `CallInv` says of each call that it keeps the
target it began with (`Placed`), that the CCU only sees calls past the gate, on
that target (`Reached`), that these are authorised (`Cleared`), that a one-shot
write has nothing behind it until its one request is out (`Single`), and that the
parts before the current one are executed (`Told`). `Cleared` is what makes the
gate survive a later `use_ccu`: the authority is a matter of what was said, which
never shrinks. `AloneKeeps` and `OneCallKeeps` reduce every step to the one call
that takes it.

## The type cache of system variables

`SysVarTypes.tla` models the create, set and delete tools for one variable name:
the cache entry with its generation counter, which a create or delete advances,
the list fetch that is installed only if the generation is still the one it began
with, the setter by type, the verification, and the cleanup of a create for which
the CCU chose a derived name. A request is executed at one moment (`CcuExecutes`,
or `CcuExecutesLate` after its answer was given up) and answered at another.
The 30 s lifetime of the entry is not a clock: `BeginFromCache` and `Begin` are
both possible while there is an entry, so it may have expired at any call.
`since` remembers what the CCU held since the last invalidation, `epoch` how often
the variable was created anew.

Run: `SysVarTypes.cfg` (three calls, so that two creates race beside a set; one
request lost or refused; one change in the CCU's own user interface).
`CacheOutlivesNoChange`
is the point of the generation counter; `SuccessIsReal` of the verification;
`NoPhantom` of the cleanup.

Proved (`SysVarTypesProofs.tla`) for any number of calls, types, faults and foreign
changes: `CacheOutlivesNoChange` and type correctness. `CacheInv` adds that
`since` contains what the CCU holds now, that no call began with a generation
that is yet to come, and that a list that may still be installed shows something in
`since` (`CallFits`). `SuccessIsReal` and `NoPhantom` too. For the first, `SetInv` dates
what a call, an answer or the cache says of the type: as long as the variable has not been
created anew since, the CCU holds that type or nothing (`Timed`). A set executed on
nothing has not written, and then there is still nothing, or something new, when the
verification looks. The time matters because an answer can be older than a delete and a create. For
the second, `CountInv` counts the derived names against the calls that know of one and have
yet to remove it; a step of one call changes both sides by the same amount. Both need
`NoAnswerAssumption`: what a list shows is not the mark of a missing answer.

## The device-type cache

`DeviceTypeCache.tla` models `cache/device-type-cache.ts` with the parts of
`target-registry.ts`, `tools/targets.ts` and `index.ts` that load it, warm it and
save it. `fetch` holds what each live query and each warm-up worker is asking,
one request at a time; `inflight` and `awaits` are the shared promises; `saves` is
the chain behind `savePromise`, in which a save takes its data from memory when
its turn comes; a save writes the temporary file and renames it in two steps, and
the process may end between them. What a schema says is abstracted to the time
at which the CCU was asked for it. The limiter may refuse any request, so a query
and each worker can fail anywhere; interfaces that cannot be listed leave any set
of types out of a warm-up. A warm-up whose last listing is answered only after
`shutdown()` began gets no further answer from the limiter: it goes on to its
save with nothing fetched (`Fetchable`).

Run: `DeviceTypeCache.cfg` (two types, two calls of `describe_device_type`, two
workers, two requests per type, one failed file operation, one tick of a clock
past the TTL, one end of the process: every pair of activities can meet on one type
or on two). Types, calls and workers are interchangeable, and the properties of
the run are safety properties, so symmetry is sound. That queries and warm-ups end
is not checked beyond `WarmingIsHonest`.

Proved (`DeviceTypeCacheProofs.tla`) for any types, calls and workers (one worker at
least) and any number of file errors and ends of the process: all properties of the run.
`QueryInv` says that the map names exactly the live queries, each under the call
that runs it, and that whoever awaits one finds it running. `SaveInv` orders the
chain (`ChainOrder`: only the first save runs, its data is taken when it begins) and
follows each type from memory to the file: it is in the file, in the data of the
save that runs, or something still to come will take it (`SavedOrGoingTo`), and what
a save takes is no less than what the file has (`KnownGrow`).

## Auth tokens

`AuthTokens.tla` models the token that the HTTP server generates itself
(`auth/token.ts`) when it has a lifetime. `Boot` and `TickResolves` are
`resolveAuthTokens()` up to its first write, `Decided` what it decides; `SaveRead`,
`Saved` and `SaveFails` are `persist()`; `RotationTick` and `Recheck` the rotation tick of
`startAutoRotation()` around it. File operations take no time on the clock, but
the process can end, the data directory break or recover, and the operator change
the file between any two of them. A token given in the environment and one without a lifetime have no
changing state and are left out.

`promise` is the specification: until when clients may rely on a token, from what
the server announced and what is in the file. `NoOverstay` and `PromiseKept`
together say that a token works exactly that long. Both directions matter: the
second alone holds for a server that accepts everything. `NoOverstay` holds through any
outages on their own, and through any failed reads and edits on their own
(`OneKindOfFault`). Together they break it, see Findings.

Runs: `AuthTokens.cfg` with a lifetime of 5, a grace of 2 and a check every 2,
which makes ticks fall before, on and after the ends of tokens; time for two
rotations and the pruning after them; two outages, one failed read, one visit of
the operator, one restart; five tokens, drawn again once nobody knows them: in a few
long histories all five are still in use, and resolving a token stops there.
`AuthTokensRead.cfg` shows what a failed read does, see Findings; `PromiseKept` and
`NoUnsavedRotation` speak of histories without one and without the operator.
The constants satisfy Larger(Grace, Interval) < TTL - Interval, see below.

Proved (`HttpServerProofs.tla`, after the HTTP sessions) for any number of tokens, outages,
failed reads, edits and restarts: all four properties and type correctness.
`TokenInv` says what a decision of `resolveAuthTokens()` can be, independently of how it
is computed: a token generated, the clock of an old one started, a rotation, or the token as it is
(`Sensible`, from the operator lemma `DecidedFits`), and that a check happens at one moment
(`Ticking`). On it rest

* `FileTokenAccepted`, if Interval <= TTL: with no fault since the last check, the
  file's token has an entry that lasts until the next one (`FileInv`), because the lookahead rotates
  earlier otherwise;
* `NoTokenOverstays`: no entry outlasts what was announced for its token, nor do the tokens of
  the file or of the state a decision was made from (`Honest`), so that any of them may become
  entries (`OverInv`). Without a read that fails or an edit, a tick knows what is in the file
  (`RealInv`), so a token that could not be saved does not replace those accepted; without
  an outage no save fails (`Works`);
* `OnlySavedTokensEnter` and `AnnouncedUntilExpiry`, for reads that succeed (`RealInv`: what is
  decided is decided from the file). The second is proved from `Roomy`, which is
  Larger(Grace, Interval) + Interval < TTL. `KeepInv` says that what is announced has an entry
  that lasts as long (`Covered`), or is in the file while there are no entries, and the other
  way round that the tokens of the file are announced no longer than the file says (`Fair`): the
  file has room for one previous token, and with `Roomy` that one has lapsed when the
  next rotation needs its place (`DecisionKeeps`).

TLC finds `PromiseKept` violated in instances that just fail `Roomy` (TTL 5 with Grace 3 and
Interval 2; TTL 6 with Grace 0 and Interval 3), and `FileTokenWorks` for Interval 6 and
TTL 5, so these hypotheses are needed. Nothing in `config.ts` enforces `Roomy`: a lifetime
of one day with the default grace of 24 hours does not have it. The operators of
`AuthTokens` that other modules have too carry `Auth` in their names, because its proofs share a
module with those about `HttpSessions`; the two share no state.

## The env file

`SetupFlow.tla` models everything that reads or writes the `.env` file: the
`setup_*` tools of a server in setup mode (`tools/setup.ts`), the commands
`secret`, `doctor` and `init` in other terminals (`cli/`), and the start-up that
loads it (`index.ts`, `config.ts`). `disk` is the file: the roster of named
targets (`CCU_TARGETS`), the default, the keys of every prefix and whether there are
lines of other things; the single-CCU form is an empty roster with the keys under
the prefix `Flat`. `Written` is `buildEnvContent()` with `mergeEnvContent()`,
`WellFormed`, `Loads` and `Starts` are `loadConfig()` and what `main()` makes of it.

A tool reads and writes the file without an `await` between, so it is one step. A
command reads the file, waits for its user, and writes later: `secret` what it had
read with one key replaced (`SecretBase`), `doctor` one key of the file as it is by
then (`DoctorBase`), `init` what it asked for merged with the rest. Each of these
waits is a step boundary at which the tools, another terminal, the operator's
editor, a restart of the server or Ctrl-C may come. `setup_test` reads once and
awaits before each finding. A password is the CCU it belongs to, `Empty` one that
was left empty on purpose; a pin is a CCU with the number of its renewals. Quoting and the
wording of reports are left out. `typed`, `asked` and `strayPin` are history.

Runs: `SetupFlow.cfg` with one CCU that speaks HTTPS and has a password and one that
speaks HTTP and is open, so that every combination of pin, TLS line and empty
password occurs; the single-CCU form and two names; two terminals; three writing
activities, which is what it takes to open a prompt, change the file under it in
the other form, and go on from there; one renewed certificate. Terminals are
interchangeable. `init` gives two targets in one order, the first being the default: the
other order differs by the names only. `SetupFlowGate.cfg` asks for protection as
well, see Findings.

Proved (`SetupFlowProofs.tla`) for any CCUs, names, terminals and any number of
tool calls, commands and edits: all properties of `SetupFlow.cfg`. `SecretInv` says that
every password in the file, and in what a waiting command will write back, is the one
of the CCU it stands with, and that for this CCU a password was typed, or is as `init`
writes; that gives `NoForeignSecret` and `UpIsDecided`. `TestFits` says what a `setup_test` under way has
seen, `FormInv` that the file and what a prompt will write are well formed
(`DiskForm`, `PromptForm`), for `OnlyPasswordsMissing`. `SecretsStay` is read off the steps.

## HTTP sessions and the poller

`ResourcePoller.tla` models `resources/poller.ts`, `HttpSessions.tla` the session map of
`index.ts` and what shares it: the requests that open, use and delete a session,
the streams, the idle sweep, the capacity, the subscriptions of `server.ts`, the
poller's callback, and `shutdown()`. `Reaches` is the chain of early returns before
the map (preflight, health, token, path, body). `req` holds what each request under
way waits for: the transport that reads an initialize request (`connect`), a tool
(`post`), `transport.close()` (`delete`), the end of a stream (`stream`, or
`conflict` when the transport refuses a second one, which counts until it
closes). Times are kept as the time since an event, up to one past the limit. With
the stdio transport there is one session, and `use_ccu` moves the poller's target.

Run: `HttpSessions.cfg`, two session ids and two requests for a map with room for
one session, so that two initialize requests can meet before the map, or a sweep
meet a request; one polled list on two CCUs; one change, one failed poll. An MCP
request takes at most `MaxCall`, which is no longer than the idle time: the CCU
client bounds each of its calls by seconds, the idle time is half an hour; that
is the assumption `EvictedOnlyIdle` rests on, and without it a session would be evicted with
its call unanswered. Fairness: time passes and the idle sweep is run (`setInterval`), the
poller's steps and its callback run, and a request is answered. Clients owe
nothing: they need not close streams, delete sessions, or read what changed. Time
needs strong fairness because it waits for requests about to be answered, and
these never stop coming.

`IdleIsReclaimed` says that the count of open streams is right in the end, however
they ended; `ChangesAreTold` that a change is not swallowed between the stored
hash and the notification. It is about a subscriber with its stream open who knows
what the poller saw last. One who subscribed before the first cycle, or who reads
what changes back before the next, is told nothing, and a notification without a stream is
dropped: the code promises no more.

Proved (`HttpServerProofs.tla`, the poller's part first) for any targets, lists,
sessions, requests and limits: the three safety properties of the run. `PollerInv` says that a
hash the poller has is of the content its target has, unless that has changed since
(`HashesFit`), and that a cycle reads the target whose hashes it keeps (`CycleFits`):
that is `NoSpuriousUpdate`. `SessionInv` keeps the accounts while the server is up: a
session's count of streams is the number of requests that hold one (`Counted`), its age
without a stream is the time since its client was last in touch (`InTouch`), and with a
request under way it is no more than the request's (`RequestFits`); with `MaxCall` within
the idle time, `EvictedOnlyIdle` follows. `Room` counts sessions and
those about to become one against the limit, for `OverrunOnlyByRaces`. The two liveness
properties are model-checked only.

Left out: how requests under way end during
`shutdown()`, how long the poller waits, its back-off included.

## What only reads

`Readers.tla` models the tools and resources that change nothing on a CCU
(`tools/read.ts`, `discovery.ts`, `resources/registry.ts`, and `diagnostics.ts` but for
`acknowledge_service_messages`, which is a write and in `WriteTools`), the
resolver they share (`middleware/resolver.ts`), and the completions of prompt
arguments (`prompts/completions.ts`). A tool is the sequence of its calls, some
optional, some depending on its arguments; each call is sent with the session of
the tool's target, fixed when the tool is called, or, in a resource, with the one of
the target that is active then. Of the data one device is followed: which
interface, if any, its CCU lists it under. The resolver keeps the last list
(`interfaceMap`) and shares a refresh (`refreshPromise`); the tools that list devices hand
it theirs, which they may have read before. `absent` is history: the CCU did not
list the device at some time since the refresh in question began.

Run: `Readers.cfg`, two targets, two requests, two interfaces, one move of the
device, one switch among three activities. Two requests share a refresh or
race it with a list of their own. Requests are interchangeable.

Proved (`ReadersProofs.tla`) for any targets, interfaces (finitely many), requests and
changes: both properties of the run. `ReaderInv` says of each request that a tool keeps its
target and has answers of this one only, and that what it takes for unknown was once
absent (`Fit`); of a refresh under way, that a device its list or the CCU lacks was absent
since it began (`RefreshFits`); and of who joined it, that what was absent for the refresh
was absent for him (`JoinFits`). Proved only: `FailureCostsOneLoad`, a bound on what the
completions cost. A load begins only a minute after the last one began, or after one has
failed. The failure may be one of a load so late that a newer one has replaced it: its entry is
deleted all the same (completions.ts:71). So each failure costs at most one load more
(`CacheInv`).

## Findings

Each of these two is a run that TLC refutes.

* `auth/token.ts:218-220` says that nobody is cut off by a rotation. A read of the
  file that fails for any reason counts as no file (line 251): the tick mints a
  new token, saves it without a previous one and drops the current one
  (`AuthTokensRead`).
* `tools/setup.ts:282`, `cli/init.ts:192` and `SECURITY.md:60` promise a gate for a
  protected target. A single target (from the tools: one named `default`) is written in the
  single-CCU form with `PROTECTED` (setup.ts:338, env-writer.ts:74-75, init.ts:206),
  where `loadConfig()` sets the gate to false (config.ts:298-299): the server starts
  without it (`SetupFlowGate`).

Further places where the code does something else than its comments say, met
while modelling and visible in the models, without a run of their own:

* `ccu/session.ts:177-178`: if the re-login comes back with the session the failed request
  used, "that session was never invalid". It may have ended in between and the call
  have joined a renewal confirmed before that, see `DenialsAreTrue`: the call is then
  told of a lack of privilege though its session has ended.
* `ccu/session.ts:306-309`: the renewal loop "never stacks calls". A tool call's
  re-login arms a new timeout while the callback of the old one still waits for its
  answer (line 312); `SessionManager` has both handles.
* `auth/token.ts:367`: only what ends up persisted is adopted. When the file is gone or
  cannot be read only after the tick has found a token in it (line 376), and the write fails as well, the
  token minted is neither saved nor announced (line 318) and still replaces those accepted
  (line 384). Likewise when the first two reads and the write fail and the third read
  succeeds, which the tick takes for a recovery (line 389). `NoOverstay` leaves these out.
* `tools/control.ts:185-186`: create and delete clear the type cache so that changes
  show at once. They do so after a positive answer only (line 736): a delete that
  was executed and whose answers were lost leaves the old type cached.
* `cache/device-type-cache.ts:364`: `isStale()` is true when the schemas are older
  than the TTL. A save stamps the file with its own time (line 159): expired
  schemas are fresh again after the save of one live query and a restart.
* `cache/device-type-cache.ts:307`: a lost answer for one paramset leaves a schema
  with a hole, which is cached for the TTL like a whole one.
* `cli/secret.ts:8` and `README.md:327-328`: `secret` writes only the password. It writes back
  the whole file as it was when the prompt opened (line 71).
* `tools/setup.ts:270-271`: other targets are preserved. Their `TLS_VERIFY` and
  `CA_CERT` lines are not (`Parsed`).
* `tools/setup.ts:485-487`: after a green `setup_test` the server can be restarted. A
  named target without a password on an open CCU passes, and the server
  starts in setup mode again (index.ts:165-176).
* `cli/doctor.ts:62`: when the target has moved while the question was open, the
  fingerprint of the old CCU is pinned for the new one (`strayPin`).
* `README.md:194`: the just-replaced token keeps validating for the grace period (24 hours
  by default). With a lifetime no longer than grace and check interval together the next
  rotation takes its place in the file first (see `Roomy`).
* `index.ts:496-499`: initialize requests that overlap exceed the session limit
  (`OverrunOnlyByRaces` says that nothing else does).
* `resources/registry.ts:65-68`: the system resource asks for its session at each
  call and may show two targets in one answer; `AnswersOfOneTarget` speaks of tools.
* `tools/diagnostics.ts:294`: "N/A" always means connected but not permitted. It is
  also shown when a call timed out.
* `prompts/completions.ts:56`: lists are kept by method; for a minute after `use_ccu`
  the other target's names are suggested.

## What is not modelled, and what is out of reach

Not modelled inside the components: TLS, message texts, the conversion of values,
quoting, the content of schemas and lists. Of `server.ts` and `index.ts` the wiring that
has no state, of `utils.ts`, `logger.ts` and the schemas everything: they are
sequential and keep nothing. The test scripts and the build are not part of the
running program. PROJECT.json gives the reason for each component.

Liveness under fairness (`CallsReturn`, `LogoutReturns`, those of the limiter,
`IdleIsReclaimed`, `ChangesAreTold`) is checked by TLC only: the proof system has no rule
for it. Every safety invariant and action property that a passing run checks is proved, some
of them under the hypotheses on the constants named above; the type invariants are proved
and not run.
