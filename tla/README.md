# OpenClaw Bridge: TLA+ specifications

OpenClaw Bridge runs on one Mac and gives "brains" (agents) a local HTTP API to
iMessage, an LLM, a vault, e-mail and Apple applications. This directory models
the parts of it that keep state and talk to each other: what happens to a draft
reply between approval and delivery, to an incoming message between `chat.db`
and the brain, to a POST that is repeated, to child processes, secrets and
database schemas when something is killed, to bearer tokens while they are
rotated, and to what mail server and Apple applications are asked to do.

All source paths are relative to the repository root. `PROJECT.json` maps every
definition to the lines it stands for and lists runs, mutants, theorems,
findings and hazards.

## 1. Inventory of the system

Processes: `redis-server` (pub/sub, the outbound list, rate buckets; started
without persistence), the bridge (FastAPI, one asyncio loop, one process), the
iMessage relay (two threads: inbound and outbound), the agent brain (asyncio),
the supervisor (starts Redis, bridge and brain; launchd starts supervisor and
relay), command-line tools. Durable state: three SQLite databases of the bridge,
the brain's `state.db`, the relay's state file, the macOS Keychain. Everything
else is lost with its process.

| Component | State | Operations | Talks to |
|---|---|---|---|
| Agent draft store (`routes/agent.py`) | `agent.db`: `drafts` rows with status, body, dispatch id | POST, PATCH, GET, list; correlation of outcomes | outbound list (RPUSH), pub/sub |
| iMessage routes (`routes/imessage.py`) | the Redis list `imessage:outbound:{agent}` | inbound, send, outbox (BLPOP long poll), sent | relay, pub/sub, draft store |
| Relay (`relays/imessage`) | state file with the last ROWID; the job in hand | poll `chat.db`, POST inbound, long poll, osascript, POST sent, HTTP retries | bridge, `chat.db`, Messages |
| Event bus (`eventbus/*`, `routes/events.py`) | Redis subscriptions, WebSockets | publish, psubscribe, forward | Redis, brains |
| Brain and event stream (`brains/*`) | `state.db`: processed events; one envelope in hand | connect and reconnect, triage, draft, mark processed | bridge |
| SDK client (`brains_shared/client.py`) | one call: key, attempt, time slept | stamp a key, repeat on 429, time out | every route |
| Generated client (`brains_shared/_generated`) | none | build a request, read an answer | every route |
| Operator CLI (`scripts/brain-drafts.py`) | what the terminal shows | list, show, edit, approve, reject, retry | draft store |
| Supervisor (`supervisor.py`) | child processes, crash history, backoff, shutdown event | start with readiness gate, watch, restart, give up, stop all | every child, Keychain |
| Bridge lifespan (`app.py`), health (`routes/health.py`) | the Redis client; one request's probes | open databases, read secrets; probe concurrently, roll up | SQLite, Keychain, Redis, providers |
| Idempotency middleware (`idempotency.py`) | table of cached 2xx answers | lookup, prune, replay, conflict, store | every POST route |
| Rate limiter (`ratelimit.py`) | buckets in Redis, fallback buckets in memory | take a token, refill, expire | Redis; LLM, send and vault routes |
| Migrations (`migrations/`) | schema objects, `_migrations` | apply what is not recorded | SQLite |
| Tokens (`keychain.py`, `auth.py`, `scripts/`) | Keychain items, manifest, in-memory map | mint, rotate, refresh, lookup | Keychain, every request |
| LLM, telemetry, vault | `llm_calls`, files | one request each | provider, file system, pub/sub |
| E-mail (`providers/email`) | none of its own; the mailbox | list, detail, send | IMAP, SMTP |
| Calendar, reminders, contacts (`providers/apple`) | none of their own; the applications | list, create, update through osascript | Apple applications |
| Installer, bundle, launchers, ops scripts | none at run time | - | - |

What is hard in it, and what makes each part correct:

- *Draft to message.* A commit to SQLite, a push to Redis, a long poll, an
  AppleScript and a report are five steps in four processes, none of them
  atomic with the next. Correct means: nothing leaves without approval; one
  dispatch id puts at most one message on the wire, unless Redis was made to
  queue its job twice; a row marked `sent` was sent with the body it shows; late, repeated and superseded reports do no
  harm; an approved row never waits without something in flight for it or a
  known reason why not. An operator's command reads the row first and changes
  it later: it must not release a body its operator has not seen, nor report
  what did not happen.
- *Message to draft.* A cursor file, retried POSTs, pub/sub without memory and
  a brain that may die with an event in hand. Correct means: the cursor never
  passes a message in silence, duplicates do not multiply, one event gives one
  draft, and nothing stays stuck.
- *A call of the SDK.* The key is stamped once, the request repeated, and in
  the bridge it meets the table of answers, the token bucket and the handler,
  with awaits between them. Correct means: one call has at most one effect, its
  result tells which, a replay is the answer of a successful run, a second run
  has a reason, no bucket gives more than its budget, and what is billed is
  recorded.
- *The process tree.* Concurrent watchers, one of which may cancel the others
  at any await; a shutdown in any phase; secrets read at different moments by
  different processes; kills between two statements of a migration. Correct
  means: no child is left behind, children are stopped in reverse, nothing is
  started once stopping has begun, crash loops and only they are cut, a serving
  bridge has its whole schema, health says what is so, and the tree comes up.
- *Tokens.* Two tools, no lock, a cached map that several threads may rebuild
  at the same time, one Keychain call after the other. Correct means: the
  bridge differs from the Keychain for a bounded time, and a token that was
  handed out is found.
- *E-mail and Apple applications.* Other programs change the data while a
  request works on it, a server may refuse one command of many, and a request
  may be cut off after its effect. Correct means: a list leaves out nothing
  that was there all along, but for reasons that are known, and an answer
  allows its caller to conclude what was done.
- *The two sides of the HTTP interface* are kept apart and may drift.

## 2. Modules

| Module | Models |
|---|---|
| `DraftLifecycle` | abstract specification: what the draft store promises |
| `DraftDispatch` | `routes/agent.py`, the outbound half of `routes/imessage.py` and of the relay; refines `DraftLifecycle` |
| `DraftDispatchInvariant` | its inductive invariant, a conjunction of named parts |
| `DraftCLI`, `MCDraftCLI`, `DraftCLI_proofs` | `scripts/brain-drafts.py`, composed with `DraftDispatch`; the proofs of both |
| `Inbound`, `Inbound_proofs` | `chatdb.py`, the inbound half of relay and routes, event bus, WebSocket, brain handler |
| `Idempotency` | `idempotency.py` |
| `RateLimit` | `ratelimit.py`: the Lua script, the fallback, the clock of Redis |
| `BridgeCalls`, `MCBridgeCalls`, `BridgeCalls_proofs` | `brains_shared/client.py` in front of `Idempotency` and `RateLimit`, the vault and LLM handlers behind them; the proofs of all three |
| `Supervisor`, `MCSupervisor`, `Supervisor_proofs` | `supervisor.py` |
| `Migrations` | `migrations/__init__.py` and the SQL files |
| `Deployment`, `MCDeployment`, `Deployment_proofs` | launchd, supervisor, Redis, lifespan of the bridge, brain, secrets, health, composed with `Migrations` |
| `TokenStore`, `MCTokenStore`, `TokenStore_proofs` | `keychain.py`, `auth.py`, the mint and rotate tools |
| `Email`, `MCEmail`, `Email_proofs` | `providers/email`, `routes/email.py` |
| `Apple`, `MCApple`, `Apple_proofs` | `providers/apple`, the routes of calendar, reminders and contacts |
| `ApiContract` | every operation of the generated client against the route that serves it |

Compositions extend their parts and leave their actions as they are:
`BridgeCalls` conjoins each step of `Idempotency` or `RateLimit` with what
caller and handler do in it (the theorem `PartsAreUsedAsSpecified` says that
nothing else happens to the parts), `Deployment` runs the start of `Migrations`
inside the process tree, `DraftCLI` sends the PATCHes of its operators to
`DraftDispatch`. `DraftDispatch` refines `DraftLifecycle` through
`INSTANCE ... WITH` (rows to status and current dispatch, `issued` to grants,
`delivered` to sends). The rest meets at its edges: a crash of the bridge in
`DraftDispatch` or `Inbound` may come in any order the supervisor could
produce, and the brain's `CreateDraft` is `CreateDraft` of `DraftDispatch`.

**DraftDispatch.** One action per stretch of code between two awaits: the
transaction of a PATCH and its RPUSH are two actions (`PatchApprove`,
`EnqueueDispatch`), and so are the publish of an outcome and its correlation
(`PublishOutcome`, `Correlate`). `rows` is the `drafts` table, `queue` the Redis
list, `poll` the BLPOP the relay waits for, `orphans` the BLPOPs whose HTTP
client has gone, `relay` the outbound thread, `posts` the handlers of
`POST /v1/imessage/sent`, several of which exist when the relay retries.
`issued`, `pushes`, `unanswered`, `delivered`, `outcomes` and `lost` are history.
Faults: a crash of bridge, Redis or relay, a transport error the HTTP client
catches, one it does not, a failed correlation, and a broken connection between
bridge and Redis (`link`). The last is about commands that were executed
although their reply never came. `build_redis_client` (`publisher.py:83-118`)
sets no `retry`, so redis-py (7.4.0, `uv.lock:811`) repeats a command on its own,
`RedisTries` times in all: an RPUSH may run twice (`EnqueueUnanswered`), or run
and be answered 502 (`EnqueueRefused`); a BLPOP may pop a job nobody gets
(`ServeUnanswered`); an outcome may be published and its report answered 502
(`PublishFails`).

**DraftCLI.** `cli` is the command in each operator's terminal, `screen` the
body last shown there, `born` the order of the list. A command is a GET, for
`edit` an editor, and one or two PATCHes; a command may be cut off while it
waits.

**Inbound.** `chat` holds the rows by ROWID, `cursor` the state file, `relay`
the batch of `poll_new` and the attempt it is at, `sub` and `wire` the life of
the WebSocket and its subscription, `brain` the handler with its event. The
batch is a set, its lowest row the one in hand (the query orders by ROWID); a
suspended handler carries the number of faults at its start, which tells a
repeated POST of a row from the first. A row may arrive without a text and get
one later. The same process faults, plus an unreadable `chat.db` at the first
start, a state file that cannot be written, a PUBLISH whose reply is lost and
which redis-py repeats with the same event (`PublishUnanswered`, so one event
may be on the wire twice), and a `state.db` that raises. `is_processed` runs in
front of the handler's `try`, so there the event is dropped by the loop of
`main.py` (`LookupFails`); a failing `mark_processed` is tried once more in the
`except`, and swallowed there (`MarkFails`). An event let go that way, or by a
brain that dies with it in hand, is in `unmarked`.

**Idempotency, RateLimit, BridgeCalls.** `request` is the middleware's view of
a request, `store` its table, `ran` the runs of the application. A bucket is a
number of tokens (in fractions of `1/Unit`) and the age of its last refill; the
budget a bucket is held against is refilled second by second (`credit`).
`call` is the transport of the SDK, `stage` the await a handler is at, `note`,
`announced`, `billed` and `rows` its effects. Every row of the telemetry, that of
a success, of a refusal and of a failure, is written by `WriteRow` and may be
lost: `record_call` logs an `sqlite3.Error` and goes on.

**Supervisor.** `main` is the coroutine `run()`, `task` the `_watch`
coroutines; time is a `Tick` that lowers timers and ages crashes, and may
overtake a ready watcher `MaxDelays` times.

**Deployment.** `tree` is the supervisor with the password and token it built
its children with, `redis` and `brain` hold the secrets those processes run
with (0 for one that is down), `client` the password of the bridge's Redis
client. `boot`, `objects` and `recorded` are those of `Migrations`: the
statement a start is at, the schema, the table of applied files.

**TokenStore** follows its code call by call, on both sides. A tool may be
killed, or meet another tool, between two Keychain calls. `lookup` are the
requests of the bridge, each in a thread of its own: one that finds the map old
reads the manifest (`ListActors`), each item (`ReadItem`), installs its map
(`Install`) and then stamps the time (`Stamp`), in any order with the steps of
another refresh, whose newer map it may overwrite and whose stamp it may renew;
a call that raises ends the request and leaves the map. `lag` is the age of what
the map was built from, `since` how long nothing has changed about a token. No
lookup takes longer than `Patience`; the code has no such limit (the Keychain
may ask its user), so it is a parameter, any number, of the bound.

**Email** keeps the mailbox by UID and by place, so that `THREAD` (places),
`UID SEARCH` (UIDs) and `FETCH` (places) are told apart. A list keeps the threads
still to read in order (`ReadThread`); a detail keeps the set of UIDs the search
found (`ReadMessage`), since the answer sorts the messages by date in the end.
Each step may go wrong as in `imap.py`: a failure of LOGIN, SELECT or THREAD is
502, or 500 where the library's error is not caught (`ImapFails`); a THREAD
that is answered NO is an empty list with 200 (`ThreadRefused`); a FETCH that
fails is logged and its message left out, of the two messages of a thread's
summary one or both (the parameter `lost`); and once a connection is gone every
FETCH after that fails in the same way (`BrokenOff`). `reader.lost` remembers
what was not read for such a reason.

**Apple** runs each script Apple event by Apple event against collections that
the owner edits. `sets` is the set of events a change consists of and `effect`
those that took place in each collection: which comes next is the order of the
setters (`Comes`), how far a copy has been changed is a comparison of the two
sets. `refs` are the items a list has named and not read, `out` what it has
read, `shown` what is left of it after parsing.

**ApiContract** takes one call at a time through the stages of the bridge and
back. The first is the table of answered keys: `IdempotencyMiddleware` is
outside the routes (`main.py:211`), so a replay or a 409 is given before route,
token, scope and rate limit are looked at. Then come route, token, scope, rate
limit, values and handler, and the table again, which keeps the answers of 2xx.
A key is fresh or the one the caller has pinned (`idempotency_key`), perhaps
around calls of several operations.

Most modules state a type invariant. The inductive invariants of section 5 hold
it, or as much of it as their proofs need; elsewhere it documents the
variables.

## 3. Runs

| Run | Bounds | Shows |
|---|---|---|
| `draft_dispatch` | 1 draft, 1 PATCH at a time, 2 message ids, an empty and a proper body, 2 attempts, 2 tries of redis-py, any 2 of 7 kinds of fault; 831 k states | one message per job, no approved row without its job, the refinement of `DraftLifecycle`, `ApprovedSettles` |
| `draft_cli` | 2 operators, 1 draft, 3 message ids, 2 PATCHes at once, 2 commands, 1 cut off, 2 attempts, 2 tries, any 1 of 7 kinds of fault; 1.48 M states | what a command queues, what its exit code means, which body leaves, and that sent means sent |
| `inbound` | 2 rows of every kind, 2 attempts, any 2 of 10 kinds of fault; 977 k states | nothing but a late text skipped, bounded duplicates, one draft per event, every message and event settles |
| `bridge_calls` | 2 callers, 2 calls, 2 retries, 2 request slots, 3 runs, 2 keys, 1 upset, 1 fault, TTL 1, burst 1, refill 2/3 a second; 2.0 M states | honest replays, excused second runs, budgets, at most one effect per call, telemetry |
| `supervisor` | 2 children, one gated, threshold 3 in a window of 5, 5 crashes, 1 delay, 1 failed spawn; 725 k states | no orphans, reverse order, no start while stopping, loops and only loops are cut, exits are handled, shutdown completes |
| `deployment` | the real statements of the three SQL files, 3 kills, 3 probed dependencies (2 critical), 2 illnesses, 2 versions of each secret; 656 k states | whole schema, explained bus loss, true health, the tree comes up |
| `tokens` | 2 actors, 2 tokens, 2 tools, 2 lookups at once, 2 kills or restarts, time to live 1, grace 3, patience 1; 643 k states | bounded staleness, shown tokens are listed |
| `email` | 3 messages, 2 accounts (1 configured), 2 recipients, 1 call that sends, 2 workers, limit 1, 2 faults; 1.28 M states | faithful list, whole thread, confirmed copies |
| `apple` | 2 calendars, 1 list, the address book, 2 ids, 2 calls at once, 2 edits by the owner, 1 fault; 720 k states | faithful list, answers that fit the effect |
| `api_contract` | every operation with every choice of optional parameters, one pinned key; 16 k states | a model means success of this operation, forms agree |

Why these bounds. The interesting cases of the draft path need a superseded
dispatch (2 ids), a retry after a first report (2 attempts), a repeated RPUSH (2
tries) and a fault after a fault (2); and two PATCHes past their transaction at
once. The last is in `draft_cli`, with one fault: `draft_dispatch` has two
faults and one PATCH at a time, because liveness allows no symmetry (a job in
flight is superseded all the same, by a PATCH that comes after the first one's
answer). A second draft adds nothing that the ids do not, and the theorems hold
for any number of drafts, handlers and faults, the refinement too. With the CLI,
two commands of two operators meet at one row, and a third id is a message too
many. For inbound, two messages give a batch of two, a batch cut short, a
backlog left before the relay starts and a text that comes behind the cursor;
the brain's restart and the second failure of `mark_processed` need a second
fault. Two calls over three runs give a retry that overlaps its first attempt
and one that follows it; a bucket of one token that refills in two seconds is
empty, part full and full. Five crashes over two children reach a loop after an
earlier recovery. Three kills cut a start short, then the next, and end the
supervisor. A token and the one that replaces it are enough for a grace that
runs out, and two actors for a manifest written from an old reading; the grace
is longer than the refresh so that both expiries are seen apart; two lookups are
enough for an older map to replace a newer one and be given its stamp. Three
messages make a thread that branches and one beside it. Every bound is a
constant, commented where it is declared.

Deadlock is not checked except in `api_contract`: the systems may rest when
nothing is asked of them and the bounds are used up. `MC` modules hold sequences
and symmetry sets the configurations cannot write; symmetry is used in runs
without liveness only.

Two runs fail on purpose, each on a statement of the repository that the code
does not keep:

| Run | Statement | What happens |
|---|---|---|
| `draft_reapprove` | docstring of `routes/agent.py`: a second approve returns the state "without re-publishing" | it mints a new id and queues the message again |
| `email_after_delete` | `docs/api-contract.md`: the detail searches by Message-ID with `UID SEARCH` | the UIDs are fetched as sequence numbers: after a deletion other messages are shown |

More disagreements between text and code, or surprises in the code, are
behaviours of the models, and the passing properties carry them as named
exceptions:

- The outcome of a queued job turns a rejected row into `sent` or
  `send_failed`, although `_ALLOWED_TRANSITIONS` calls rejected terminal
  (`DraftLifecycle` allows it). The diagrams in `routes/agent.py:10` and
  `docs/api-contract.md:597-604` call `sent` terminal as well; a job that Redis
  queued twice is sent twice, and its second report may turn `sent` into
  `send_failed`.
- 502 for an approval, and exit 1 of the CLI, mean only that no reply came: the
  job may be queued and is sent (`unanswered` in `ExitIsTruthful`).
- `RemoteProtocolError` ends the relay's outbound thread for good
  (`relay.pc = "dead"` in `ApprovedSettles`).
- A BLPOP whose client has gone takes the next job (`ServeOrphan`), although
  `routes/imessage.py:18` calls the queue durable across relay restarts.
- A message that is posted twice gives two drafts: `poll_new` expects
  subscribers to tell duplicates by `chat_guid + received_at`, the brain keys on
  `event_id`. `OneDraftPerEvent` and `DuplicatesAreBounded` say what is left.
- A row whose text comes after the relay has passed it is never forwarded
  (kind "late"), and a first start with an unreadable `chat.db` forwards the
  history later (`RelayStartUnreadable`).
- Two overlapping POSTs with one key both run (an excuse in
  `SecondRunHasExcuse`), and the fallback buckets are a second budget: around
  an outage of Redis a caller may spend both. `BudgetHolds` is stated for each
  bucket, and counts what a clock that is moved forward gives.
- The docstring of `routes/llm.py` says that idempotency is not enforced there;
  the middleware keeps every POST with a key.
- The supervisor gives up at the third *crash*, after two restarts; its
  docstring says three restarts. A restarted child waits for none of its
  dependencies. A spawn that fails leaves the earlier children running (phase
  "failed").
- Each migration file is said to run in a single transaction; statements commit
  one by one, and a kill inside `agent_0001_init.sql` makes every later start
  fail (`Blocked` in `TreeComesUp`).
- A Redis password replaced while the tree runs separates bridge and Redis, and
  a brain token replaced for longer than its grace locks the brain out, until
  the supervisor restarts (`BusLossIsExplained`, `Replaced`).
- `docs/api-contract.md:92` promises 502 when IMAP is unreachable, and the
  comment of `_connect` (`imap.py:99-100`) that every error of imaplib becomes
  that. A FETCH that fails, or finds its connection closed, is skipped, and the
  answer is 200 with less, or nothing (`reader.lost`, `Missed` in
  `ListIsFaithful` and `DetailIsThread`).
- `docs/api-contract.md:341` says that the bridge picks up a changed token
  within one minute. The map is stamped after its reads, and may be put over a
  newer one: a change is seen after a minute and up to three times the time a
  lookup takes (`Bound` in `StalenessIsBounded`).
- The module docstring of `imap.py` (lines 13-15) promises a list grouped by
  subject from a server without THREAD; there is no such code, and that server's
  threads are an empty list.
- An event whose `is_processed` or second `mark_processed` fails is never seen
  again, with or without a draft (`unmarked`). The handler's branch for an empty
  body (`imessage_received.py:72-84`) is not reached, since the bridge refuses
  empty bodies with 422.
- A second rotation within the grace window drops the token still in its grace
  (`StoreItem` has room for one). Two tools that add actors at once can lose one
  from the manifest (`dropped` in `ShownIsListed`).
- osascript's output is stripped before it is split: the last record of a list
  is dropped when its last field is empty. An update whose later setter fails
  is answered 404 although the earlier ones were applied.
- The ids of reminders contain slashes and the path takes one segment, so none
  can be updated. The generated client does not know the 201 of
  `vault/write` and the 204 of the outbox (`ModelMeansSuccess`).

Each property has a mutant of the modelled code that violates it under the
run's own configuration (`PROJECT.json`, "mutants"); the mutated operators stand
next to the ones they replace.

## 4. Fairness

- `DraftDispatch`: weak fairness of every handler of the bridge (the event loop
  resumes what can be resumed; asyncio has no priorities), of each step of the
  relay's sequential thread, of Redis serving a blocked client, and of the
  restarts (launchd `KeepAlive`, the supervisor). None for requests of people,
  for faults (so redis-py need not retry), and none that a job in the queue is
  served before an orphan.
- `Inbound`: the same for relay, handlers, stream and brain; a message, or its
  text, need never arrive.
- `Supervisor`: weak fairness of `run()`, of each watcher and of time. Children
  need not obey SIGTERM, listen or exit.
- `Deployment`: launchd starts the supervisor again, the supervisor starts and
  restarts each child and gives up on a gate that cannot open, and a started
  bridge goes on. Nothing is assumed of the operator, of failures, or of what
  has failed.

What is *not* assumed: that a thread that has ended comes back, and that a hung
HTTP request ends (`bridge_client.py:162` disables the timeout of all POSTs; a
request that hangs for ever is outside the model).

## 5. Proofs

The theorems hold for every number of drafts, callers, children, statements,
tokens, attempts and faults. They rest on the named assumptions of the modules
only (`ConstantsAssumption`, `IdempotencyAssumption`, ...: values that are told
apart are different, bounds are numbers, rates are positive), which TLC
evaluates on the instances of the runs. Modules named `..._proofs` extend the
module they are about; in each, one lemma shows that the initial states have the
inductive invariant, one that every step keeps it, action by action, and the
theorems follow.

**DraftDispatch.** `IInv` is needed because no safety property is inductive
alone. That Messages is given at most one message for each job Redis was given
is a count (`CopiesAreCounted`): the copies of a job in the list, in the answer
to the long poll and in the relay's hands before osascript, and the messages
that left, are together at most the RPUSHes that ran; and an id that was never
without a reply has at most one of those (`QueuedFirst`). Of an id that was
queued once, nothing has happened yet while it waits (`WaitingIsUntouched`).
From there a report cannot contradict an earlier one (`ReportsAgree`), rows
carry ids minted for them and states reported for them (`RowsMatchDispatches`),
ids minted for a draft mean it was approved (`GrantsNeedApproval`), and an
approved row's id is underway or lost (`ApprovedIsUnderway`). The refinement
maps every step to a step of `DraftLifecycle` or a stutter.

**Inbound.** `RelayInv`: what the relay has gone past and does not hold was
published, was given up or has no text it could have seen
(`PassedAreHandled`), and the copies of a row, the handlers about to publish it
and the post that is still due are together at most one more than the faults
(`CopiesArePaid`): a step that makes a row due again ends a handler or costs a
fault. Most actions publish nothing and are one lemma (`NothingPublished`).
`BrainInv`: an event that has a draft is marked, was let go unmarked, or is
about to be marked by the brain that has it in hand, and one the brain thinks
about is not marked (`DraftsAreMarked`); so it is the table, not the wire, that
makes a repeated event harmless.

**Idempotency.** An entry, and an answer taken from it, name a run of their key
that succeeded (`StoredHaveSucceeded`, `AnswerHasSucceeded`); the runs of a key
that have not failed are counted against excuses, expiries and the one the key
may always have (`RunsHaveReasons`), with cardinalities of finite sets.

**RateLimit.** The bucket that is refilled lazily, when it is asked, is compared
at every moment with a credit that is refilled second by second: what the bucket
would hold if asked now never exceeds the credit, also across expiry
(`FillTimeFills`: an expired bucket would be full), restarts and a moved clock.

**BridgeCalls.** `CallsInv` joins the two with `CallsAreSound` (a call's
effects, attempts and result agree), `WaitersMatch` (a caller waits for one
running request and has its effect once that passed the handler) and `BooksMatch` (what is billed is recorded,
about to be, or forgiven for a named reason, among them a row the database did
not take). `PartsAreUsedAsSpecified` shows
that the composition implements the two specifications, which gives their
theorems for the composition.

**Deployment.** `MigrationsInv`: what is recorded is whole, and what precedes
the statement a start is at exists. `SecretsInv`: the passwords of Redis, of the
supervisor and of the Keychain are in order of age. `HealthInv`: while nothing
disturbs a request, what was probed is still so.

**Supervisor.** `StopInv`: the phase fixes which step `run()` is at and that no
watcher does anything outside the watch phase; a child is stopped only when
those started after it are gone, so none is left when `run()` returns. `LoopInv`
is about a child's crashes and restarts, which are listed by age: both lists are in
order; fewer crashes than the threshold are kept; every crash inside the window,
except one whose back-off is still under way, has been followed by its restart
(`Followed`); and while the event loop is never late, a restart came at most one
back-off after its crash, and one whose crash is already forgotten leaves the
window before the sleep under way ends (`Paced`). So the restarts inside a
window never outnumber the crashes kept, and when the threshold is reached each
crash but the last has its restart inside the window.

**TokenStore.** `ListedInv`: a token has one owner, and a tool that shows one
has stored and listed it. `MapInv`: what a refresh under way has read is right
except for tokens that changed since its lookup began (`ReadsAreRecent`), and so
the map is right except for what changed since the lookup began that built it
(`MapIsRecent`, `lag`). How large `lag` can be follows from who installed and who
stamped (`MapIsYoung`): the refresh that built the map, another that renewed the
stamp meanwhile, and the lookup that reads it may each take `Patience`, on top of
the time to live. That is the bound of `StalenessIsBounded`, for any number of
lookups at once.

**DraftCLI.** Every step of the composition is a step of `DraftDispatch` or a
stutter (`OperatorsUseDispatch`), so that its theorems hold under any commands.
On top of `IInv`, `CliInv` says what each command has minted: no more than it may
(`Counted`); while it waits, the id in its handler's hand and earlier ones that
are queued (`Waits`); afterwards no handler works for it, and what it minted is
queued, or was queued without a reply if it failed (`Settled`, `Truthful`). With that go `MintedAreIssued`, and for the body on a screen
`ScreensAreCurrent`: it is the row's, unless another operator has edited it
since.

**Email.** `MailboxInv`: every UID in the inbox was given out, to a message that
exists. `SenderInv`: a worker that has handed over a message knows its id, the
message is of the worker's job, and a call has an answer only when it is over;
together with `CopiesAreConfirmed` itself that is inductive. `ReaderInv`: while
places are UIDs, what a detail has read or still has to read are members of the
thread, and each member has been read, is still to be read, is gone, or is among
those lost to a failed FETCH. Places
stay UIDs under everything but a deletion, because new messages come last
(`Grown`).

The list needs three more parts. The parser: inside a parenthesis the tokens of a
`THREAD` answer only append their numbers to the thread that is open, so what a
run of tokens adds composes (`Takes`, `Yields`), and a thread ends where the outer
parenthesis closes. The server's tree: a branch names every place below it, once,
and first the place it starts at (`BranchLists`, by descent over the places: the
set of places whose branch is wrong has no last element), two siblings share no
place below them, and so a group at depth 1 is a class with its root in front
(`GroupLists`); the groups come in the order of their roots (`ResponseParsed`).
The request: no Message-ID and no UID stands for two messages (`OnceInv`), and
each of the newest threads is still to be read, was read once with its number of
messages, or its root is gone or was not read (`ListInv`, `Listing`). A broken
connection ends the reading for all that is left (`ReadingBroken`). All of this is about the
tree the model states for the server (`Parent`, `Branches`, after RFC 5256); a
server that builds another one is outside it.

**Apple.** Two things are followed through every interleaving with the owner and
other requests. What the script has done: behind its place a collection has
nothing of the change, or less than the whole and then a refusal (`Short`,
`Progress`); so a failure anywhere leaves one whole copy at most. And where the
items that were there all along are: ahead of the script, in a collection that
refused, or, for a list, named or read (`Search`, `Listing`). Steps of others
keep both because whatever is no longer in a collection is no longer steady
(`Stays`), which is one lemma for every action (`Others`).

| Module | Theorems |
|---|---|
| `DraftCLI_proofs` | of `DraftDispatch`: `Inductive`, `TypeCorrect`; `AtMostOnce`, `VerdictsAgree`, `SentIsTrue`, `Gate`, `BodyIsDispatched`, `AccountedFor` (invariants); `SentRowsStay`, `SentWasApproved` (action properties); `Implements` (refinement); of `DraftCLI`: `CliInductive`, `OperatorsUseDispatch`, `OnePerCommand`, `ExitsAreTrue`, `ShownIsReleased` |
| `Inbound_proofs` | `InboundInductive`, `NothingIsSkipped`, `CopiesAreBounded`, `EventsAreKept`, `OneDraft` |
| `BridgeCalls_proofs` | of `Idempotency`: `Honest`, `Excused`; of `RateLimit`: `Budget`; of the composition: `CallsInductive`, `PartsAreUsedAsSpecified`, `CallsAreAnsweredHonestly`, `CallsAreExcused`, `CallsKeepBudget`, `OnceOnly`, `Booked` |
| `Deployment_proofs` | `MigrationsTypes`, `SchemaAlone`; `TreeInductive`, `Schema`, `BusLoss`, `HealthTrue` |
| `Supervisor_proofs` | `StopInductive`, `LeavesNoOrphans`, `ReverseOrder`, `StartsNothingWhileStopping`; `RestartsStayRare`, `OnlyLoopsAreCut` |
| `TokenStore_proofs` | `TokenStoreInductive`, `Staleness`, `ShownCanBeFound` |
| `Email_proofs` | `EmailInductive`, `EmailTypes`, `CopiesAreKnown`, `DetailIsTheThread`, `ListIsTheMailbox` |
| `Apple_proofs` | `AppleInductive`, `AnswersFit`, `ListsAreFaithful` |

Only model-checked:

- every liveness property (`ApprovedSettles`, `MessageReachesBus`,
  `EventSettles`, `ShutdownCompletes`, `ExitIsHandled`, `TreeComesUp`): the
  prover has neither fairness nor ENABLED;
- `ModelMeansSuccess` and `FormIsUnderstood` of `ApiContract`: a finite table
  without parameters, which TLC exhausts.

The bounds of the theorems are those of the statements: `StalenessIsBounded`
holds for every `Patience`, but says nothing of a bridge in which a Keychain
call never returns.

## 6. Not modelled

- Launchers, bundle, installer and ops scripts: packaging, run once by an
  operator.
- Logging, request ids, reading the environment, version and uptime: no state a
  property could speak of.
- Relay: a corrupt or unreadable state file (it reads as 0), `attributedBody`,
  a POST that hangs for ever.
- Event bus and stream: wildcard matching, back pressure of a socket, the
  attempt budget of one reconnect, events that are best effort and feed nothing
  (`draft.pending`, `draft.approved`, `task.completed`).
- Brain: its shutdown by signal (it looks like `BrainCrash` to the others). The
  flag is read only after a frame has arrived (`main.py:114-117`), so an idle
  brain stays until the next event and discards it.
- Tokens: scopes and `provider.*` entries; an item that cannot be parsed.
- LLM and vault: model selection, prompts, front matter, path checks.
- E-mail: MIME, search criteria, recipients a server refuses in part (the
  answer is 202 all the same). The fault of a THREAD, of a FETCH and of the
  connection are modelled, not which of imaplib's errors it was.
- Idempotency table seen from `ApiContract`: overlapping requests (in
  `Idempotency`), and the key of one call in another operation with the same
  bytes as body (the bodies of two operations have different fields).
- Generated client: the fields of the models, except where a form is compared.
- Redis evicting keys under memory pressure (to the list it looks like a crash).

## 7. Plan

Done: the modules of section 2 and, but for the finite table of `ApiContract`, a
theorem for every safety property the runs check. Next, by what they would add:

1. `EventStream`: the reconnect budget and a signal while idle, refined by
   `sub` of `Inbound`.
2. The steps below the liveness properties that are safety: that a handler which
   waits stays enabled until it is served (the hypotheses of each
   leads-to argument).
