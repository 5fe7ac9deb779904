# forestfire in TLA+

A model of the parts of forestfire that are hard to test: the persistence layer that all bots share, the
bot's conversation with its signal-cli child, its questions, commands and caches, its payments, its Postgres
pool and the backup of its account, checked with TLC. Every type invariant, safety invariant and action property
that the runs find to hold is also proved with TLAPS, for every value of the constants; what is left to TLC alone
is liveness (section 4).
The modules follow the code in `src/forest/`; the names of variables and actions are the code's where
TLA+ allows it. `PROJECT.json` maps each definition to the lines it models.

Running it, from this directory:

    tlc -workers 2 -config ClaimExclusive.cfg MCNamespaceClaim.tla     # any .cfg with its MC module
    tlapm NamespaceClaim_proofs.tla                                    # or any other *_proofs.tla

## 1. The system

A bot is one Python process with one asyncio event loop and one signal-cli child. Incoming messages
become tasks that run a `do_x` command; commands ask the user questions, pay through a MobileCoin
full-service wallet, and keep state in dicts that are written through to a key-value service. Tasks
interleave at every `await`; nothing is preemptive. What is concurrent for real: the child, the
key-value service, the wallet, the users, and a second bot process started by mistake.

| Component | State | Operations | Interacts with | What is hard | What must be right |
|---|---|---|---|---|---|
| Namespace claim, `pdictng.py` 54-63, 189-261 | claim in the backend; per dict `claim_lost`, `claim_task` | acquire, verify, heartbeat, lose, close | key-value service; all dicts of the process; other processes | read-post-read without compare-and-swap, time, crash, slow and failing requests | one writer per namespace; two rivals converge to one |
| Persistent dicts, `pdictng.py` 139-413 | `dict_`, `rwlock`, `init_task`, stored copy | get, keys/values/items, set, remove, pop, increment, decrement, extend, remove_from | claim; key-value service; every bot | concurrent read-modify-write over awaits, crash, refused and failed writes | atomic, durable operations; memory equals backend; nobody waits for ever |
| Key-value client, `pdictng.py` 80-132 | HTTP session | post, get, raw variants | service | statuses that are not looked at | (seen through the two above) |
| signal-cli session, `core.py` 128-591, 670-743 | `inbox`, `outbox`, `pending_requests`, `proc` | send, request, respond, read, write | tasks, child | responses and exits in any order, hand-over between writers | commands in order, none lost while a child lives, every waiter answered |
| Supervision and shutdown, `core.py` 154-268 | `sigints`, `restart_count`, `proc` | launch, back off, give up, SIGINT | session, backup, pool | a signal at any point of a launch | no child left behind |
| Command dispatch, `core.py` 600-939, `string_dist.py` | commands, admin list | match, help | everything | typo threshold, prefixes | no admin command leaks to others |
| Questions, `core.py` 1216-1638 | `pending_answers`, `requires_first_device` | ask, answer, re-ask, challenge | session, users | two questions or two answers at once | every asker gets its own answer |
| Payments, `core.py` 941-1208, `payments_monitor.py` | wallet log, rate cache, ledger, invoices | pay, confirm, split, monitor | wallet, session, Postgres | failures after a submit, polling | at most one payment; receipts agree with outcomes |
| Keystate backup, `datastore.py` | `keystate`, task, `shutting_down` | restore, periodic backup, stop | key-value service, supervision | last backup, failing backup | the newest keystate survives a restart |
| Conversation memory, `memorybot.py` | `msgs` (lists) | save, react, clear | persistent dicts | read, then set | nothing cleared comes back |
| Synonyms, `synonymbot.py` | `synonyms` (lists) | link, unlink, build | persistent dicts | check, then act | a synonym belongs to one command |
| Dialogs, display names, `extra.py` | caches (dicts) | get, set, show | persistent dicts | two caches written one after the other | the two lookups agree |
| Postgres pool, `pghelp.py` | `pool`, `connecting`, `_autocreating_table` | connect, execute | Postgres | concurrent first use | no connector waits for ever |
| Web handlers, `core.py` 1640-1800 | none | thin calls | session | second `start_process` by `/restart` | |
| Messages, cryptography, `mc_util`, `utils`, `fuse`, `captcha` | none | parsing, encoding | | | not concurrent; out of scope |

The hazards of each are listed, at their lines, in `PROJECT.json`.

## 2. The modules

| Module | Models | Notes |
|---|---|---|
| `NamespaceClaim` | the claim, any number of dicts and processes | abstract time |
| `NamespaceClaim_proofs` | | its theorems |
| `DictOps` | what the operations compute | pure operators |
| `AtomicMap` | what a persistent dict promises | abstract specification |
| `PersistDict` | one dict: lock, memory, backend, callers, crash | refines `AtomicMap` |
| `PersistDict_proofs` | | its theorems |
| `SignalRpc` | session and supervision | |
| `SignalRpc_proofs` | | its theorems |
| `Questions`, `Questions_proofs` | `QuestionBot`: every `ask_*`, `do_challenge`, `do_setup`, `handle_message` | and its theorems |
| `StringDist`, `StringDist_proofs` | `string_dist.py` | pure operators; theorems about all words |
| `CommandMatch` | `match_command`, `default`, `do_help` | an echo as the peer |
| `DictLock` | the event loop and `rwlock` as the users of a dict see them | extended by the next two |
| `MemoryHistory` | `MemoryBot` | lists with identities |
| `Synonyms`, `Synonyms_proofs` | `SynonymBot` | and its theorems |
| `DisplayNames` | `get_displayname` and its two caches | |
| `BotCommands` | `Questions`, `CommandMatch`, `MemoryHistory`, `Synonyms`, `DisplayNames` together | composition |
| `BotCommands_proofs` | | its theorems |
| `Payments` | `send_payment`, `handle_payment`, `split_txos_slow` | the wallet is external |
| `PgPool` | `OneTruePool`, `PGInterface.execute` | asyncpg is external |
| `KeystateBackup` | `SignalDatastore` | kills, moves between hosts |
| `BotBackends` | `Payments`, `PgPool`, `KeystateBackup` together | composition |
| `BotBackends_proofs` | | its theorems |
| `MCNamespaceClaim`, `MCPersistDict`, `MCSignalRpc`, `MCBotCommands`, `MCBotBackends` | | instances for TLC |

`BotCommands` and `BotBackends` compose components that share the event loop and no state: a step of the whole is
a step of one part, with the variables of the others unchanged, and the parts' steps interleave freely. The
theorems are about these compositions (`BotSpec`, `BackendsSpec`). For TLC, `MCBotCommands` and `MCBotBackends` add a
variable `focus` that chooses one part at the start; the others stay at rest. What is explored is the
union of the parts' state spaces, not their product, which would show nothing more.

Definitions whose comment starts with "bug:" are variants of the definition that follows them, one per
property: a plausible mistake in the code that the property must catch. No specification uses them.

### NamespaceClaim

A dict's `pc` is the place of its `finish_init` or heartbeat task. A round trip is two steps, since the
backend acts before the caller resumes: `AcquireRead`, then `AcquireRefuse` or `AcquireClaim`, and so on
along `_acquire_namespace_claim` and `_check_claim`. A process is its `WRITER_ID`, which is new at each
start, so a restart is another writer and `Crash` is final. `close` and `Crash` cut requests off; a post
among them may still arrive (`CutOff`).

Time is relative, which keeps the state space finite: a claim carries its age, saturated at `TTL` (all
that `_claim_is_foreign_and_fresh` can tell), a post in flight the age of its timestamp, a dict the time
left to its sleep or round trip. `Tick` does not pass a deadline, so `MaxDelay` bounds a round trip and a
heartbeat is not late; "late" among `Faults` lifts both. Clocks of different machines are taken to agree.

Each dict of a process acquires and renews on its own, as in the code: a bot with five dicts has five
heartbeats that overwrite one claim, with timestamps that may be older than the one they replace. `_set` refuses
only when `claim_lost` is set, which a heartbeat does; a dict whose heartbeat has raised ("dead") or was cancelled by
`close` ("closed") therefore goes on accepting writes (`Writable`).

### DictOps, AtomicMap, PersistDict

A value is a tagged int or list, so that the `isinstance` tests can fail. Insertion order is abstracted,
so `keys`, `values`, `items` and `get_key_by_value` are one operation that returns the map. `set` with
None and `remove` are one; the empty string as a key, which `_set` can add and never remove, is not in
`Keys`. `Invoke`, `Resume` and `TakesLock` are the two awaits at the top of each operation: asyncio's lock
serves its waiters in order, which `waiters` is. `Write` changes the memory, then serialises the whole
dict, `Land` is the arrival of the post, `Finish` the release of the lock. `Refuse` is every reason to
raise before the post; `Extended` is the change that `extend` has made by then. `Crash` keeps the store
and starts over with an empty memory; a post of the dead process that arrives only after its successor
has restored is left out, because the successor waits for the claim to go stale first. Cancelling a task
in the middle of an operation is not modelled.

`AtomicMap` is the promise: one durable map, every call atomic between its start and its return, or
failed without effect. A write counts as done when the backend has it, so `PersistDict` implements it
under `map <- store`.

### SignalRpc

A request is at once a task, its command and its id. `Put` is `wait_for_response` and `send_message` up to
the `await`: future registered, command in the outbox, no suspension between. `Take` and `WriteCommand`
are the writer (rate limit and backoff may hold it between the two), `Answer` and `Arrive` signal-cli,
`ReadLine` the reader, `Handle` `handle_messages`. Lines of a child that has exited are still read, beside
those of its successor. The reader may lose a response in two ways while the child lives: it drops the line (`DropLine`:
no JSON, a KeyError, a result that is neither object nor list), or it ends (`ReaderEnds`: an empty line, a line over
the stream's limit, any other exception), and what the child writes then is never read. `missed` collects the commands
with a future whose response was lost so, or which an exited child or a dead pipe took to its grave. `Spawn`, `Spawned`, `Reap` and `BackoffOver` are `start_process`; `Spawned` cancels
the previous writer together with the command it holds. `Sigint`, `Kill` and `Close` are shutdown.

Left out: the retry of rate-limited sends, which is dead code (`handle_messages` tests `message.error`,
which `StdioMessage` never sets, although the docstring at `core.py:671` describes the retry); `/restart`, which starts a second
`start_process` (and then fails, `Bot` having no `handle_task`); the restore of the keystate before the loop.
What becomes of a child that is being launched at the moment of the kill is asyncio's business; the model
records it in `escaped`.

### Questions

A call of an `ask_*` method registers a future in `pending_answers` under (user, chat), the task of an
incoming message (`HandleMessage`) sets it, the caller, woken later (`Resume`), takes the registration out and
returns, raises or asks again. Registering and awaiting is one step, since nothing suspends in between; the
pop happens only when the caller runs, so a second message or another question may come first. `call` holds
the arguments and the place in the method (`at`: the question itself, its confirmation, a field of
`do_setup`); `first` is the `require_first_device` of the current question, `strict` the one the caller
passed, and they differ where the code forgets to pass it on. Answers are classes of texts (affirmative,
terminal, numeric, a number `int()` rejects, a label, an address). `tangled` remembers users whom two calls
asked at once, `stranded` those whom a choice marked before it raised over two equal options.

`IsFirstDevice` is FALSE: `is_first_device` reads `remote_address.device_id`, where auxin put the device, and no
envelope of signal-cli has that field (`StdioMessage` keeps it as `device_id`). The code asks for an answer from the
first device and never recognises one, so a strict question is never answered, and neither is any later question to a
user who is marked in `requires_first_device` (`firstOnly`). No property promises that a strict answer comes from the first
device; there is no such answer.

### StringDist, CommandMatch

`StringDist` is the one module of pure algorithms. A word is a sequence of letters. `Levenshtein` is the matrix of
`string_dist.levenshtein`, as a recursive function by rows, `Match` the sort by normalised distance (fractions
are compared by their cross products). In `CommandMatch`, `match_command` is the rest, with the "unique
expansion" as it is written (it tests the wrong variable), and `Echo` the conversation with a peer that repeats
what it is told.

### DictLock, MemoryHistory, Synonyms, DisplayNames

`DictLock` is asyncio as the users of one persistent dict see it: one task runs until it waits, and an await of
a free lock does not wait. That matters: a `get` followed by a `set` is atomic unless somebody else wants the
lock. `MemoryHistory` gives lists an identity, because `get` returns the list the dict holds, so that what is
appended meanwhile is in the list that `set` writes back. `Synonyms` separates the checks, made on
`dict_` when the message arrives, from the write made under the lock; the value of a command remembers whether
it is a list or the tuple of the decorator, which `extend` and `remove_from` cannot change. After a start `dict_` is
empty until `init_task` has restored it (`Dict`, `Restore`): the checks do not wait for that, the writes do (`Await`, `Wake`).
`blind` names the commands and words of links that were checked blindly, while another link of theirs was under way or
before the restore. A task stands for one operation. `DisplayNames` has two dicts and so two posts; the process may
crash between any two steps, and each set may raise, before or after its post has arrived (`Raise`; `halved` remembers
users whose call raised after the first set). A name is the given name and the second group of the uuid, four hex
digits (`Digits`), so that two users may have one.

### Payments

`call` is where each `send_payment` is, `tx` what the wallet made of its transaction, `hidden` counts the
transactions whose caller was not told of them: an answer that was lost or an error, a receipt that
could not be made, a request for the log that raised. Nothing under `src/` calls `send_payment`; it is there for bots
built on the framework, and a caller that sends again after None, the answer it gets for an `InternalError`, is an
assumption about them. Any error of `submit_transaction` may come after the wallet has taken the transaction. `note` is the
notification: sent, answered, or refused with an error, which the code does not look at. `Settle` is the
ledger; a log entry exists only if the account was named. `Pay`, `CheckReceipt` and `Price` are `handle_payment` with its polling
and the hourly rate; the `Split` actions are `split_txos_slow`. Amounts, fees and gift codes are left out.

### PgPool

A query is a task; `at` is the await it has come to, from which the connections it holds follow (`Held`):
`create_table` is a query of its own inside `execute`, so the creator of a table holds one connection while it
waits for the second (`Second`). `connecting` is the future of `OneTruePool`; `CreatePool` may raise. Left out: the
generation of query text, canned answers, the wrappers with a loop of their own.

### KeystateBackup

The account file, the backend and `self.keystate` are versions. `Start`, `Fetch`, `Ready` are `async_startup`,
`Working` the periodic task, await by await. `Kill` may come between any two steps, with a post under way
stored or not; `Move` is a deployment to a host with an older file or none.

## 3. The runs

| Run | Checks | Instance | Result |
|---|---|---|---|
| `ClaimExclusive` | `TypeOK`, `Exclusive` | two processes (two dicts, one dict), TTL 11, round trips of 1, staggered starts | holds |
| `ClaimRivals` | `KeeperSurvives`, `RivalsConverge` | two processes of one dict, simultaneous starts, all failures | holds |
| `ClaimSimultaneous` | `Exclusive` | simultaneous starts | **violated** |
| `DictAtomic` | `TypeOK`, `StoreIsMem`, `Implements`, `OneKeyPerWrite` | two tasks, nine operations on two keys, crash at any point, no other failure | holds |
| `DictFaults` | `CallsReturn` | all failures, poisoned lists | holds |
| `DictPoison` | `StoreIsMem` | `extend` with a value json.dumps rejects | **violated** |
| `DictUnreadable` | `OneKeyPerWrite` | a restore that is answered with an error status | **violated** |
| `RpcSession` | `TypeOK`, `InOrder`, `PendingIsOnItsWay`, `KilledAtExit`, `AnsweredUnlessMissed` | three requests of different kinds, three launches, three SIGINTs | holds |
| `RpcStolen` | `NoStolenCommands` | two requests | **violated** |
| `BotCommands` | `Reachable`, `Registered`, `MarkHasQuestion`, `FirstAnswerWins`, `OrphansStay`, `CanBeStopped` | two callers, all kinds of questions, one user, a chat and a group, six texts | holds |
| | `IsDistance`, `GuessIsSafe`, `EchoEnds` | first words of up to three letters, five commands, admin or not, group or not, magic or not | holds |
| | `HistoryIsExact`, `AllStored` | four tasks on one history, three list objects | holds |
| | `OneCommandPerWord`, `LinksAreKept` | three operations on three commands (one hidden) and two words, restarts, before and after the restore | holds |
| | `NamesLeadBack`, `DanglingStays` | two askers, two users of the same digits, two given names, one crash, exceptions | holds |
| `BotBackends` | `TakenOnce`, `VerdictIsTrue`, `PaymentsEnd` | one caller with three tries, two polls; two receipts; two txos | holds |
| | `PoolMoves`, `QueriesEnd` | three queries on two tables, three connections | holds |
| | `AckedIsKept`, `BackedUp` | four versions of the account file | holds |
| `PaymentNotice` | `NoticeAfterConfirmation` | the same | **violated** |

(`BotCommands` and `BotBackends` check the types of all their components, too, as `Types`.)

What they show:

* **Exclusive.** With prompt requests and processes that do not acquire at the same moment, the claim is
  a lock: never do dicts of two processes both hold the namespace, whatever crashes or closes and although
  a process's dicts overwrite each other's timestamps. It takes `Heartbeat + 7 * MaxDelay < TTL`; TLC shows
  the bound is tight (TTL 11 holds, TTL 10 does not, with round trips of 1). With the default TTL of 60 s it
  means round trips under 5.7 s; with `NAMESPACE_CLAIM_TTL` of 1 or 2 nothing is left.
* **KeeperSurvives, RivalsConverge.** Processes that start together can both survive
  (`ClaimSimultaneous`, against the docstring at `pdictng.py:216`), but the one whose post is the standing
  claim never gives up, so they do not talk each other out of the namespace, whatever fails. Of two that both accept writes
  one stops within finitely many heartbeats, once requests no longer fail (`Failure` names the steps that are
  failures) and provided both heartbeats still run. That proviso is where the code falls short: an exception
  ends a heartbeat task unobserved (`pdictng.py:256`), `close` cancels it, neither sets `claim_lost`, and a dict without
  heartbeat never learns that it lost: it and its rival both write for ever.
* **The dict** is atomic and durable while the backend answers. Three things break that: `extend` changes
  the list before `_set` can refuse (`DictPoison`: every later write of the dict fails, too); a restore that
  reads an error status as an empty dict lets the next write wipe the rest (`DictUnreadable`); and a post
  that is rejected or raises leaves the memory ahead of the backend, so that reads return what a restart
  forgets (the code promises nothing here but the docstring at `pdictng.py:270`). Whatever fails, the lock
  is released and every call returns (`CallsReturn`).
* **Questions.** Between two calls that do not ask the same user at once, each gets its own answer and can be
  stopped. A user asked by two calls is another matter: the first asker waits for ever (`OrphansStay`). Whatever
  overlaps, no registration outlives its call, the first answer counts, and no mark in `requires_first_device`
  outlives its question, unless a choice raised over equal options. A marked user is barred for good, because the first device
  is never recognised (see `findings`): `CanBeStopped` excepts marked users. It also leaves out what does not stop: a
  challenge, a setup, a refused confirmation, an address.
* **Commands.** The matrix is the edit distance. A guess never reveals a hidden command and is never further off
  than the threshold (the expansion of prefixes finds nothing, because it tests the wrong variable). A
  conversation with an echo ends, unless `ENABLE_MAGIC` is set and an answer begins like a command. (`group` is a group
  message that is not a /command; the code neither guesses nor answers by default there, so a peer that echoes is silenced at the
  first such answer.)
* **Histories, synonyms, names.** A reaction writes back a list it read earlier, and nothing is lost, since it is
  the same list; only a clear in between is undone. A linked word stands for one visible command, and a link
  stays, but for links that were checked blindly: beside another that was under way, or before the dict was restored, when
  `do_link` takes every word for free and writes a new list over the stored one. A display name leads to its user with three
  exceptions: a crash or an exception between the two sets, after which it leads to nobody for good
  (`DanglingStays`), and another user of the same given name and digits who has taken it over.
* **Payments.** A second transaction needs an answer that hid the first. A status `tx_status_succeeded` is true, and
  `tx_status_failed` is when the log said so; put on an error of the submission it promises nothing, since the
  wallet may have taken the transaction. The recipient is notified before the transaction is confirmed
  (`PaymentNotice`, against the docstring at `core.py:1126` and the changelog of 1.0.5), and a succeeded status does not
  mean that the notification was delivered: signal-cli may have refused it.
* **Pool.** With more connections than tables some holder of a connection always waits for nobody
  (`PoolMoves`), because a table has one creator, and so every query ends. `QueriesEnd` excepts a pool whose creation
  raised, on which every later query waits for ever (see `findings`); a query that raises counts as ended.
* **Backup.** An acknowledged keystate survives kills and moves, short of a startup whose read was answered with
  an error. A change is posted while the bot and its task run: `BackedUp` excepts a task that has died of an exception,
  after which nothing is ever posted, and a bot that stops, whose last change is not posted, whatever the comment in
  `periodic_backup` says. A file newer than the backup is overwritten by the next startup; `AckedIsKept` is about what
  was acknowledged.
* **The session.** Commands reach the children in the order of their puts and none twice; a future that is
  unset has its command somewhere on the way, unless a child took it to its grave or the reader lost the response. That
  exception is real: callers of `wait_for_response` have no timeout and wait for ever for such a response, and
  the writer of a dead child goes on taking commands (`RpcStolen`, against the comment at `core.py:192`).
  After giving up on signal-cli nothing answers at all. `KilledAtExit` covers every point of a launch except
  the call of `create_subprocess_exec` itself.

**Bounds.** Claim: three dicts in two processes are the smallest instance with a second heartbeat in one
process and a rival; `ClaimRivals` has one dict in each process, which is what two rivals are, so that all failures and
liveness fit in one run; a third process adds nothing that a restart, which is a new writer, does not (the
proofs are for any number). Dict: `MaxCalls` bounds operations over a behaviour, enough for each caller to
return, be overtaken and start again, with `Crash` unbounded in between; two keys, since every property
relates one key to the rest of the dict. Session: `MaxBackoff` 2 gives up at the second quick exit where the
code's 15 s (30 half seconds) give up at the fifth, by the same formula; `MaxLongRuns` 1 lets the count start
again once. Deadlock checking is off in the session's runs only: a bot exits for good, and one that gave up on signal-cli
with nothing under way does nothing more.

Questions: two callers are the least that can overlap, and one user with two chats separates the two keys (the
mark is kept by user, the future by user and chat). History: four tasks are two messages, a reaction and a clear
in any order. Synonyms: three operations race in pairs with a third in between; the theorems are for any
number, which matters here: losing a link to one that was cleared meanwhile takes five operations. Names: two
users of the same digits can share a name, and have different ones as long as their given names differ. Payments: one
caller stands for all, because calls share nothing; three tries allow two hidden transactions. Pool: one
connection more than there are tables is the bound of the argument (`PgAssumption`). Backup: four versions allow an acknowledged one, a newer
local one and one after a move. Deadlock checking is off in these two runs, since every task ends.

**Fairness.** The event loop runs every task that is ready: weak fairness of the steps of a dict or task
once it waits for nothing. The backend, and signal-cli while it runs, answer: asked for only where a
liveness property needs it. Time passes (`Tick`). Never assumed: that anybody starts, calls, writes,
crashes, closes or presses ^C. asyncio's lock is first come, first served, which `waiters` and `DictLock` model.
Strong fairness is assumed in two places only: of the pool, which serves those that wait for a connection in turn (`Acquire`,
`Second`), although others may take the free one first; and, for `CanBeStopped`, of a user who is asked again and again and keeps
answering: such a user says "stop" now and then. `PaymentsEnd` assumes nothing of the ledger for sent payments, whose polling is
bounded, but that the receipts of incoming ones settle, which are polled without bound.

## 4. The proofs

All theorems are about the specification of a module, or of a composition, for every value of its constants that its
named `ASSUME` allows. TLC evaluates those assumptions in the runs. Each follows the same argument: an
inductive invariant, found with TLC's help, one lemma per action that keeps it, and a last temporal step.

| Module | Theorem | States |
|---|---|---|
| `NamespaceClaim_proofs` | `TypeCorrect`, `KeeperAlwaysSurvives` | `[]TypeOK`, `[]KeeperSurvives`, whatever fails |
| | `ExclusiveHolds` | `[]Exclusive`, if `Orderly` |
| `PersistDict_proofs` | `TypeCorrect` | `[]TypeOK`, whatever fails |
| | `LockMovesHolds`, `PostsAreWholeHolds` | the lock is exclusive and goes on, a post is of the current memory; whatever fails |
| | `StoreIsMemHolds`, `OneKeyPerWriteHolds`, `ImplementsHolds` | `[]StoreIsMem`, `OneKeyPerWrite`, `Implements`, if `Reliable` |
| `SignalRpc_proofs` | `TypeCorrect`, `InOrderHolds`, `PendingIsOnItsWayHolds`, `KilledAtExitHolds` | the safety of the session |
| `Questions_proofs` | `TypeCorrect`, `ReachableHolds`, `RegisteredHolds`, `MarkHasQuestionHolds`, `FirstAnswerWinsHolds`, `OrphansStayHolds` | the safety of questions |
| `StringDist_proofs` | `ShortestChain`, `MatchIsClosest` | what `levenshtein` and `match` compute, for all words |
| `Synonyms_proofs` | `TypeCorrect`, `OneCommandPerWordHolds`, `LinksAreKeptHolds` | used by the next |
| `BotCommands_proofs` | `BotTypeCorrect`, `IsDistanceHolds`, `GuessIsSafeHolds`, `EchoEndsHolds`, `HistoryIsExactHolds`, `AllStoredHolds`, `OneCommandPerWordHolds`, `LinksAreKeptHolds`, `NamesLeadBackHolds`, `DanglingStaysHolds` | the properties of that name, of `BotSpec` |
| `BotBackends_proofs` | `TypeCorrect`, `TakenOnceHolds`, `VerdictIsTrueHolds`, `PoolMovesHolds`, `AckedIsKeptHolds` | the properties of that name, of `BackendsSpec` |
| | `CallsShortenHolds`, `OneCreatorHolds` | what `PaymentsEnd` and `QueriesEnd` rest on |

**NamespaceClaim**, for every set of dicts and processes, every TTL and delay:

* `KeeperInv` follows the dict whose post is the standing claim: the claim names its process, it is past its
  post, and whatever it has read since then names its process too, or could not be read.
* `ExclusiveHolds` assumes `Orderly` (staggered starts, no failures, `Heartbeat + 7 * MaxDelay < TTL`). `Exclusive`
  is not inductive: a state in which a holder's claim is already stale, or in which an acquirer has decided on an
  old read, satisfies it and leads out of it. `IInv` adds `TimerInv` and `StampInv` (a timestamp is at most one round
  trip old when its post arrives); `OneAcquirer` and `OneEntered` (no two processes are past their decision to
  post); `ClaimInv` (whoever has landed a post owns the claim, and it will not go stale before the next post
  lands: `Slack` gives the age it can have at the end of each phase, up to a heartbeat and six round trips,
  because another dict of the same process may have replaced the claim by an older timestamp); and `SeenInv`
  (what an acquirer has read of a holder is still fresh when it decides, one round trip later: hence seven).

**PersistDict**, for every set of keys, list elements, operations and callers, any number of crashes, restarts
and refused claims:

* `TypeCorrect` needs no assumption about failures. `TypeOK` alone is not inductive, since a caller at the lock
  must have an operation for its write to be typed; `TypeInv` adds that whoever is active has one, and that
  whoever waits for the lock is in its queue. `Without` (the comprehension of `remove_from`) is a recursive
  function, and that it returns a list of elements is an induction on the length of the list.
* `LockMovesHolds` and `PostsAreWholeHolds` need none either. `QueueExact` says that the queue holds those that
  wait for the lock, each once, so that its head is never a caller that has gone (nobody else would get the lock
  then); `BodyInv` that what is being posted is the memory. These are what remains of atomicity when the backend
  fails: an operation may raise with its change in memory only, but the next post that succeeds carries it.
* The other three assume `Reliable`: no request fails or is answered with an error status (the claim may be
  refused, and lost where `extend`, which changes the list before it is refused, is not asked for), the constructor
  got no keyword arguments, and `extend` is asked only for elements `json.dumps` accepts (`set` may be asked for any value).
  `DictAtomic` is an instance of it; `DictPoison` and `DictUnreadable` show what happens without. `StoreIsMem` is not inductive,
  because it says nothing while somebody holds the lock. `DInv` adds `LockInv` (at most one caller is under the
  lock), `SyncInv` with `PostingInv` (while a caller is posting, the memory is the backend's map with that
  caller's operation applied, the body is the memory, and the reply was computed from the backend's map; once the
  post has arrived the two are equal), `CallInv` (nobody is at the lock before the restore is over) and
  `DumpsAll` of memory and backend (or `_set` could raise after it has changed the memory: this is where
  `Reliable` is needed of `extend`).
* The refinement has one lemma per action: `Land` is `Apply`, `Read` is `Observe`, `Finish` is `Return`, `Refuse` and a
  failed `Resume` are `Fail`; `Write`, the restore and a successful `Resume` change nothing `AtomicMap` sees.

**SignalRpc**, for any requests, exits, launches and backoff: `InOrder` speaks of what was received only; `OrderInv`
extends the order to the command the writer holds and to the outbox. `PendingIsOnItsWay` is inductive, whatever the readers lose. `KillInv` follows
a shutdown from the kill on: no child is up or being launched, or a launch was under way at the kill.

**Questions**, for any callers, users, chats and texts, any overlap. Every step of a caller registers a question or
leaves one; a lemma for each of the two says that it keeps `IInv`, and the many branches of the `ask_*` methods
only have to be shown to be one of the two. `IInv` adds `Alone` (callers under way with the same user make it
tangled) and `Confirming` (only choices and addresses are confirmed). `MarkHasQuestion` is kept under any overlap because a
marked user's answers are all refused: nobody's strict question can end under its mark.

**StringDist**, for all words over any alphabet. The rows of the matrix are shown to be the textbook recursion, by
induction on prefixes; then neighbours differ by at most 1, an edit of one letter changes the distance to any
word by at most 1, and of two different words one can be edited towards the other. Induction is by sets: the lengths
(or words) for which the statement holds contain the first and with each the next, hence all of them
(`NatInduct`, `WordInduct`, which are proved from the library's well-foundedness of `<`).

**BotCommands**, for any words and commands, callers, users and chats, history and synonym tasks, names. Its
invariant, `BotInv`, is the conjunction of those of the parts, and `Parts` says that a step of the whole is a step
or a stutter of each.

* `IsDistanceHolds` is `ShortestChain` for the letters of this bot. `GuessIsSafeHolds` rests on `MatchIsClosest` and on
  there being two commands that everybody may call (`CommandAssumption`), without which the "unique expansion" of
  `match_command` would be taken.
* `EchoEndsHolds` has a hypothesis, because it depends on what the commands answer, which is a parameter: `Settles`, that
  no chain of answers goes round in a circle (a rank falls from a command to the one its answer begins with)
  and that neither the default answer nor that of help begins with a command. `Left` is then a variant: each
  answer leaves fewer. The bound is tight: the run reaches it, with the chain ping, pong.
* `HistoryIsExact` is not inductive: what a reaction writes back must be the list the dict still holds
  (`SharedList`). `AllStored` speaks of the end only; `Stored` says that before it, what the backend lacks is
  about to be posted, and `Pending` that whoever is to post has the lock, runs, or is in its queue.
* `NamesInv` adds `OwnName` (a user's name ends in the digits of the uuid, so that only users of the same digits can take it
  over) and `Leads` (a name that is shown leads to its user, or is about to be put in the other cache, or was taken over,
  or its call raised between the two sets).
* The synonyms' `IInv` says that what `do_link` checked is still so when it writes (`Checked`), because whoever
  might have changed it was under way at once (`Racing`), and a check before the restore is blind. A first link also loses an
  `extend` that was waiting when the list was cleared, so `blind` counts that pair: this takes five tasks, and the proof
  found it.

**BotBackends**, for any calls, receipts, txos, bounds, tables, queries, pool size (`PgAssumption`) and versions.

* Payments: `Accounted` (transactions landed against those hidden, at each stage), `Consistent` (what the status, the
  notification and the ledger say at each stage) and `Bounded` (tries and polls). `CallsShorten` is the half of `PaymentsEnd` that
  needs no fairness: `CallLeft` is a variant, so that a caller has finitely many steps.
* Pool: the connections in use are counted as two sets, the holders of one and of two, so that a step adds at most
  one task to one of them; `OneConnect` ties the future to its maker, `Marked` ties `_autocreating_table` to the
  creator. From `OneCreator` follows `PoolMoves`: the table of a task that waits for a second connection is its own, there
  are more connections than tables, hence while none is free some holder waits for nobody. `QueriesEnd` depends on it.
* Backup: `AckedIsKept` says nothing of a post under way; `Fresh` does (what the task is about to post is as new as what
  was acknowledged), with `Known` (versions that were never written are nowhere) and `Idle` (no task without a bot).

**Only model-checked:** liveness (`RivalsConverge`, `CallsReturn`, `AnsweredUnlessMissed`, `CanBeStopped`, `PaymentsEnd`,
`QueriesEnd`, `BackedUp`), since the prover has no rule for fairness and `ENABLED`; and the five violations, which
are counterexamples.

## 5. The plan

Done: all modules above. What is left, in order of use:

1. `/restart`: a second `start_process` next to the first, in `SignalRpc`.
2. `create_invoice` (prices perturbed until one is unique) and `ensure_address`, on the wallet of `Payments`.

## 6. Not modelled, and why

Message parsing, cryptography, the MobileCoin encodings, configuration: sequential conversions without
state. `fuse.py` and the generated protobufs are vendored or generated; `captcha` draws images. Web handlers
call what is modelled, except `/restart` (see the plan). `do_eval`, mentions, gift codes, the admin commands of `PayBot`
and the text of queries change no state the properties are about. Of `DialogBot` only plain sets of a persistent
dict remain, which `PersistDict` covers. The key-value service, signal-cli, the wallet, the exchange,
asyncpg and the map service are external: modelled by how the code uses them.
