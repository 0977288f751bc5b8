# Verification of the Lumière backend

TLA+ specifications of the parts of `lumiere-backend` whose correctness depends
on order: who may move tokens when, what is retried, what is recorded, and what
is left behind when something fails half-way. TLC checks small instances of
them, TLAPS proves the theorems about them for every value of the constants.

    tlc -workers 2 -config MCEscrow.cfg MCEscrow.tla           # one run
    tlapm EscrowProofs.tla                                      # one proof module

`PROJECT.json` is the machine-readable index: components, runs, a mutant for
every checked property, the source lines behind every definition, hazards,
findings, theorems.

---

## 1. Inventory of the system

| Component | State | Operations | Hard behaviour | What makes it correct |
|---|---|---|---|---|
| **On-chain escrow** (`smart_contracts/programs/escrow`, Rust/Anchor) | one account per wallet: two delegated authorities with flag and activation time, pause flag and time, four cumulative `u64` counters, nonce, caps, lifetime; its token account | 13 instructions of owner, platform and trading authority | any sequence of legal instructions by three parties; time-locks across revoke/re-delegate and close/re-create; counters at their limit; direct transfers | owner and authorities never spend at once; time-lock and cooldown cannot be shortened; every token accounted for; the owner can always leave |
| **Circuit breaker** (`shared/resilience/circuit_breaker.py`) | state, three counters, time of last failure | `call`/`call_async`, `reset`, `trip` | the lock is released while the function runs: outcomes of calls admitted in one state are reported in another | an open circuit stays closed to callers for its timeout; it never wedges; it closes after recovery |
| **Retry** (`shared/resilience/retry.py`) inside the breaker, in pourtier's and passeur's clients | attempts of one call | attempt, sleep, raise | what the breaker sees is what the retry makes of an exception; retries continue while the circuit is open | an outage opens the circuit; bounded load |
| **Pourtier escrow use cases** (`initialize_escrow`, `deposit_to_escrow`, `withdraw_from_escrow`) | request in flight, database session, rows `escrow_transactions` | lookup in the idempotency store, checks, submission, duplicate check, insert, store, commit | seven awaits between which others run; crash between submission and commit; lost answers; commit after the answer is stored | recorded at most once, only what the chain accepted; the answer is about the request's own transaction |
| **Passeur** (`POST /transaction/submit`) and its **Node bridge** | Redis entry per transaction | check-and-reserve, forward, store result | check and reserve are two steps; a reservation is no result; duplicates of a running post | an answer is about something the chain accepted |
| **Transaction preparation** (pourtier's and passeur's `prepare-*` routes, the bridge's builders) | Redis entry per request key, requests in flight | check the chain, look up, build, store, answer | a stored transaction outlives its blockhash; requests with one key overlap; answers are lost; the owner signs what he is given, later | no two transactions for one request can both go through; the owner can leave through the service |
| **Idempotency** (`shared/resilience/idempotency.py`, the two Redis stores) | key to result, with expiry | get, set, check-and-store; decorator | check, execute, store are three steps | see above |
| **Pourtier subscriptions** | rows `subscriptions` | create, cancel, expire; check status, validate for deployment | two requests find no active subscription; only the user's own request ends one; expiry changes no row | one active subscription, unless two were created at once |
| **Pourtier users and legal documents** | rows `users`, `user_legal_acceptances`, `legal_documents` | create an account with or without documents, accept, check compliance (login, profile, `/legal/compliance`) | READ COMMITTED: every query sees another moment; no constraint but the wallet's unique index; documents change while a request runs | one account per wallet, with all that was in force accepted; compliance answers that are true |
| **Queries of the chain** (pourtier's query service and bridge client, passeur's routes and client, the bridge) | the query in flight | ask, retry, translate an answer | three services, each turning the errors of the next into its own; retries inside retries | an answer is what the chain had; "not initialised" is never a failure in disguise |
| **Publishing events** (`shared/courier_client.py`, pourtier's publisher, the courier's `/publish`) | calls with their attempts, requests and answers on the way | publish, post again, check, broadcast | a request that timed out may still be handled, at any time | what `publish` returns bounds what was broadcast; a caller's events keep their order |
| **Life of a process** (pourtier, passeur) | container, monitoring threads, signal handlers | start, open on use, shut down on a signal or at the end of the lifespan | requests go on during the shutdown; two sequences over one container; threads that have not come up yet | what is left open or refused has its cause |
| Pourtier authentication, profiles | rows, JWT | verify, log in, update | the user cache is invalidated before the commit | – |
| **Courier event bus** | channels to lists of sockets, client records, tasks of broadcasts, heartbeat and shutdown | connect, publish, broadcast, disconnect, heartbeat, shutdown | one event loop, live containers iterated across awaits; limits checked around an await | connections counted and limited; a message reaches every subscriber that stays, once; channels are deleted; shutdown completes |
| **Rate limiting** (courier; shared token bucket) | bucket per sender, and per sender and type | check, read, clear, reset; retry advice | limiters re-created; reads that refill; rounding of the advice | never more than the configured rate, never refused without cause |
| Pourtier's rate limiting middleware | window in Redis | check, add | built before Redis is connected, and then never limits | not modelled |
| **Trading strategies** (`shared/strategy`) | memory of the last bar and of a hundred values per name; a position with its stop; the day's profit and loss | consult the detectors, update the memory; open, update, close; ask `can_trade`, record | two detectors need the memory updated before, two after; NaN and missing values; a stop that moves; a counter reset by the first question of a day | crossings, extremes, runs and divergences are reported when they happen; a stop never loosens; a day's loss stops trading |
| **Test runner** (`laborant`, and the classes of `shared/tests` that its test files run) | what is still to be run, the running process, totals, verdict; fixtures left behind | `test`, `lint`, `format`; a file's setup, tests, teardown | a process may die, hang, or print nothing or something invalid; stopping early; hooks in two kinds with fallbacks; tools that are missing and rewrite what is checked | the exit code tells the truth; fixtures are left behind only for a cause |
| Indicators, timeouts, health, reporting, metrics, migrations | – | – | numerical or I/O only | not modelled |

How they interact: **passeur** prepares unsigned transactions, some of them through
**pourtier**; the browser signs them; **pourtier** receives them,
asks the **chain** (through passeur) what the user's escrow holds, posts the
transaction to **passeur** through breaker and retry, which passes it to its
**Node bridge** through breaker and retry, which sends it to the **chain**, where
the **escrow program** executes it. Pourtier then writes a row. Services publish
events through the **courier**, which is not on this path; its publish and
connect routes ask its **rate limiter**. An account must exist, and its escrow hold
the price of a plan, before a subscription is created. The classes of
`shared/strategy` are called by trading programs that are not in the repository.
The test runner knows the services as directories only, and runs before a commit.

## 2. Plan and state of the project

| # | Modules | What they model | State |
|---|---|---|---|
| 1 | `Escrow`, `Custody` (abstract), `EscrowExit` (liveness), `MCEscrow`, `EscrowProofs` | on-chain program | done: modelled, checked, proved |
| 2 | `CircuitBreaker`, `BreakerRecovery` (liveness), `ServiceProofs` | breaker | done |
| 3 | `ResilientCall` (extends `CircuitBreaker`; proofs in `ServiceProofs`) | retry inside breaker | done |
| 4 | `EscrowSubmission`, `Ledger` (abstract), `MCSubmission`, `SubmissionProofs` | pourtier, passeur and chain, from request to row | done |
| 5 | `CourierHub`, `MCCourierHub`, `CourierProofs` | connections, channels, broadcast, heartbeat and shutdown on one event loop, with liveness | done |
| 6 | `RateLimiter`, `PublishProofs` | courier's registry of token buckets | done |
| 7 | `Accounts`, `PourtierProofs` | one wallet's user, acceptances and subscriptions under overlapping requests | done |
| 8 | `Signals`, `Trades`, `SequentialProofs` | a strategy's memory and detectors; its positions and daily loss limit | done |
| 9 | `Preparation` (composes passeur's store and bridge with `Custody`), `MCPreparation`, `PreparationProofs` | prepare requests, from the question to the signed transaction on the chain, with liveness | done |
| 10 | `Laborant`; proofs in `SequentialProofs` | test runner: the command, the processes it starts, the exit code | done |
| 11 | `Queries`; proofs in `PourtierProofs` | a query of the chain through three services | done |
| 12 | `EventPath`; proofs in `PublishProofs` | an event from its caller to the broadcast | done |
| 13 | `Lifecycle`; proofs in `ServiceProofs` | startup and shutdown of pourtier and passeur | done |
| 14 | `MCApart` checks 6, 7, 8 and 10 to 13 in one run, one at a time; `MCRateLimiter` the finding about types | | done |
| 15 | every safety property of the passing runs as a theorem; liveness stays with TLC | | done |

## 3. Modules and the code

### 3.1 Escrow, Custody, EscrowExit

A Solana transaction is atomic, so one instruction is one action, enabled
exactly when every `require!`, every checked addition and every token transfer of
the instruction succeeds; a failing instruction is a stuttering step. The
account's fields are the variables (`lib.rs`, `state.rs`). The pairs of
instructions that differ only in the role (`delegate_*`, `revoke_*`,
`withdraw_subscription_fee`/`withdraw_for_trade`) are one action with the role as
parameter. The clock (`Tick`), incoming transfers that bypass `deposit_token`
(`Receive`) and the token program's rule that only an empty token account closes
(`TokenAccountCloses`) are external. One owner and one mint: accounts of
different owners share nothing. Events, logs, rent and bumps are left out. The
history variables `received`, `since` and `lastPause` are read only by
properties.

`Custody` is the promise to the owner in a few lines: a vault from which the owner
takes while nobody holds a right, and from which only holders take while somebody
does, each up to its limit, and nobody while it is frozen. `ImplementsCustody`
maps the program to it with *the set of roles whose key is on record* as the
holders, so that the mapping only works because flags and keys agree.

`EscrowExit` adds an owner who decides to leave and from then on takes only steps
that lead out.

### 3.2 CircuitBreaker, BreakerRecovery

`call` and `call_async` hold the lock to be admitted (`Admit`), run the function
without it and take it again to report (`Succeed`, `Fail`) or not to report
(`Ignore`: an exception outside `expected_exceptions`, or `CancelledError`, which
`except Exception` does not catch). `reset` and `trip` are `Reset` and `Trip`.
Time is kept as the age of the last failure, counted up to `timeout`, because
only that is compared: the state space is finite without a bound on the clock. A
rejected call only counts statistics, which nothing reads, and stutters.
`BreakerRecovery` composes it with the retries of 3.3 and adds a service that some day
recovers for good.

### 3.3 ResilientCall

`breaker.call_async(retry.execute_async, ...)`, as `passeur_bridge_client.py` and
`bridge_client.py` write it. Every attempt may raise one of `Errors`; those in
`RetryOn` are retried until `MaxAttempts`, and what leaves the retry (`RetryError`
or the error) is a failure for the breaker if it is in `Expected`. Delays are not
modelled: another caller may act between any two attempts.

Configurations: pourtier's container builds its client with
`expected_exceptions=None`, so every exception counts (`MCBreaker.cfg`; the
client's own default, used only without the container, lists exceptions without
`RetryError` and has the flaw of passeur's). Passeur's bridge client lists
`ClientError`, `TimeoutError` and `BridgeConnectionException`
(`MCPasseurBridge.cfg`), of which only the last is ever raised by an attempt, and
that one is retried.

### 3.4 EscrowSubmission, Ledger

A handler of pourtier is a coroutine: it runs alone between two awaits, and
anything may happen at an await. One action is what happens at one await.

| Action | Code |
|---|---|
| `Arrive` | the route calls the use case |
| `Lookup` | `idempotency_store.get_async`; a hit is the answer; else the checks of user, escrow and balance, which fail or lead to the first post |
| `MakePost`, `AttemptFails` | `_submit_transaction_once` and its retries. An attempt may be given up while passeur still works on it: the post runs on |
| `LookForDuplicate` | `get_by_tx_signature` (not in `initialize_escrow`) |
| `Insert` | `create` with `flush`, under the unique index on `tx_signature`; the withdrawal's `confirm` and `update` are in the same database transaction and included |
| `Remember` | `idempotency_store.set_async`, with the row flushed and not yet committed |
| `Commit` | `Database.session` commits after the handler; a failing commit may be noticed or, where the answer is already out, not (`LoseCommits` notes it in the history `lost`) |
| `Break` | an exception at an await |
| `PourtierRestarts`, `PasseurRestarts` | handlers are gone, uncommitted rows too; stores, rows and chain stay |
| `CheckStore`, `Reserve` | the two steps of passeur's `check_and_store`; the reservation `{}` is falsy and counts as no result |
| `Accept`, `Refuse` | the bridge's `sendRawTransaction`; passeur's client may repeat after losing the answer |
| `StoreResult` | `store_result` and the answer |
| `Forget`, `Expire`, `Land` | expiry of the stores' entries; the chain executes |

A transaction is a model value, its signature is its identity (both are
determined by its content; the 16 characters of base64 passeur uses as key
include the first bytes of the signature). Pourtier's `RedisIdempotencyStore` is
imported by the container but its package is not in the repository; it is
modelled by how the use cases use it and marked external.

`Ledger` is the promise: a transaction is recorded after the chain accepted it, at
most once, and for ever.

### 3.5 CourierHub

The courier runs on one event loop: a step is what one task does between two
awaits. A connection's handler goes from `Connect` (the channel is created before
the socket is accepted) through `Serve` or `Refuse` (limits are checked and the
connection is added after the accept, without an await in between) to `Leave` (the
`finally` of the route, which removes the client and deletes an ephemeral channel
that is empty). Control messages (`subscribe`, `unsubscribe`, `ping`) only answer
and are left out, as are authentication and validation, which come first.

`Publish` and `BroadcastNext` send to one subscriber at a time, by index, over
the list as it is at that moment. `Wake` and `BeatNext` are the heartbeat, `Signal`,
`NoticeNext`, `NoticeTimesOut`, `Quiet` and `CloseDown` the shutdown. Both go
through the dictionary of channels with an await per subscriber. What CPython does
then is modelled: it raises when the size has changed or when it finds an
entry more than there were, and otherwise goes on with an order that
a deleted and re-created key may change (`Onwards`, `Raises`, `Ends`). uvicorn's
signal handlers are replaced by the courier's own, so that the server exits only
if the sequence reaches `should_exit`: an exception or a timeout in the notice
leaves it running, and a second signal is ignored. A heartbeat that died
re-raises in `_on_shutdown`, which ends the shutdown there (`aborted`).

### 3.6 RateLimiter

A call of the limiter does not suspend, so a call is an action: `Admit` and
`Refuse` are `check_rate_limit` with the routes' retry advice, `Look` a read
(`get_remaining`, `get_stats`), which refills and may create a bucket, `Clear` and
`ResetAll` the administration. Tokens are counted in `Window`-ths, which makes
the refill exact; the code's floats round. `FoundBucket` is the bucket as the code
finds it: `get_limiter` keeps a bucket, `set_limiter`, which is used for types with
a limit of their own, replaces it.

### 3.7 Accounts

One wallet and the requests for it. Each request has one database session
(`get_db_session`), a PostgreSQL transaction at READ COMMITTED; a query is a step
that sees what is committed by then and what its own transaction wrote; `Commit`
and `Abort` are the session's commit and rollback.

| Kind | Code | Steps |
|---|---|---|
| `register` | `POST /auth/create-account`, `CreateUserWithLegal` | `FindUser`, `CompareDocs`, `InsertUser`, `InsertAcceptance` for every entry of the list |
| `create` | `POST /users`, `CreateUser` | `FindUser`, `InsertUser` |
| `accept` | `POST /legal/accept`, `AcceptLegalDocuments` | `FindUser`, then `LookForAcceptance` and `InsertAcceptance` for every entry |
| `check` | `LoginUser`, `CheckUserLegalCompliance` (`/legal/compliance`, profile) | `FindUser`, `ReadDocs`, `ReadAcceptances` |
| `subscribe` | `POST /subscriptions`, `CreateSubscription` | `FindUser`, `LookForSubscription`, `QueryEscrow`, `InsertSubscription` |
| `update` | `PATCH /subscriptions/{id}` | `FindUser`, `LoadSubscription`, `FlushUpdate` |

PostgreSQL's two waits are in `Waits`: an insert of a wallet waits for another
that is not committed and then fails or goes on; an update of a row waits for
another one. Cancelled and expired are one status, `ended`: no code tells them
apart. Documents are published and withdrawn from outside (`Publish`). `Fail` is any
error of a query or a commit, and the server's end: a rollback either way. `began`
and `steady` are history, kept only for the kinds whose properties use them.

### 3.8 Signals, Trades

`Signals` is the memory of a strategy and the detectors that read it. `Bar` is one
bar: `Updated` is `_update_previous_values` (a copy of the bar, and an `append` and
a `pop(0)` per name it has), `Detected` asks every detector of
`base_strategy.py` and `indicator_based_strategy.py` about every name, pair, period
and threshold. Whether the strategy updates its memory before or after that is not
settled by the code, which documents one and comments the other, so the variable
`update_first` is either. A value is a number, `NaN` or `Missing`;
`Lt` and `Le` are Python's comparisons, false for `NaN`, and `PyMax` and
`PyMin` are its `max` and `min`, which keep a `NaN` in front and pass over one further on.
`MemoryIsRecent` counts the bars that had a value (`Given`, `Since`), not the values one
after the other: the same promise, without recursion.

`Trades` is `Position` with `can_trade` and `record_trade`: `OpenPosition`, `UpdatePrice` (extremes and
trailing stop), `Close`, `RecordTrade`, `CanTrade` and `Midnight`. The program around
it is external: it asks before it opens, holds one position, closes it once and
records the result before it opens another, possibly on another day. Prices are whole
numbers and stops hundredths of them, so that percentages are exact, where the code
rounds floats. Take-profit, which is a comparison with a number that never
changes, and the size of a position are left out.

`MCApart` explores `Signals`, `Trades`, `Accounts`, `RateLimiter` and `Laborant` in one run, one at a
time: they share no variable and no property relates them, so their product would show
nothing more. A definition of one has no name that another uses.

### 3.9 Preparation

What the owner of an escrow signs. One caller is one prepare request; it waits at a
step and anything may happen meanwhile.

| Action | Code |
|---|---|
| `Ask` | a `prepare-*` route. `Checked` is what pourtier's use cases ask the chain first (initialize, deposit, withdraw); the other five have no route in pourtier and go to passeur |
| `CheckStore`, `Reserve` | `check_and_store` under the request's key (`KeyOf`): the answer found, or a reservation, which reads as no result |
| `Build`, `BuildRefused` | the bridge: `BuildDeposit`, `BuildWithdraw` and `BuildClose` fetch the account and fail without it, `BuildWithdraw` without an amount takes the balance of the moment; amounts are converted to base units (`Converted`) |
| `StoreResult` | `store_result`, whatever the key holds by now, and the answer, which may be lost |
| `BreakOff` | a timeout, a lost connection, a restart of passeur: the reservation stays |
| `Forget` | Redis drops an entry whose time to live is over |
| `TimePasses` | transactions in the store, on the way and in the owner's hand get older |
| `Land` | the owner signs and sends, the network takes it once while its blockhash is recent, the escrow program executes it |
| `Decide`, `AskToLeave`, `SendToLeave` | an owner who leaves: revoke, withdraw everything, close |
| `OthersGoOn`, `OwnerElsewhere` | authorities and senders; the owner without the service |

A repeated request, by the retry of pourtier's client, by passeur's own or by the
owner, is another `Ask`. The chain is `Custody`, which the program implements
(`ImplementsCustody`): an instruction that `Escrow` refuses for more than `Custody`
knows, a cap or a lifetime, is a transaction that is never sent. Transactions are
equal when what they say and their blockhash are: the age stands for the blockhash.
`raced` is history: keys for which two requests overlapped while either's
transaction can still be sent.

### 3.10 Laborant

One command, from the command line to the number that `main()` returns. The runner does one
thing at a time, and while it waits for a test process that process goes on, dies or hangs.

| Action | Code |
|---|---|
| `AutoDetect` | `laborant test` without names: the runner asks the change detector and the mapper by methods that neither has, and the exception ends it |
| `StartComponent`, `EndComponent` | the loop of `run` over components, and what `_run_component_tests` makes of one: no `tests/`, or no file that is asked for, passes |
| `StartFile`, `Collect`, `Timeout` | `execute_test_file`: a process per file, unit before integration before e2e; its output parsed, validated and added, or an error result in its place; with `--fail-fast` the rest is forgotten |
| `ClassSetup`, `RunTest`, `ClassTeardown` | inside the process: `run_tests` and `_execute_*_test`, with `Hook` for which of the two kinds of a hook is called |
| `Dies` | the process ends before it prints its results |
| `Scan`, `Fix`, `Verify` | `lint` and `lint_component`: flake8, the four tools one after the other, flake8 again |
| `Format`, `Fix` | `format`: black and isort only |
| `Finish`, `Interrupt` | exit codes 0 and 1; Ctrl-C, 2 |

The tools are external: a tool leaves any issues behind, in all the files it is given.
Components are taken in any order, and so are the files of a category; the code sorts
both. A result is what the verdict is made of, the two counts. `finished`, `broken`,
`left` and `silent` are history: `broken` holds the files in which something really went
wrong, and `ExitTrue` compares the exit code with it. The dry run, `list`,
`install-hook` and the reports are left out.

### 3.11 Queries

One query at a time, from `Ask` to `Done`, while its subject on the chain changes
(`ChainMoves`); queries share nothing else. `SendQuery` is a request of pourtier's, by
`PasseurQueryService` (which asks for the details and then for the balance, once
each) or by `PasseurBridgeClient` (which retries inside a breaker that may refuse).
`Attempt` is one attempt of passeur's client at the bridge and, after the last, the
answer of passeur's route; `Arrives` what pourtier makes of it, `Lose` a timeout or a lost
connection on the way. Statuses are kept as far as somebody tells them apart.

### 3.12 EventPath

`PublishEvent`, `Post`, `CannotConnect`, `GiveUp`, `Answered` and `NextAttempt` are
`CourierClient.publish`, `HandleRequest` is the whole route `/publish`: limit, schema and size
checks, source check, broadcast, answer. A request whose caller has given up stays in
`requests` and may be handled at any time. Events differ in what the route finds
(`EventKind`). Services that are not in the repository post once and name themselves.

### 3.13 Lifecycle

| Action | Code |
|---|---|
| `StartNext`, `StartFails`, `StartupComplete` | the lifespan before its `yield`: database, cache, signal handlers, monitoring threads |
| `ThreadStarts`, `StopMonitor` | `start` in its thread, `shutdown` from the event loop |
| `SignalArrives` | uvicorn's handler before, the service's after `setup_signal_handlers` |
| `LifespanEnds`, `Exit` | the lifespan after its `yield`, by whoever runs the application |
| `CloseBegins`, `CloseEnds`, `CloseFails`, `Skip` | one `close` of a sequence: up to its await, after it, an exception or the timeout, nothing to close |
| `BeginVisit`, `UseClient`, `CallReturns`, `EndVisit` | a request: its database session, a client it uses, the commit |

The two sequences, the signal's and the lifespan's, go through the same container, each
with its own place (`turn`). A client is opened by whoever uses it first. Requests that
do without the database are left out: nothing refuses them.

## 4. Runs

| Run | Module / cfg | Question | Answer |
|---|---|---|---|
| `escrow` | `MCEscrow` / `MCEscrow` | Who may take tokens, and when; is every token accounted for; does the program implement `Custody`? | all five properties hold |
| `escrow_exit` | `EscrowExit` / `MCEscrowExit` | Can the owner always leave? | yes |
| `breaker` | `BreakerRecovery` / `MCBreaker` | With retries inside: does an outage open pourtier's circuit, does it protect, bound the load, and recover? | yes, if no probe goes unreported |
| `breaker_ignored` | `CircuitBreaker` / `MCBreakerIgnored` | …and if some are not? | **it wedges** |
| `resilient_passeur` | `ResilientCall` / `MCPasseurBridge` | …does an outage open passeur's circuit? | **no** |
| `submission` | `MCSubmission` / `MCSubmission` | Do books, answers and chain agree through retries, lost answers, expiry and restarts? | yes, as far as §4.2 says |
| `submission_same_amount` | `MCSubmission` / `MCSameAmount` | …with two deposits of one amount? | **no** |
| `courier` | `MCCourierHub` / `MCCourierHub` | Are connections limited, events sent once and to all that stay, channels deleted, and does a shutdown end? | yes, except for the causes the properties name |
| `limiter_types` | `MCRateLimiter` / `MCTypeLimits` | …for types with a limit of their own? | **no** |
| `apart` | `MCApart` / `MCApart` | Accounts: what may overlapping requests do to an account? Limiter: does it keep its limit, refuse only with cause and advise well? Strategy: do the detectors see what happened, do stops follow the price, is the loss limit about the day? Test runner: does the exit code tell the truth, and who leaves fixtures behind? Queries: is every answer the chain's? Events: how often and in which order are they broadcast? A process: what does a shutdown leave open, and whom does it refuse? | doubles and duplicates only where requests overlapped, accounts are whole, compliance answers are true; yes; yes, each kind of detector in its own order of calls; yes, and only failures and teardowns that raise; unless every read fails; as `publish` says, but for what timed out; what is used or starting when its turn has come |
| `preparation` | `MCPreparation` / `MCPreparation` | May one request give the owner two transactions that both go through? Does he get out through the service? | only when requests overlapped; yes |
| `prepared_retry` | `MCPreparation` / `MCPreparedRetry` | …and is what a retry is given good for anything? | **not after a minute** |

### 4.1 Bounds, and why they are enough

* **escrow**: two keys (symmetric), so that a right can change hands;
  two base units of token, so that a balance can be
  zero, at a limit and above it; `MaxU64` equal to the supply, so that the
  counters do reach it and the checked additions do fail; `NonceSpan` 2, so that
  the wrapping nonce wraps. The clock stops at `MaxTime`, 5 ticks: time-lock and
  cooldown are 2 ticks, enough for delegate, wait, revoke, delegate, and for a
  pause with its cooldown, before and after the account is closed and created
  again. `Lifetimes` contains 0 (unlimited) and 1. At the bound of the clock
  every instruction but time remains, so that there is no deadlock; only
  `EscrowExit` may stop (the owner has left). 2.55 million distinct states.
* **breaker**: three callers for two failures and two probes, so that late reports
  of a failing and of a succeeding call can each meet every state; `Timeout` 2, so
  that opening again before the timeout has run out is possible; three attempts
  each, so that a retry may succeed, fail or find the circuit open. 0.17 million
  states.
* **submission**: two requests with two attempts each give up to four posts, of the
  same or of different transactions; one transaction of each operation, of one
  user and one amount, so that only the operation tells their keys apart. Every
  interleaving of two handlers with each of their posts is there; three requests
  with the same transaction show nothing new for pairwise properties (and
  `RecordedOnce` and `BooksFollowChain` are proved for any number). 1.77 million states.
* **courier**: three connections, two of them of one user and on one ephemeral
  channel, and limits of two in all, one per user and two per channel, so that
  every limit is reached by connections that open together; two channels, so
  that one can come or go while the other is gone through; one publication. 0.69
  million states. The server may stop for good, hence no deadlock check.
* **apart**, 1.8 million states, the sum of its parts. Deadlock is not checked, since
  bars, days, requests and trades run out.
  * *Limiter*: one sender (senders share nothing), two requests per window of
    three ticks, nine ticks: three windows, so that a bucket can be emptied, refilled
    and be full again at every phase of a window. Tokens are Nat and not bounded.
  * *Accounts*: three requests, so that a third sees what two that overlapped
    left behind (or a request finds what another has ended); two documents and lists
    that name both or one twice. The wallet may be there before. Requests are numbered
    as they are sent, which loses nothing, since they differ in nothing else.
    A behaviour has requests about documents or about subscriptions, besides those that create
    the user (`SomeRequests`): no query reads both tables.
  * *Signals*: four bars of two names, each with one of three numbers, `NaN` or no
    value, the price always with a number; a history of three, so that it is cut, and periods up to three: the
    highest of three fits into it, rising for three periods does not.
  * *Trades*: three prices, two of them on one side of the entry, with trailing stops of 0 and
    50 percent and stops on both sides of the entry, two positions and three days.
  * *Laborant*: a component with a unit and an integration file of two tests each, one
    sync and one async, in either order; one with a file of one test; one without tests.
    Every command line made of two lists of names, of categories and of files. Classes
    override any hooks of one scope (class or test), since neither scope's hooks read the
    other's; with `lint` and `format` at most one tool is missing, and a component has an issue or none.
  * *Queries*: three amounts, zero among them, and two attempts at either service, so that
    a first failure may be followed by another or by success.
  * *EventPath*: two events of the client, one of a service, and two attempts: a late
    request can be overtaken by the retry, the successor, or the end of the call. The client
    publishes what pourtier does (`SomeEvents`), the service valid, foreign and oversized events.
  * *Lifecycle*: both services, one request, any number of signals. Of the bridge client and the
    verifier, which are used and closed alike, one is used at a time; the courier client is
    closed by nothing, and is left out (`SomeClients`).
* **preparation**: two requests at a time; one role, since roles share no key, with
  two keys to delegate to; two tokens; a transaction is valid at two ages, so that it
  can be sent at once, later, or not any more. Of two units asked for, the conversion
  loses one. A behaviour uses one or two of the routes (`SomeUses`): entries under
  different keys meet on the chain only, which `OthersGoOn` and `OwnerElsewhere` change
  in every other way. Requests that overlap are deposits, which do the most harm when done twice; the store
  treats all routes alike. `MaxFailures` 1: a request is lost
  at any step, once; the theorem has no such bound. 0.50 million states.

### 4.2 Fairness, and what the liveness properties mean

* `EscrowExit`: time passes (`WF` of `ClockTicks`), and an owner who has decided to
  leave takes every step that *stays* possible (`WF` of each). No fairness of
  anyone else: authorities and senders may act for ever or never. `leaving ~> ~exists`.
  `Decide` requires that withdrawing all tokens there are would not overflow
  `total_withdrawn`: with counters at 2^64 a withdrawal fails for ever, which no
  real supply reaches. The exit is also bounded by the model's clock: `Horizon`
  leaves room for one cooldown.
* `BreakerRecovery`: callers keep calling when the breaker would admit them, every
  attempt ends (requests carry a timeout), time passes. All weak.
  `recovered ~> [](state = "CLOSED")` is checked with calls that are cancelled, except
  for probes; `breaker_ignored` shows why.
* `CourierHub`: every handler, the heartbeat and the shutdown go on when they can, and
  so does every broadcast (`WF`): asyncio runs every ready task. Clients are free
  to stay or to hang; a send to one that hangs is a step that is delayed, and the
  notice's timeout bounds it. `ShutdownEnds` names what may keep the server up.
* `Preparation`: requests are served, time passes, Redis forgets, and an owner who is
  leaving keeps asking (`WF`). Sending is `SF`: the store may hand him a stale
  transaction, and then it is not enabled; a fresh one may get stale before he signs.
  If again and again he holds one that would go through, he sends one of them. Redis
  keeps an entry for days and is not restarted empty, so `Forgettable` asks that a
  result be stale; timeouts (30 s at the bridge) are shorter than the life of a
  blockhash, so an answer is stored fresh. `leaving ~> ~open` is for escrows that are
  not paused when he decides: the service prepares no `unpause`, nor an
  `emergency_withdraw`. Failures are bounded, or else every request might fail.
* The parts of `apart` have no fairness: safety only. A request that
  waits at a lock waits for one that waits for nobody, since each
  transaction holds one lock and takes no second one.
* `EscrowSubmission` has no fairness: safety only. `OrphansHaveCause` says what a
  transaction that is on the chain and not in the books presupposes: some step was
  lost, timed out, failed or interrupted (the history variable `fault`).
  When there was one, *nothing in the code finds the orphan again*: there is no
  reconciliation. `RepliesAreBooked` is about the order of the last steps: the result is
  remembered, and may answer a retry, before its row is committed. Once no handler is about to commit a
  transaction, a reply or a remembered result about it has a committed row, unless a commit
  of that very transaction was lost (the history `lost`).

### 4.3 Mutants and type invariants

Every property of every passing run has a mutant in `PROJECT.json`: an operator of
the same module, marked `Mutated:` in a comment, that replaces a definition by
what a plausible bug would make it, under which the run finds the property
violated. They are not used by the specifications.

The type invariants of the modules are in no run; those of the modules with proofs are
proved (§6). So are `CapRespected`, `RecordedOnce`, `TableAgrees`, `PauseFreezes` and
`StopRatchets`, which are theorems for every instance.

## 5. Findings

1. **Half-open calls** (`breaker_ignored`). `_half_open_calls` is never given back: a
   probe that ends in an exception that does not count, or is cancelled, keeps its
   place, and after `half_open_max_calls` of them the circuit rejects everybody
   until a manual `reset`.
2. **Passeur's bridge breaker** (`resilient_passeur`) never opens: exhausted retries
   raise `RetryError`, timeouts `BridgeTimeoutException`, and it expects neither.
   `solana_rpc_client.py` has the same configuration.
3. **Same amount** (`submission_same_amount`). The key of a deposit or withdrawal is
   user, operation, amount and token, and no route passes one of its own: the
   second deposit of 100 USDC within a day is answered with the record of the
   first and never submitted.

4. **Limits of types** (`limiter_types`). For a type in `rate_limit_per_message_type` every
   check calls `set_limiter`, which starts a new, full bucket: its limit never applies,
   and neither does the global one.
5. **Prepared transactions** (`prepared_retry`). The built transaction is stored for seven days
   (three for a reservation of a delegation; `store_result` uses seven for all) and its
   blockhash is accepted for about a minute. `escrow.py:48` says "Idempotent (7 days) - safe to
   retry": a retry after a minute, and any second deposit of the same amount within
   seven days, is answered with a transaction that the network refuses. An owner who wants to
   revoke, withdraw everything or close has to wait for the entry to expire
   (`LeavesThroughService`) or to name another amount.

Noticed while modelling, and not stated as a run:

* **dust**: `close_escrow` accepts balances up to `DUST_THRESHOLD` and then closes the
  token account without emptying it, which the token program refuses
  (`lib.rs:691`; `smart_contracts/README.md:162`). The dust check never helps; the owner
  must withdraw it first (he can: `escrow_exit`).
* **monthly fee**: `MAX_SUBSCRIPTION_FEE`, "per month" in `constants.rs:21-22`, is compared
  with the amount of one call; no period is kept (`lib.rs:336`).
* a full bucket and the rate allow up to twice `limit` in one window, where the setting
  says "Maximum requests allowed in window"; a type's limit of 0 divides by zero in
  the retry advice; buckets are never evicted.
* the courier's client sends no `X-Service-Name`, so that the publish limit never
  applies to it, and repeats after a timeout, so that subscribers may get an event
  twice (`SentOnce` is about one publication). Two publications may
  reach two clients in different orders.
* `manage_channel.py:78` says that ephemeral channels are deleted when empty: those
  that a publication or a refused connection created never are (`EphemeralDeleted`
  excludes them by name). `dead_clients` of a broadcast are not removed, and
  `cleanup_empty_channels` is called by nothing.
* pourtier's `RateLimitMiddleware` is built with the middleware stack, at the
  lifespan call, when the container has no Redis client yet; it keeps that, and
  never limits.
* nothing but the user's `PATCH` ends a subscription: one that has expired by date is
  active by status, blocks a new one (`create_subscription.py:101`) and satisfies
  `/subscriptions/check` and `ValidateUserForDeployment`; `CheckSubscriptionStatus`,
  which compares dates, is used by no route.
* no constraint in the database keeps a user's acceptances or active subscriptions
  apart (`models.py:61-88`, `183-212`). Two acceptances of one document make every later
  `POST /legal/accept` that names it fail (`scalar_one_or_none`).
* `/legal/compliance` is cached for 300 s and `/legal/accept` does not invalidate it. With
  the pinned FastAPI the answer goes out before the session commits: a
  client that was told of success may ask again before, or in vain.
* `python3 -m laborant`, which the pre-commit hook runs (`hooks/pre-commit.template:32`), calls
  `main()` and drops what it returns (`__main__.py:10`): the exit code is 0 whatever
  happened, and the hook, which "Blocks commit only if tests OR lint fail", never does. Only
  the console script returns the code that `ExitTrue` is about.
* `laborant test` without names ends with a fatal error, always: `get_changed_files` and
  `map_files_to_components` (`orchestrator.py:215`, `226`) do not exist.
* a name without a directory `tests/`, misspelt or like `shared`, whose tests are elsewhere (though
  `laborant/README.md:91` has `laborant test pourtier passeur shared`), passes with exit
  code 0, and so does a pattern that matches no file (`ExitTrue` is about files).
* `teardown_test` is "Called AFTER every test_* method" (`test_base.py:164`), but not when the test raises;
  a class-level teardown that raises is logged and no failure; after a failed setup none
  is called. A class that overrides only the asynchronous teardown leaves its
  synchronous tests' fixtures (`LeftoversHaveCause` says so).
* the exit codes of black, isort, autoflake and autopep8 are ignored: a file they cannot parse
  counts as formatted. A failed setup is reported in a form that the schema refuses
  (no tests counted, one listed), so that its message is lost.
* no order of calls makes all detectors of a strategy right. `base_strategy.py:98` says that
  the memory is updated *after* the checks, and then crossings and single steps are
  seen (`CrossingsSeen`), but a strict new high is never `_is_highest`, whose
  window then ends a bar earlier (`base_strategy.py:149`: "including current which was just
  added"), and runs and divergences are a bar late. Updated *first* the windows are
  right (`WindowsRight`), but a bar is compared with itself, and nothing ever
  rises or crosses: neither of names nor of a level (`CrossingsTrue`, which also excludes
  crossings made up in either order).
* a `NaN` in a window refutes neither `_is_rising_for` nor `_is_falling_for`
  (`indicator_based_strategy.py:92`): an indicator that warms up is both. Periods of more
  than 100 bars are never fulfilled.
* `can_trade` resets the day's sum at the first question of a day, not at midnight
  (`base_strategy.py:229`): what was recorded before it, or before the first question
  of all, does not count (`LimitIsDaily` says so). A stop, trailing stop or limit of
  0 is falsy and means none. `close` and `update_price` do not ask for the status.
* passeur's `TransactionManager` claims to execute exactly once; nothing calls it, and it
  calls methods the bridge client does not have.
* passeur's `success_threshold` may be configured up to 10 (`settings.py:24`) while
  `half_open_max_calls` stays 3: more successes are asked for than probes allowed.
  `NeverWedged` needs `SuccessThreshold <= HalfOpenMaxCalls`, for this reason.
* successes of calls admitted before the circuit opened count as probes.
* time is `time.time()`: a clock set back keeps an open circuit open longer.
* `@timeout(10.0)` in passeur's `solana_rpc_client.py` decorates a coroutine function
  with a context manager around its creation, not its execution: no timeout applies.
* `action_nonce` is compared by no instruction, though
  `smart_contracts/README.md:230-235` says it prevents replay (Solana's own
  blockhash rule does).
* the rent check at `lib.rs:698` always holds.
* the key of a delegation is the escrow and the role (`escrow.py:108`, `163`), without the authority: who
  asks to delegate to a second key is answered with the transaction for the first, and
  `AsAsked` therefore says nothing of it. `maxBalance` is not in the key of
  `prepare-initialize` either (`escrow.py:54`).
* overlapping prepare requests get two transactions with different blockhashes, which both go
  through (`PreparedOnce` excludes them by name).
* `Math.floor(parseFloat(amount) * 1_000_000)` in the bridge (`server.js:662`, `746`) loses a base
  unit where the product of floats falls short: 2.01 USDC become 2009999 units (`Converted`).
* pourtier's client sends `platformAuthority` and `tradingAuthority` where passeur's schema
  wants `authority`: its delegations are refused with 422. No use case calls them.
* passeur prepares no pause, unpause, emergency withdrawal or change of lifetime.
* `check_and_store` calls itself "an atomic operation" and is a `GET` and a `SETEX`; a
  late reservation can overwrite a stored result. Because the chain itself refuses
  duplicates this costs repeated work and not correctness: `RepliesAreTrue`,
  `RecordedOnce`.
* the result is remembered before the commit: if the commit fails, retries within a
  day are answered with a record that is not in the database. `RepliesAreBooked` confines
  this to the transactions whose commit was lost.
* rows of deposits say `CONFIRMED` once the chain has *accepted* the transaction; it
  may still fail to execute.

* the bridge's `GET /escrow/:address` answers any error with a 404 (`server.js:919`): when the RPC fails at
  every attempt, pourtier reports an escrow that exists as not initialised, although
  `check_escrow_exists` documents "BlockchainError: If query fails". `AbsenceHasCause` has
  this case. A transaction that failed but is finalized is reported as confirmed.
* pourtier's `/wallet/balance` documents a 502, but `RetryError` is no `BridgeError`: it
  answers with an unhandled 500. So does passeur's `except BridgeConnectionException`, which the
  retry has already replaced, and `EscrowNotFoundError` is raised for no balance.
* pourtier's system logs have the type `system_log`, which `ValidateEventUseCase` does not know: they
  are refused with 400, posted again, and never delivered, although `courier_client.py:117` shows that
  very event as its example. Events without a type pass unchecked, in schema and in size. The
  branch for pydantic's `ValidationError` is never reached, since that is a `ValueError`.
* SIGTERM ends neither service. Pourtier's handlers replace uvicorn's, close the container and
  leave the server running, which then refuses every request that needs the database
  ("Database not connected"), where `graceful_shutdown.py:77` says "stops accepting new requests" and
  "Wait for pending requests". Passeur's only set an event that nobody awaits. A
  signal during the startup ends the process without the lifespan's shutdown.
* the courier client and passeur's clients of the bridge and the RPC are closed by nothing; no cleanup task is
  registered with pourtier. An aiohttp session that a request opens while the old one is closing is
  dropped unclosed; the query service answers with a `RuntimeError` while it is closed.
* `shutdown` of a monitoring server whose thread has not bound its port does nothing.
* `PasseurHealthChecker` has no `check_liveness` and `check_readiness`: the health port answers 500 to both.
  Pourtier's `/api/health` says that the database is healthy, whatever it is (`health_check.py:81`).

## 6. Proofs

The theorems are stated for every value of the constants that satisfies the named
`ASSUME`s (`ConstantsAssumption`: `Nobody` is no key, limits are natural, the default cap
is within the allowed one, the supply fits `u64`; `BreakerAssumption`,
`RetryAssumption`, `SubmissionAssumption`, `LimitsAssumption`, `AccountsAssumption`,
`TradeAssumption`, `SignalAssumption`, `CommandsAssumption`, `CourierAssumption`,
`EventAssumption`, `QueryAssumption`, `LifecycleAssumption`, `PreparationAssumption`,
`UnitsAssumption`, `ValuesAssumption`, `UsesAssumption`). Each safety theorem has three steps:
`Init => I`, `I /\ [Next]_vars => I'`, `I => property`.

**EscrowProofs.** The inductive invariants are `TypeOK`; `GrantsAgree`, inductive
together with it; `AccountsBalance` and `CapRespected`, inductive over `TypeOK`; and
`HistoryOK`, which relates the program's timestamps to what really happened.
`SpendersExclusive` follows from `GrantsAgree`, which is proved and in no run: the owner's withdrawals read the
flag, an authority's the key and the time, and only their agreement excludes that
both apply. `TimeLock` and `PauseHolds` need `HistoryOK`: `activated_at` is the time
since which *this* key has held the role, through revocation and re-creation,
and an unpaused escrow has its last pause a cooldown behind it, also when the
account was closed in between (closing requires that it is not paused). `PromiseKept`
maps every instruction to a step or a stutter of `Custody`.

**ServiceProofs.** `OpenCircuitProtects` rests on `ClocksAgree`: the failure clock of an
open circuit is at most the time since it opened, because late failures start it anew.
`NeverWedged`, for `"ignored" \notin Endings` and
`SuccessThreshold <= HalfOpenMaxCalls`, rests on `ProbesAccounted`: every half-open call
is still running or counted as a success.

With retries inside the breaker, `CallsFollowBreaker`: `CSpec => Spec`, the retry only changes which
report the breaker gets. `OutageAlwaysOpens`: if `RetryError` and every error that is not
retried are expected, `unserved < FailureThreshold`; the invariant (`Counted`) is
that a closed circuit's failures in a row are in its `failure_count`. `LoadIsBounded` needs
a measure (`Spent`): while the circuit is open, the attempts that have leaked and those
that calls inside still have left are together no more than all calls could make. What is
left is counted as a set of pairs of a call and an attempt, because a sum over the callers
would be proved by induction; an attempt that leaks takes at least one pair out of it, and
nobody is admitted who could add one.

**CourierProofs.** For any number of connections, channels and publications, and any
limits. `remove_client` is a recursive function on a list (`Kept`), so that what it
leaves is proved by induction, from the least element of a set of naturals
(`SetInduction`): the others, each once, and nobody further back than before
(`WithoutProps`). `TableAgrees` is inductive with `BeatOK`: whom the heartbeat
has found dead is of the channel it is at and no longer served, although it keeps their
names across awaits. `LimitsAlwaysHold` compares what the limits are checked on, the
lists, with the registry: their entries are in bijection with it (`TotalIsRegistry`).
`SentAlwaysOnce`: nobody a broadcast has sent to is in its list from its index on
(`CastOK`), because every change of a list moves its members to the front and only
adds newcomers at the end (`Shifts`). `MissesAlwaysHaveCause` rests on the same fact: those who
were there when a broadcast began stay in front of all newcomers (`FirstCome`), so the
broadcast sends to them alone until it has met as many as are still there (`CastFits`);
one that ends by itself has therefore gone past at least that many, and has missed
no more than have left. `EphemeralAlwaysDeleted`: the last
subscriber to leave finds the list empty, also when the heartbeat emptied it.

**SubmissionProofs.** Three layers. `Sound`: types, and phases that agree with the
transaction carried and the attempts made. `Truthful`: whoever is past the
answer of passeur, and every result remembered by either service, is about a
transaction the chain accepted. This needs both stores in the invariant, because their
entries outlive the handlers that wrote them; `Frame` shows that a request keeps its
transaction and that the chain never un-accepts one. `RowsOK`: rows, flushed or
committed, carry different transactions, and flushed rows belong to handlers
that are about to commit. `RecordedAtMostOnce`
then does not use the duplicate check at all: between the check and the insert
there is an await; only the unique index makes it true. `BooksAlwaysFollow` is the
refinement of `Ledger`.

`KeysFit` relates what pourtier's store holds under a key, and each reply, to the key it was asked
with: the store keeps results across requests and restarts, but never under another
key. So a reply is always about the same user, operation and amount (`RepliesFit`), and about the
request's own transaction if no two transactions share these three (`RepliesAreOwn`). That
hypothesis is needed: finding 3 is its counterexample. `OrphansAlwaysHaveCause`
rests on `Tended`: as long as nothing has gone wrong, every post that runs is
awaited by its handler, and every accepted transaction that is not in the books is
carried by a handler on its way to record it.

`RepliesAlwaysBooked` rests on `AllBacked`: whatever a store holds or a reply says of a
recorded transaction has its row, a handler at its commit, or a lost commit behind it. Each
step keeps the three together (`StepKeepsBacked`), since a handler at its commit leaves it
by committing or by losing its row (`CommitsEnd`), and lost stays lost (`LostIsCarried`).

**PublishProofs.** For any limit, window and number of senders. The invariant relates a
bucket to the history of what was admitted: for every moment `s`, what was admitted
since `s` and what is in the bucket are together at most a full bucket and the
refill since `s`, and at least as much as the refusals need. It bounds what is
admitted from above (`LimitIsKept`) and, with the same sum read the other way,
makes a refusal due (`RefusalsAreDue`); `AdviceIsGood` adds that the advice given
covers what is missing.

**PourtierProofs.** For any number of requests, documents and lists, and however documents
are published. The invariant (`IInv`) says of each request's record what it may be
given the others (`Fits`): a request that found no active subscription began when every
subscription committed by then was over; one that holds the wallet's row is alone
and found no user; a registration writes its list from front to end and the list
covers what has been active all along. All queries but `Publish` replace one
record that is not committed, so `OneMoves` carries `IInv` over a step and each query
only shows that its new record fits. `DoublesOverlap` and `AccountIsWhole` follow. The
latter rests on the unique index: the check of `get_by_wallet` alone would not do.

`ComplianceIsTrue` and `DuplicatesOverlap` are about what a request read. A second invariant
(`KInv`) says what is still true of it later: a committed request never changes
(`KnowledgeStays`), so that what was found of it stays found. A check has left out only what is
accepted, and asks for nothing that was accepted before it began (`AsksRight`); a request
inserts acceptances of different documents, and none that had been accepted when it was
sent (`AcceptsNew`); and a registration found nothing accepted (`IsFirst`), because
nobody accepts for a wallet that has no account.

**PourtierProofs**, on queries. For any number of attempts of pourtier and of passeur.
`QInv` follows a query hop by hop: while passeur tries, it has failed in every attempt so
far unless one found nothing (`Trying`); its answer carries what it read, or has a fault
behind it (`Answering`). What pourtier's caller gets (`AnswersAlwaysHaveCause`) follows from
it at the last hop, `ReceiveOK`.

**PublishProofs**, on events. For any set of events and callers and any number of
attempts. `Tally` bounds the copies of an event together with the requests that may
still become one: there are no more than attempts given up, and one for the attempt
that is due (`Due`). A copy can appear long after its publisher has returned, so
counting copies alone is not inductive. For the order (`OrderHasCause`) the invariant
adds that callers take turns (`InTurn`) and nothing is broadcast that was not begun.

**ServiceProofs**, on the life of a process. For any number of requests. `Passed`: every place
a sequence has behind it is closed, or was used when its turn had come; so two
sequences that interleave, and requests that open clients between their awaits, are
one case each. `ClosedHasCause` and `BegunAfterOpening` give
`RefusedAlwaysHasCause`: nothing is closed that a sequence has not come to, and no
sequence begins before the service has opened what it opens in starting.

**SequentialProofs**, on signals. For any names, values, history and number of bars. What is remembered
of the last bar is that bar (`Remembered`), so that the crossings reported are those of
the last two bars (`Compared`), and every crossing ends with two such bars
(`CrossingsAlwaysSeen`).
For the window detectors, `MemoryIsRecent` is inductive: it says where in the history the value
of a bar is by how many later bars had one, so that a bar moves every place by at most
one (`RecentStays`, `Remembering`). Over bars that all have a value the window is then these
bars' values (`WindowIs`); that its extremes exist is proved from the least of a set of
naturals (`HasLeast`), and each detector's comparison of the window says what
`WindowsRight` says of the bars (`ExtremesTold`, `RunsTold`, `DivergencesTold`).
`CrossingsTrue` is the other direction, that a reported crossing did happen: what is reported compares the bar
with the one remembered, or on the first bar with itself (`Stepped`, `InvSteps`). Together:
`DetectorsAlwaysRight`.

**SequentialProofs**, on trades. For all prices, stops, percentages up to 100 and limits. `StopOK`: a
position's extremes are prices it was told, and bound them all; its stop is the tightest
of the one it was opened with and of the trail of the better extreme. The
trail is a product with the price and so monotone in it (`TrailMonotone`); hence a new
price can only tighten the stop (`StopsAlwaysRatchet`), and reaching the stop is reaching
the trail of *some* price told (`StopsAlwaysFollow`). `BooksOK`: from the first question
of a day the counter is the day's sum less what the reset wiped out, whence
`LimitIsAlwaysDaily`.

**SequentialProofs**, on the test runner. For any components, files, tests and commands. While the
runner is at work (`Underway`): the test process at hand tells what is broken in its file,
in its results and then in its output (`ProcessTells`); no file is run twice
(`EachOnce`); as long as all results were good, every file asked for is finished,
queued, at hand or of a component that still waits, and only the one at hand may be
broken, and after a bad result one is (`TestsTold`); lint has found clean what it is done with,
or knows that it has not (`LintTold`); and fixtures are held or left behind only after a failure
(`HeldForCause`, `LeftForCause`). A process that dies or hangs prints nothing that counts
as a success, so `ExitIsTrue` holds wherever it dies. When the command
has ended nothing moves, and the two properties themselves are the invariant.

**PreparationProofs.** For any number of requests, roles, keys and amounts, any life of a blockhash
and any number of failures. `PrepInv`: every stored answer, every transaction on the way
and every one in the owner's hand is of the request it was built for (`Stored`, `Served`,
`AllAsAsked`); and, for a key whose requests do not overlap, `Once`: what can still be sent
of it is the transaction the store holds, and while a request fills it nothing is. This needs
that an entry is dropped only when stale, that an overwritten one belonged to an
overlap (`raced`), and that time ages the store and the hand alike. `AlwaysPreparedOnce`
follows.

### Only model-checked

* `OwnerGetsOut`, `Recovers`, `LeavesThroughService`, `ShutdownEnds`: liveness under fairness,
  out of the prover's reach.
* The properties of the runs that expect a violation, which are false. Of two of them a theorem
  says when they hold: `NeverWedged` and `OutageAlwaysOpens`, with hypotheses on the
  constants that the runs' configurations do not satisfy. `OwnReply` is proved for keys that are
  unique (`RepliesAreOwn`) and is false for the code's default keys.

## 7. Not modelled, and why

* Indicators: floating-point formulas. Take-profit, sizes of positions and the
  strategies themselves, which are generated elsewhere.
* Encoding of transactions, account addresses, key derivation, signatures, JWT: no protocol state.
* The chain's consensus, forks and fees: a transaction is unsent, accepted or landed.
* Events of the escrow program, logs, metrics, migrations; what health endpoints answer (a probe
  reads one flag, and the property would restate it).
* The test runner's dry run, `list`, `install-hook` and reports: they print. Git detection,
  which fails before it detects anything (§5).
* `infrastructure/blockchain/circuit_breaker.py` of pourtier: superseded by the shared
  one, used by nothing.
* The retry's delays, jitter and retry on results (used by neither service).
* The idempotency decorator and in-memory store: not used by the services.
* The courier's authentication, message validation and statistics; its control
  messages, which only answer; `CourierClient`'s statistics and health checks.
* `acquire` and `acquire_async` of the token bucket, which wait: no service calls them.
* Pourtier's rate limiting middleware: it never limits (§5).
* Caches in front of pourtier's users and legal routes: their package is not in the
  repository.
* `CheckSubscriptionStatus`, `ValidateUserForDeployment`, plans, prices and dates: reads
  and data; profile updates: single rows.
