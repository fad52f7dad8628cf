# Verification of the money core of fintech-banking-app

The repository is a banking application: a FastAPI backend (`src/backend`), a set
of services with their own infrastructure library (`src/services`) and a web
frontend. Most of it is request handling and reports. What can go wrong in ways
a unit test hardly reaches sits in two places: modules that keep shared state and
are used from several threads or tasks at once, and the in-memory storage on which
every request depends and through which requests meet. These are modelled here in
TLA+ and checked with TLC on small instances. All the safety properties that the
passing runs check are also proved with TLAPS for every value of the constants, some of
them from a hypothesis on the requests or on the seeded stores that is named below.

## Inventory

| Part | State it keeps | Operations | Hard behaviours |
|---|---|---|---|
| Transaction coordinator (`services/transaction_coordinator.py`) | bounded queue, in-flight and completed tables, stop event, worker thread, statistics, account versions | submit, status, start, stop, register handlers, the worker loop | clients, worker and controller interleave; full queue; handlers that raise; stop that returns before the worker ends |
| Transaction handlers (`services/transaction_handler.py`) | balances, buying power | transfer, payment, buy, sell | read, check, write without a lock |
| Event store (`services/event_store.py`) | event log, three indexes | append, queries, replay | lists created on first use without a lock |
| Transaction adapter (`services/transaction_adapter.py`) | none of its own | safe_transfer, safe_payment, safe_investment_buy, initialize, shutdown | calls the coordinator and the handlers both |
| Saga orchestrator (`services/saga_pattern.py`) | sagas, steps, dead letters | create, add step, execute, retry | actions and compensations that raise; retries of a half-compensated saga |
| Circuit breaker (`services/core/circuit_breaker.py`) | state, counters, calls in progress | call, state, reset | calls that overlap transitions; late results |
| Memory sessions (`storage/memory_adapter.py`, `models/memory_models.py`) | one store of records per class, id counters; per request the objects it made and three pending lists | query, construct, assign, add, delete, refresh, commit, rollback | whole records written back, several copies of one record, ids given at commit, classes that queries do not restore |
| Account routes (`routes/transfers.py`, `transactions.py`, `p2p.py`, `cards.py`, `business.py`) | accounts, transactions, notifications | transfers, deposit, withdrawal, bill, send, transaction, deletion, P2P, card payment, payroll, expense | two accounts in one unit of work, different checks of the funds |
| Goals (`routes/goals.py`, `savings.py`, `services/goal_update_service.py`) | goals, contributions | create, status, update, contribute, withdraw, cancel, delete, automatic contribution | two files that keep different rules over one store; several goals on one credit |
| Recurring rules (`routes/recurring.py`) | rules | create, toggle, delete, execute | rules are records that queries do not restore |
| Session manager (`utils/enhanced_session_manager.py`) | sessions, their index by user, devices | create, get, terminate, terminate all, clean up | limits, two timeouts, no background sweep, devices shared by logins |
| Service saga (`services/core/saga.py`) | sagas and step statuses | execute, compensate | ignored compensation failures |
| Service registry and clients (`services/core/service_registry.py`, `api_client.py`, `health_check.py`) | instances, health, cached clients | register, deregister, heartbeat, call | stale clients |
| Event streaming, event sourcing (`services/event_streaming.py`, `event_sourcing.py`) | windows, duplicates, hash chain | ingest, append, verify | duplicates, late events |

How they interact: clients (request threads) call the adapter or the coordinator;
`submit_transaction` appends to the event store and puts the context on the
queue; the worker takes it off, calls the handler registered for its type, and
files the context under the coordinator's lock; the handler reads and writes the
balances and appends to the event store. The saga orchestrator and the circuit
breaker stand beside this and call functions given by their users.

The backend's routes keep books of their own: each request opens a memory session
over the stores all requests share, loads records as objects, changes them and
commits. `create_transaction` and `create_transfer` then hand the committed
transaction to the goal service, which makes contributions in the same session and
commits again. Routes of different files change the same records under different
rules.

The properties that make each part correct are listed with the runs below;
`PROJECT.json` lists every hazard at its line with the properties that cover it.

## Modules

| Module | Models | Correspondence |
|---|---|---|
| `TransactionHandler` | `transaction_handler.py` | `call[th]` is the program counter and the local balances of the handler thread `th` is in; `funds` is `_account_balances` and `_buying_power`; `log` is the event log; one action per read, write or recorded event |
| `TransactionCoordinator` | `transaction_coordinator.py` | EXTENDS the handlers. `client[t]` is where `submit_transaction` stands for `t`, `worker` where the worker loop stands; `tracked` and `completed` are the two tables; start, stop and registration are actions of a controlling thread |
| `TransactionProperties` | what the two promise together | type invariant, safety, action and liveness properties, the parts of the inductive invariant, and the refinement mapping to `Ledger` |
| `Ledger` | the abstract specification | a transaction is applied as a whole, when covered, in one step, or rejected; no threads, queue or log |
| `TransactionProofs` | theorems about these four and `TransactionAdapter` | the refinement of `Ledger` and what the whole log tells among them; see Proofs |
| `EventStore` | `event_store.py` | `append[th]` is where thread `th` stands in `append_event`: which key it tests, creates the list of, or appends to |
| `EventStoreProofs` | theorems about it | see Proofs |
| `TransactionAdapter` | `transaction_adapter.py` | composes the coordinator with clients that also call the handler in their own thread |
| `BackendSaga` | `saga_pattern.py` | `run` is the call to `execute` in progress; `effects` counts what actions did and compensations undid; `forgotten` is a history variable |
| `BackendSagaProofs` | theorems about it | see Proofs |
| `CircuitBreaker` | `circuit_breaker.py` | `call[c]` is where call `c` stands between its four acquisitions of the lock and, in the sections into which a reset can fall (`Probe`, `CountRead`, `CountWrite`, `Decide`, `OpenCircuit`), inside them; a reset is two writes, `ResetState` and `ResetCount`, under another lock, with `resetting` between them; `read` is what `+= 1` has read; `sinceFailure` is the time since the last failure; `crossed` is a history variable |
| `CircuitBreakerProofs` | theorems about it | see Proofs |
| `MemorySession` | `memory_adapter.py`, `memory_models.py` | operators on values: a database is the stores and the id counters, a unit of work adds the objects made so far (`objs`) and `pending_adds`, `pending_updates`, `pending_deletes` as lists of places in `objs`; one operator per method |
| `UnitOfWork` | any route's use of a session | `u` is the unit of work in progress; one action per session call, in any order; `wrote` is a history variable |
| `UnitOfWorkProofs` | theorems about it | see Proofs |
| `MoneyFormat` | `utils/money.py` | `Rounded` is `format_money` and `SafeAdd` is `safe_add_money`, on amounts in parts of a cent |
| `GoalUpdateService` | `goal_update_service.py` | the loop over the linked goals as a recursive function that makes one `Allocate` per goal, in the order of `Foremost` |
| `AccountRoutes` | the requests that move money between accounts | `db` is the stores and counters; one operator per route, built from the session calls it makes, in their order |
| `GoalRoutes`, `RecurringRoutes` | the requests on goals and rules | the same; `told` is what the last response said of each rule |
| `MoneyRoutes` | all of these together | EXTENDS the two; `Next` is any request; `erased`, `base`, `dropped` and `unvalidated` are history variables that the stores do not keep (and `half`, a field of a transaction, whether its amount ended in half a cent before it was rounded); `Records(c)` is what a record of class `c` holds, and `TypeOK` says that every stored record is one |
| `MoneyProofs` | theorems about single records | types and overdrafts; see Proofs |
| `MoneyRecordProofs` | theorems about how records agree | balances and transactions, notifications, goals, contributions and shares; see Proofs |
| `SessionManager` | `enhanced_session_manager.py` | `sessions`, `userSessions`, `userDevices` are the three tables; a device object names the session whose login made it |
| `SessionProofs` | theorems about it | see Proofs |
| `MC*` | instances for TLC | |

Operators commented "Seeded bug" are not part of any specification. Each is a
plausible wrong version of the definition that follows it, kept to show that a
property of a run fails when the code is changed that way (`PROJECT.json`, "mutants").

Atomicity. An action is one statement that touches state another thread can see,
or one critical section where the code takes a lock. In the transaction modules
the append to the log is one step (`list.append` is, under the interpreter's
lock); what happens to the indexes beside it is the subject of `EventStore`. A
route of the backend is a coroutine that awaits nothing between opening its session
and its last commit, so the event loop runs it as a whole: in `MoneyRoutes` a request
is one step, and what is in question is what the session makes of its calls and what
requests leave for each other. The session manager is called without an await in
between as well. In the circuit breaker a section under the breaker's lock is one
action where a write of a reset inside it makes no difference (the success section
writes what a reset writes) and one action per statement where it does. One reset
runs at a time, since the manager's lock is held for the whole of it. The one background task that sleeps while it works, the transfer
simulation of `routes/banking.py:106`, is not modelled.

What is abstracted. Amounts are natural numbers and balances integers instead of
decimals; identifiers, timestamps, descriptions and metadata are left out, as is
the wording of errors. A balance that was never written reads as the default of
1000 (5000 for buying power); the constant `OpeningFunds` stands for it. An event
is its transaction, its kind and, for a balance modification, the balance it
records. The four `register_handler` calls of one constructor are one step.
`get_version` is left out of the handlers because its result is dropped.
`CANCELLED` is never reached: `mark_cancelled` has no caller. In `EventStore` the
three index dictionaries share one table with disjoint keys, and
`Exclusive = TRUE` says that the events of one transaction never overlap: the
client's is in before the context is put on the queue, and the worker's come
after it was taken off. The orchestrator of `BackendSaga` is driven by one
thread, an action or compensation that raises had no effect, and callers execute
a saga that is pending (`Reexecute = FALSE`) or use `retry_saga`. The failure
count of `CircuitBreaker` is counted no further than the threshold and the time
no further than the timeout, since the code only compares them.

In the routes a record keeps the fields the properties tell apart: an account is its
balance, and its owner, type and credit limit are constants, since no modelled
request changes them. An amount is a whole number of parts of a cent, `Cent` of them to one
cent: requests name what they like, a record's constructor and the attributes of a
goal round it to whole cents, half a cent away from zero (`Rounded`), and what is
worked out before that is not rounded. So a fee of one percent is exact, the balance and
the transaction it goes into are rounded apart, and the goal service takes unrounded
shares from what is left while it records rounded ones. The float of a share is a number
of parts, floored where a percentage of what is left does not come out even; with
`Cent` a multiple of 100, a percentage of whole cents does. Percentages are whole
numbers. A transaction has one of the four types of `entities/enums.py:24`; every route
takes any type but `debit` as a credit to the balance, and only the goal service tells
`credit` from the others. A goal linked to no account has the account 0. What an
update of a goal may name is its status, amount, percentage and account; its target, owner,
fixed amount and priority stay what they were made with. Names, categories, merchants and messages
are left out; so is everything a response says except whether a rule is active. A
request that a check refuses changes nothing and is one action, `RefuseRequest`,
whatever the reason. A goal without a percentage stores `None`; `Unset` stands for
it, and the calculation that meets it raises. In `SessionManager` a session id is
never used while another session has it (they are random), the clock is a counter,
and audit events are left out. `create_session` and `get_session` have no caller
among the routes at present (login uses another table), while `routes/auth.py:519-567`
lists and terminates; the module is about the class and any use of it.

## Runs

| Run | States | Shows |
|---|---|---|
| `transactions` | 451,914 | two transactions, each any of six contexts (both transfer directions, a payment, a buy, a sale, a payment without account), queue of one |
| `event_store` | about 924,000 | two threads, up to four events of two transactions that meet on one account and one user, one event naming an account twice |
| `saga` | 32,841 | two sagas, three steps, two attempts, two runs each |
| `circuit_breaker` | 153,063 | four calls and an observer, three places, threshold two, timeout of two ticks, any number of resets |
| `unit_of_work` | 502,632 | one class that queries restore, with a seeded record, one that they do not, two contents, two objects per unit of work, ids up to two |
| `money` | 228,666 | a user with a checking account and a credit card, another with a business account of type `checking`; one seeded goal with a fixed amount, new ones with 67 %, with no percentage, and in debt with no account; updates to 67 % and to account 1; one amount of 1.50, payroll and expenses of 1.50 and of minus half a cent, transfer fees of one and a half cents and of 1.515, three creations, one update that nothing validates |
| `sessions` | 175,429 | two users, two devices, four session ids, two sessions and one device per user, timeouts of one and two ticks, up to symmetry |
| `event_store_audit` | violation | an event that an account query never returns |
| `handlers` | violation | two direct transfers that spend the same money |
| `adapter` | violation | one payment executed by the client and by the worker |
| `saga_retry` | violation | a saga reported rolled back with a step in effect |
| `money_rules` | violation | a recurring rule executed after the response that disabled it |

`transactions` checks:

- money: `ReplayRestoresFunds` (replaying the log gives the balances),
  `RecordedBalancesAreTrue` (each recorded balance is the one the log implies),
  `NoOverdraft`, `ReadsAreCurrent` (what a handler read is still there when it writes);
- trail and tables: `TrailTellsOutcome` (the events of a transaction come in one of
  three orders and tell its state), `HeldOnce` (in the queue or with the worker,
  once), `StatusIsFound` (a status query after submission finds the context),
  `StatsMatchOutcomes`;
- behaviour: `StateAdvances` (no decided transaction changes), `QueuedIsDecided`
  and `StopEndsWorker` (liveness), `RefinesLedger` (the system implements `Ledger`).

`event_store` checks that transactions are listed exactly, in order; that a loss
in the other indexes needs two threads creating the same list at the same time;
and that what queries return only grows. `saga` checks what a run leaves in
effect against its status, the order of steps and compensations, the dead letter
list, and that runs end.

`circuit_breaker` checks overlapping calls, late results and resets that fall among
and into them:

- `PlacesAreGivenBack`: the count of calls in progress is exact, however they end.
- `CountsMatchState`: no closed circuit stands at its threshold, except while a reset has
  written the state and not yet the count (`circuit_breaker.py:220`), or while the call
  that brought it there still has to open it; half open means fewer than two successes;
  and a circuit that is not closed has a failure from which to wait.
- `CircuitMoves`: the circuit moves for one of the code's reasons. A reset that falls
  between the decision to open or to try the circuit and the write is undone by that
  write, which does not need the breaker's lock to have been broken: the reset
  never takes it. The property allows this (`crossed`) and nothing else.
- `OpenIsTriedAgain`: an open circuit does not stay open.

`unit_of_work` checks the storage under any route:

- `SoleCopyIsWritten`: a commit stores what was last assigned to a record, unless the
  record is deleted or a second object of it is pending. The exception is real: every
  query puts its object on the update list, changed or not, and the last one wins.
- `UntypedRecordsAreFrozen`: records of classes that `_dict_to_model` does not know
  are never changed or removed once stored, whatever routes do. This states what the
  code does; `money_rules` shows a consequence that contradicts what it says.
- `AddedIdsAreFresh`: ids given at commit meet no stored record and no other addition.

`money` checks the requests together:

- `BalancesReconcile`: a balance is the opening one (the seeded balance less the seeded
  transactions) and the sum of the account's transactions, those deleted included, for
  accounts never transferred to themselves and without an amount that ended in half a
  cent. All three are hazards of the code: deleting a pending P2P payment returns
  nothing, a self-transfer creates money, and an instant payment of 1.50 from 3.01 posts
  1.52 and takes 1.51, since line and balance are rounded apart (`p2p.py:158`, `:170`).
- `CheckingNeverOverdrawn`: by no sequence of requests, for checking accounts that are
  not a business's. A business account is of whatever type it was made with
  (`business.py:778`), and neither the sign of an expense nor the funds for it are checked.
- `NotificationsNameTheirTransaction`: the id read before the commit is the right one
  while the class counter and the store agree; deleting the newest transaction ends that.
- `GoalsAddUp`: a goal holds what it was created with and its contributions less
  withdrawals, unless its amount was overwritten, its id was a deleted goal's or it was
  made with a negative amount (nothing forbids one, `core_models.py:279`, and adding to it
  can round the other way).
- `CreditIsNotOverAllocated`: the goals take no more of a credit than it brought and
  half a cent for each contribution. The half cent is real: what is left is worked out
  from unrounded shares (`goal_update_service.py:126`), so that of 0.05 a goal of 30 % and
  one of a fixed 0.05 take 0.02 and 0.04. Transactions other than credits are not
  shared out at all.
- `ValidatedSharesFit`: the percentages of an account exceed a hundred only after a
  goal of it was made active again, was given a percentage through `savings.py`, or was
  linked to the account after it was made (`savings.py:261`, `:701`), none of which validates
  anything.

`sessions` checks, in `TypeOK`, that the tables fit together and both limits hold, and
with `TimeoutsDecide` that a session past a timeout is never active again and never
costs a live one its place, although it is still stored.

The five violation runs are disagreements between the code and its own docs; each
is a finding in `PROJECT.json` with the line quoted.

Bounds. Two transactions and a queue of one place are enough for a full queue, a
transaction waiting while another is in any statement, and two that compete for
one wallet; the handlers share nothing but wallets and the log, so a third adds
no new pair. Any two spends of account `a`'s balance, or of its buying power,
exceed what it holds, so the overdraft check decides differently by order. Two
threads suffice for the event store since a race is between a test and a create.
Two runs of a saga are one failed run and its retry; three steps let compensation
fail before, at and after the middle. Four calls on three places with a threshold
of two let calls admitted before a transition end after it, with others refused.
Two objects in one unit of work are two copies of one record, two additions of one
class, or a copy and an addition; ids up to two let an id be freed and given again.
Three creations in `money` are, among others, a second goal and a credit shared by
both, a rule and its execution twice, or a payment, its deletion and another payment;
account 1 holds two amounts and a cent, so one spend leaves enough for a second and, with a
fee, not for both. With a hundred parts to the cent, 67 % of 1.50 is 1.005, the instant fee
makes 1.515 and one of the fees named 1.515 too, so that shares, payments and transfers all
meet half a cent, up and down. Two goals of 67 % exceed a hundred, one of them made in
debt and without an account may be linked later, and the negative expense adds to a balance. Updates name no status but active:
pausing a goal does what cancelling it does. Two sessions of a user fill the limit, a third must end one, and the
fourth id lets the other user be logged in meanwhile; a clock of four passes both
timeouts after a login at either of the first two ticks.

Deadlock is checked in `transactions` and `circuit_breaker`, where some thread can
always act, and in the runs of the routes, the storage and the sessions, where a
request can always come. In the others it is switched off: the event store stops at `MaxEvents`,
a saga system with no runs left has nothing to do, and the violation runs stop
when their clients are done.

Fairness. `transactions` assumes that the worker thread, once started, keeps
running and that a client inside `submit_transaction` finishes it; the operating
system schedules runnable threads, `get` has a timeout, and nothing in either
blocks. Nobody has to submit, start, stop or register. `QueuedIsDecided` is
conditional on the worker being started and not stopped from some point on. `saga`
assumes a run in progress is carried on by its thread, actions returning or
raising. `circuit_breaker` assumes that time passes, functions called end, callers keep
calling, and whoever holds the breaker's lock goes on; nobody has to reset the breaker,
finish a reset or read the state otherwise, although only a read moves an open circuit
on. The storage, the routes and the session manager run nothing by themselves: they state safety only and no fairness.

## Proofs

`TransactionProofs` proves of `Spec`, for every set of accounts, transactions,
threads and contexts, every opening balance and every queue size:

- `TypeCorrect`: `TypeOK`;
- `NoneLostNoneTwice`: `HeldOnce`;
- `OverdraftProtection`: `NoOverdraft`;
- `NoLostUpdate`: `ReadsAreCurrent`;
- `LifeCycle`: `StateAdvances`;
- `StatusFound`: `StatusIsFound`.

They rest on the named assumptions of the modules (`HandlerAssumption`,
`CoordinatorAssumption`), on nothing else. The inductive invariant `IInv` is
needed because none of these is inductive alone: `HeldOnce` says nothing of why
the worker does not hold a context that a client is about to be refused, and
`NoOverdraft` nothing of where the balance a handler holds comes from. `IInv`
adds to them `WorkerFits` and `ClientFits` (the state of a transaction follows
from the statement the worker or its client has reached) and `CallFits` (the
worker is in a handler exactly while it handles, for the transaction it holds, at
a statement its kind reaches). The lemma `Inductive` shows that every step keeps
`IInv`, action by action.

`StatsAreExact` (`StatsMatchOutcomes`) counts transactions, so its invariant `StatsFit`
says by how much each counter lags: `Lag` is one while the worker stands between
deciding a transaction and counting it, and zero otherwise.

It also proves `ImplementsLedger`: if no context transfers from an account
to itself (`NoSelfTransfer`), `Spec` implies `RefinesLedger`. Each step of the
system is shown to be a step of the ledger or a stutter: the last write of a
handler applies the transaction, a refusal or failure rejects it, everything else
changes nothing the ledger sees. The mapping counts the source wallet of a
transfer as not yet written until the target is. Without the assumption the claim
is false: such a transfer writes the credited balance over the debited one and
creates money (a hazard at `transaction_handler.py:86`).

And it proves what the whole log says:

- `LogIsTheTruth` (`ReplayRestoresFunds`) and `BalancesAreTrue`
  (`RecordedBalancesAreTrue`), both from `NoSelfTransfer`. The invariant `LogTells`
  says that a replay of the log gives the balances but for the writes that the worker
  has made and not yet recorded (`Unsaid`); `Written` says where the balance that the
  next event records comes from. A self-transfer breaks both: its two events are
  computed from one read (`transaction_handler.py:47-114`).
- `TrailsTellOutcomes` (`TrailTellsOutcome`), without a hypothesis. The invariant
  `TrailsFit` says which trail a transaction has at each statement of its client and of
  the worker (`AtHand`), and that the trail of any other is closed (`Aside`). Only the
  worker and the submitting client record events of a transaction, never both at once.

It says under which conditions two claims hold that the runs `handlers` and `adapter`
show false of the code as it may be used:

- `WorkerPreventsDoubleSpending` (`NoDoubleSpending`): one worker runs all handlers
  and no context transfers from an account to itself. Both are needed, the first because
  handlers in two threads check the same balance (`handlers`). What the log tells
  of a wallet is what it holds but for the writes not yet recorded (`LogTells`), and the
  worker has checked or read the balances those leave (`Written`, `CallFits`).
- `QueueMovesOnce` (`MovedAtMostOnce` under `Spec`), without a hypothesis: the queue never
  moves the money of a transaction twice. The invariant `MovedByWorker` adds that a
  transaction whose money has moved is completed or is the one the worker is about to
  complete, so that no handler begins for it again.
- `CallMovesOnce` (`MovedAtMostOnce` under `AdapterSpec`), as long as the worker is never
  started: the client's own call moves it once, for any number of clients at a time. The
  invariant `AdapterInv` adds that money has moved only for a client which has
  called and has its result or is past the write. So the second move that `adapter` finds
  can only be the worker's, of the context that the adapter leaves in the queue.

`EventStoreProofs` proves `TypeCorrect`; `LossNeedsARace` (`LossNeedsRacingCreation`):
a key whose list two threads never created at the same time lists every event that names
it; `NothingIsTakenBack` (`HistoryOnlyGrows`, an action property); and, if the events of a transaction
do not overlap (`Exclusive`, see above), `TrailsAreExact` (`TransactionTrailIsExact`).
The first rests on `Shape` and `Accounted`: an event is in the list of each of its keys
or its thread still has that key to do. The last adds `Trails`: the list of a
transaction is increasing, and whatever is missing from it is what the one thread
that has this transaction as its next key is about to add (`OneWriter`). Without
`Exclusive` it is false, as two threads can list two events of one transaction in the
wrong order.

`event_store_audit` shows that `AuditTrailIsComplete` is false. Two theorems say when it
is true: with a single recording thread (`OneThreadLosesNothing`), and with any number if
events of a transaction do not overlap and no two transactions have an account or a user
in common (`ApartLosesNothing`, from `TransactionsApart`). In both no two threads can
stand before the creation of one list (`NoRaceStep`), and then nothing is lost
(`NothingLost`). So an event is lost only where two transactions meet.

`BackendSagaProofs` proves, for callers that execute pending sagas only (`~Reexecute`),
`TypeCorrect`, `FailureStopsTheRun` (`StepsInOrder`), `StatusTellsEffects`
(`OutcomeTellsEffects`) and `LettersAreFailures` (`DeadletterIsFailed`), for any number
of sagas, steps, attempts and runs. The invariant joins `Typed`, `Letters` (the dead letters
are the failed sagas, each once), `Fits` (the run in
progress agrees with the record of its saga) and `Placed`: which steps are in
effect at each point of a run, from which end the compensation has come. Executing a
saga that ran (`Reexecute`) appends to its completed steps a second time
(`saga_pattern.py:178`), and none of the theorems is claimed of it.

`RollbackUndoesAll` adds the condition under which the claim that `saga_retry` refutes,
`RolledBackMeansUndone`, is true: nobody calls `retry_saga` on a saga that completed or failed
(`RunsAfterRollback`). The invariant `Clean` is that no run begins with effects that an
earlier one left, as a retry forgets them (`saga_pattern.py:266-275`); a run that ends
rolled back undoes its own.

`UnitOfWorkProofs` proves `TypeCorrect`, `AdditionsAreFresh` (`AddedIdsAreFresh`),
`UntypedFrozen` (`UntypedRecordsAreFrozen`) and `WritesAreCommitted`
(`SoleCopyIsWritten`) for every set of classes, contents and seeded stores and without
the bounds' values mattering, from `ClassesAssumption` and `SeedAssumption`. The
inductive invariant `Sound` says that the stores have bounded ids and that loaded
objects are on the update and delete lists and made ones on the list of additions;
that the ids are bounded is what makes the largest one a number, and the next one
fresh. The claim about writes needs a second invariant, `Held`: every uncommitted
assignment is the content of some object on the update list. With a single pending
object of the record it is the one that the commit writes last.

`SessionProofs` proves `TypeCorrect` and `TimeoutsAreDecisive` (`TimeoutsDecide`) for
all users, devices, session ids, limits and timeouts, from `SessionAssumption`. `TypeOK`
is inductive but for finiteness: the invariant adds that a user's sessions and devices
are finite sets, without which ending one of them does not make room. The longest
lemma, `CreateIInv`, follows a login through its four effects.

`CircuitBreakerProofs` proves `TypeCorrect`, `PlacesReturned` (`PlacesAreGivenBack`),
`CountsAgree` (`CountsMatchState`) and `StateMovesForAReason` (`CircuitMoves`) for
every finite set of calls and all parameters. The invariants are inductive together:
the exact count of calls in progress rests on which statement each call has reached, and
the other two on what the holder of the lock has found out before its write and whether a
reset has written since (`SectionsHold`; that one thread at most is inside a section
is part of `TypeOK`, named `LockHeld` in the proofs). Nothing is assumed of the two writes of a reset but their order.

`MoneyProofs` proves of the routes, for all users, accounts, amounts, seeds and bounds:

- `TypeCorrect` (`TypeOK`): every record that any sequence of requests leaves in a store
  is a record of its class, of an account there is; no account is made or lost; and a
  response has told of every stored rule;
- `NeverOverdrawn` (`CheckingNeverOverdrawn`): no sequence of requests takes a checking
  account that is not a business's below zero.

The proof follows the code: a request is a unit of work, built from session calls. The
first part shows what each call (`Open`, `Load`, `Record`, `Change`, `Delete`, `Commit`) does to a
`Sound` unit of work, one whose stores have bounded ids and admissible records, and whose
pending lists hold objects of the right kind with admissible data. A commit writes fresh
ids only, and the data of objects that are sound; an account loaded in this request and
changed to a covered balance (`Covers`) stays admissible through the calls that
follow. The second part takes each route through its calls: the checks the route makes are
on the balance the object then has. The goal service is an induction along the goals it
visits: `Proceeding` is what holds before each. The inductive invariant `Inv` is that the stores
are sound, with the accounts of the seed (`BooksSound`), and that `told` has the stored
rules; "no negative balance" alone is not inductive, since an object loaded with a stale
or a wrong balance could be written back. `Allowed` carries the claim in the type of an
account's record, so that every later step which preserves sound stores preserves it too.

Its hypotheses: `SeedAssumption` (the seeded stores are well formed and hold no rule
and no contribution, as `repositories/data_manager.py:47` starts with none) and
`RequestAssumption` (the amounts that requests name are positive, as the routes validate
them; a transfer fee and the amounts of a payroll and an expense may be any integers,
since nothing validates them, `entities/business_models.py:198`, `:237`) and `CentAssumption`
(a cent has a multiple of 100 parts). `NeverOverdrawn` also has `SeedCovered` (no checking account
starts overdrawn). The instance of the run `money` satisfies all of them.

Every amount that is stored is rounded, so the proofs rest on what rounding keeps: it
gives whole cents, leaves whole cents alone, does not lower what is not below a whole
amount, takes back what it adds except at half a cent, and moves nothing by more than half
a cent. The lemmas on `Rounded` and `SafeAdd` say so, and the rest cites them.

`MoneyRecordProofs` proves the other five invariants of the run `money`, for the same
constants. They relate what a request puts in several records, so that it is not enough
that each record is sound. The proof has three parts.

- What a commit leaves. `Ahead(v, c)` is the store of class `c` that a commit of the unit
  of work `v` would make. Each session call changes it as its name says: `Record` adds a
  record under the next id, an assignment to a loaded object replaces one, and all else
  stays (`CarryRecord`, `CarryAssign` and the lemmas around them). This is where the
  session's peculiarities are dealt with: an object loaded later is written over an
  earlier one of the same record, made objects get their ids at the commit, and records
  without a type are not written at all.
- What a route does. `Effect` says it of every request, on the records alone: one
  transaction posted with the balance of its account, or two with a notification each,
  or one deleted (`BooksEffect`); and a goal put, made, given or gone, or a credit fed to
  a list of goals (`GoalsEffect`). `StepEffect` proves it route by route, through the checks
  each makes. The loop of the goal service is followed by `Feeding`: before every goal,
  what the contributions made so far sum to, but for half a cent each, and what is left of
  the credit is no more than the amount.
- The five invariants, each from `Effect` alone:
  - `NotificationsAreTrue` (`NotificationsNameTheirTransaction`) from `NotesInv`: the
    class counter is never behind the store, and while it is not ahead either, every
    notification names a stored and completed transaction of its account; only a pending one
    can be deleted, so that status is what keeps it;
  - `BalancesAreReconciled` (`BalancesReconcile`) from `BalancesInv`, which adds that what
    is pending is no transfer of an account to itself and did not end in half a cent: one
    could be deleted, and the exception for such accounts would go with it;
  - `GoalsHoldTheirContributions` (`GoalsAddUp`) from `GoalsInv`, which adds that a
    contribution names a goal there is or was dropped, so that a new goal starts with
    none, and that a goal not made in debt never is, so that its amount and its
    contributions are rounded the same way;
  - `CreditsAreNotOverAllocated` (`CreditIsNotOverAllocated`) from `CreditInv`, which adds
    that a contribution made of a credit names a completed transaction: a credit starts
    with none, and its id is not given to another transaction later;
  - `ValidatedSharesStayFit` (`ValidatedSharesFit`) from `SharesInv`, the same claim about
    the sum of the shares as a function on the goals. It is inductive by itself; the work is
    that a validated share fits with those of the other goals, and that no other request
    raises the sum.

`Total` is a recursive function over ids, about which nothing can be proved by induction on
data. `Sums` characterises its partial sums by their equations, and `TotalDiffers`, by a
least counterexample, says how it changes with one entry; every sum in the five
invariants is compared with that lemma.

The hypotheses are on the seed and each is what the repository's seed has: `SeedNotesTrue`
(a notification names a completed transaction of its account; the seeded ones name none,
`data_manager.py:869`), `SeedPendingApart` (no pending transaction is a self-transfer or ended in half a
cent; seeded ones are completed, `data_manager.py:635`), `SeedCreditsWorthy` (no credit of a negative amount)
and `SeedSharesFit` (the shares of three goals of a quarter at most, `data_manager.py:808`).
`GoalsHoldTheirContributions` needs none. The instance of the run `money` satisfies all.

Induction over data. The library's induction theorems cannot be used, as they take an
operator as a parameter. Where a proof needs induction on a number or along a sequence
or a set, it takes the least counterexample instead: a non-empty set of naturals has a
least element (`LeastNatural`), so a set that holds 0 and with each number the next one is
everything (`UpTo`). The same gives that the recursive functions of the models exist
(`RecursionExists` and the lemmas named `...Exists`), from which their equations follow.

Every safety invariant and action property of the passing runs is a theorem. Only
model-checked:

- liveness (`QueuedIsDecided`, `StopEndsWorker`, `RunsEnd`, `OpenIsTriedAgain`), which is
  beyond the prover;
- what the violation runs show, which is false of the code as a whole. For four of the
  five claims a theorem states a restriction under which they hold: `NoDoubleSpending`,
  `MovedAtMostOnce`, `AuditTrailIsComplete` and `RolledBackMeansUndone`, see above. The
  fifth, `InactiveRulesAreNotExecuted`, has none: no stored rule is ever changed
  (`UntypedFrozen`), so no request can disable one.

## Not modelled

- Of the routes' files: shared goals (`savings.py:776`, two goals of two users made at
  once), updates of a goal's target, owner, fixed amount and priority (`savings.py:261` sets any attribute),
  percentages that are not whole numbers, the round-up transfer (`savings.py:868`, which nothing calls), details of transactions,
  P2P splits and payment requests (which store nothing), invoices.
- Bank linking (`banking.py`): it creates accounts with random transactions that are
  not meant to sum to the balance; `money` starts from seeded accounts only.
- `flush`, which assigns nothing, and what a query filters, joins, sorts or adds up.
  A contribution to a goal that names no account, followed by a withdrawal into one,
  creates money (`savings.py:425`); `BalancesReconcile` and `GoalsAddUp` hold of it,
  and no line of the code promises more.
- Routes that add, list or edit single records (budgets, cards, credit, subscriptions,
  insurance, loans, crypto, messages and others): each is a sequence of session calls,
  which `UnitOfWork` covers in any order, without the meaning of the records.
- The saga of `services/core/saga.py`, which no service runs; the service registry,
  clients and health checks, which are single assignments around HTTP calls; the
  gateway, which forwards requests.
- Event streaming and event sourcing: windows over timestamps and a hash chain,
  arithmetic in which one caller at a time acts.
- Authentication: passwords, tokens and database rows.
- Risk management (some 58,000 lines), analytics, valuation, monitoring and reports:
  they read and compute, or keep records nobody else changes. They are half of the
  code, and the reason why the modelled share of it is small.
- The frontend.

## Plan

Done, in this order: handlers, coordinator and ledger with their proofs; event store;
adapter; backend saga; circuit breaker and its proofs; memory sessions and their
proofs; account, goal and recurring routes; session manager and its proofs; the proofs
about the log, the event store, the backend saga and the routes.

Left, the most useful first:

1. Shared goals in `GoalRoutes`, with the owner of a goal apart from that of its account.
2. Event streaming, should several callers come to share its buffer.
