# Nexus Bank: TLA+ verification

Nexus Bank is a FastAPI back end (`bank_system/`) on PostgreSQL or SQLite and
Redis, with a React front end (`frontend/`). This directory holds TLA+ models of
its core logic, the TLC runs that check them and the proofs TLAPS checks.

    tlc -workers 2 -config BankingDb.cfg MCBankingDb     # a run
    tlapm BankingDbProofs.tla                            # a proof module

`PROJECT.json` lists the components, the runs, the source lines every definition
models, the faulty forms each property must catch, the hazards and the theorems.

## 1. Inventory

Paths are relative to `src/bank_system/` unless they start with `frontend/`.

| Component | State | Operations | Talks to |
|---|---|---|---|
| Money routes (`api/routes/banking.py`, `core/db.py`, `schemas/banking.py`) | `accounts` and `transactions` tables; per request a SQLAlchemy session (identity map, row locks) | create_account, create_transaction, create_user_transaction, user_transfer; loans; lifecycle views | the tick and other handlers, through the tables |
| Simulation (`simulation/engine.py`) | its own session, `consecutive_errors` | a tick: one random transaction, EMIs of active loans, fraud score, AML scan, broadcast | writes the same tables without row locks; WebSocket manager |
| In-memory bank (`services/banking_service.py`, `models/models.py`) | accounts, histories, undo stack, loan and transaction queues, hash-chained audit log | deposit, withdraw, transfer, undo, loan queue, audit verification | `services/imperial_api.py` calls it |
| Sessions and login (`api/routes/auth.py`, `core/security.py`) | users, user_sessions, OTPs in Redis | register, login, verify_otp, refresh (rotation), logout, revoke, password reset | Redis, e-mail |
| Rate limiter (`middleware/rate_limiter.py`) and Redis stand-in (`core/redis_client.py`, `core/redis_dsa.py`) | sorted sets of request times, keys with expiry | sliding window, get/set/incr/expire, pipelines, activity list, fraud queue | every request |
| Event bus (`core/event_bus.py`) and WebSocket manager (`core/realtime.py`) | subscribers, history, error list; connections | publish, subscribe, unsubscribe; connect, disconnect, broadcast | handlers, the tick |
| Data structures (`data_structures/`) | BST, hash table, priority queue, linked list, queue, stack, graph, trie, sorts | insert, search, delete, traversals | the in-memory bank, DSA admin routes |
| Notifications, bill pay, WebAuthn, feature flags, OAuth (`api/routes/notifications.py`, `services/*_service.py`, `services/feature_flags.py`) | rows or dictionaries per user | create, read, cancel, pause, resume, begin and finish ceremonies | front end |
| Engines (`engines/`, `services/*_engine.py`, `services/ml_fraud_engine.py`, `services/loan_scoring.py`) | graph of accounts, model files | scores, scans, forecasts | read the tables |
| API client (`frontend/src/api.js`) | tokens, `isRefreshing`, queue of failed requests | attach token, refresh once on 401, retry the queue | auth routes |
| Sign-in (`frontend/src/context/AuthContext.jsx`, `App.jsx`, `pages/auth`) | who is signed in (memory and localStorage), a password that waits for a code; the forms | log in, verify a code, register, ask for a reset, log out, reload; guards of the routes | auth routes, every screen |
| Payment pages (`frontend/src/pages/customer`: Transfer, FirstTransaction, TransactionLifecycle, BillPay, MultiCurrency) | React hooks: form, step, receipt, list | pay, schedule, pause, cancel, convert, follow a receipt | banking, bill pay and currency routes |
| Customer pages (Dashboard, Accounts, Transactions, Markets, Notifications, Cards, Goals, Profile, assistants) | lists that were fetched, pages and filters, sessions, chats | fetch, filter, turn, mark read, revoke a session, ask | their routes |
| Administration pages (`frontend/src/pages/admin`) | users, flags, events, backups, cards | lock, unlock, toggle, restore, list | administration routes |
| Layouts, globe, public pages (`frontend/src/layouts`, `Globe.jsx`, `pages/public`) | toasts, bell, menus, theme; arcs, feed, frames; a counter | messages of the WebSocket, animation | WebSocket, timeouts |
| Server-rendered pages (`frontend/static/js`, `frontend/templates`) | token, toasts, lists | log in, fetch one list after another | the same routes |

What is hard, and what makes each component correct:

* **Money routes.** FastAPI runs sync handlers in a thread pool. Two handlers meet
  at every statement; a handler may die at every statement; PostgreSQL may pick it
  as deadlock victim. Correct: each request takes effect as one atomic step or not
  at all; no update is lost; no withdrawal or transfer overdraws; every request is
  answered.
* **Simulation.** A writer that takes no lock before it reads. Correct: no negative
  balance from its own postings; drift only where it was overtaken; no new
  deadlock; the loop always comes back.
* **In-memory bank.** Per-account locks, but the checks before them, the undo stack
  and the audit chain are outside. Correct: sequentially, undo restores and the
  chain verifies; concurrently, overdrafts only where a check was overtaken.
* **Sessions.** Check-then-act across statements and across Redis and SQL: rotation
  of refresh tokens, failure counters, OTP attempts.
* **Rate limiter and Redis stand-in.** A pipeline of four commands per request; the
  stand-in's expiry semantics differ from Redis.
* **Event bus.** Subscribers change while an event is delivered; errors are
  contained; history is bounded.
* **Data structures.** Each agrees with a mathematical object (a set, a map, a
  sorted sequence, the shortest distances) after any sequence of operations.
* **API client.** One refresh for many 401s; every queued request settles.
* **Sign-in.** The context outlives the screens, and its calls are answered late or not
  at all. Correct: no guarded screen without its user; one request of a form at a time;
  no stored session that the back end has already ended.
* **Pages.** A handler may run between a call and its answer, answers overtake one
  another, and the screen may be gone. Correct: no spinner waits for nothing; a write whose
  button is disabled meanwhile goes out once; what a screen reports is what the back end did; what it shows in the end
  is what the back end has, unless an answer was overtaken.

The hazards, line by line, are in `PROJECT.json` ("hazards").

## 2. Modules

| Module | What it is |
|---|---|
| `BankingRequests` | request bodies, what each does to balances, the checks that make it acceptable |
| `Bank` | abstract specification: a request is decided in one step on the current table |
| `BankingDb` | the four handlers statement by statement, sessions, row locks, failures |
| `BankingDbProofs` | types, lock exclusion, fresh reads, ledger, overdraft, no deadlock of owners' requests, and that `BankingDb` implements `Bank`: proofs |
| `Simulation` | the tick composed with the handlers of `BankingDb` |
| `ApiClient` | the axios instance of the front end in several tabs, and the server's tokens |
| `ApiClientProofs` | one refresh at a time, rotation, bounded retries: proofs |
| `SimulationProofs` | types, drift, solvency and lock order of the tick: proofs |
| `BankingService` | the in-memory bank, its calls running in several threads |
| `BankingServiceProofs` | types, overdraft, freeze, audit chain, undo, history and conservation of money: proofs |
| `Counting` | least numbers, totals of a function over a set, ranks in a set of numbers: lemmas |
| `Screen` | one mounted React screen: hooks, calls in flight, timeouts, the server behind it |
| `Transfer`, `FirstTransaction`, `BillPay`, `MultiCurrency` | the payment pages and the routes they post to |
| `Listings`, `CustomerScreens`, `AdminScreens` | the pages that list; customer and administration pages that change something |
| `LiveScreens` | layouts, globe, landing and contact page: what moves by itself |
| `LegacyPages` | the scripts of the server-rendered pages |
| `Pages` | all these screens together, and what each of them must keep |
| `SignIn` | the auth context, the guards, the sign-in forms and the session rows behind them |
| `ScreenProofs` | what the sequences of calls and timeouts of `Screen` do, and what a call leaves that is made, answered or back: lemmas |
| `SignInProofs` | types, guards, one sign-in at a time, live sessions: proofs |
| `PagesProofs` | types, guarded writes that go out once, no spinner without a cause, receipts, what a screen shows once nothing is under way, pages of a list, arcs and toasts: proofs |
| `MCBankingDb`, `MCSimulation`, `MCApiClient`, `MCBankingService`, `MCPages` | payload mixes, seed rows, tabs, calls and lists for TLC |

`Simulation` extends `BankingDb`; `Transfer` to `LegacyPages` and `SignIn` extend `Screen`;
`Pages` extends the screens.

### BankingDb

State and code: `rows`, `owner`, `balance` are the accounts table (`models/db_models.py`
Account); `ledger[a]` is the net effect of the Transaction rows on account `a` and
`emi[a]` the EMI part of it; `session[w]` is the identity map of the session thread
`w` got from `get_db`, and its domain is the set of rows `w` has locked when
`RowLocks` is TRUE; `pc[w]` is the next statement of the handler; `reply[w]` its last
answer. `opening` remembers what an account was opened with.

A step is one SQL statement with the Python up to the next one: `Submit` (the request
arrives), `Reject` (refused before any row is read), `FetchFirst` and `FetchSecond`
(`_get_account_with_lock`, then the checks), `CommitPosting` (UPDATEs, INSERT and
COMMIT; nothing is flushed before because `autoflush=False`), `GenerateNumber` and
`CommitAccount` (create_account), `ConstraintFails`, `VictimAborts`, `Fail`, `Finish`
(answer, `db.close()`). An `UPDATE` writes the value computed from `session[w]`, as
SQLAlchemy does, so that without locks updates are lost.

What PostgreSQL does is external: a locked row makes the others wait; an INSERT into
`transactions` locks the rows its foreign keys name; a circle of waiting threads
fails one of them; a failed statement makes every later one of that transaction fail,
so the `except` branch of `_get_account_with_lock` never goes on without the lock.

`Absent` is what Python takes for no id: NULL (`None`) and 0. `user_transfer` refuses both;
`create_transaction` looks 0 up for a transfer, finds nothing, and for the other types leaves it
to the foreign key, so that the INSERT fails (`ConstraintFails`) where a NULL is stored.

Simplifications: amounts are integers (the columns are Numeric(19, 4); conversion of
floats is not modelled); the account number and the primary key are one id; GET
routes are left out; descriptions and currencies are left out.

### Simulation

`TickRead` is `db.query(Account).all()` and the random choices, `TickPost` the first
commit, `TickScore` the fraud score, `TickLoan` one turn of the EMI loop,
`TickUpdate` and `TickCommitEmis` the second commit, `TickScan` the AML scan,
`TickBroadcast` the rest of the loop, `TickRaise` an exception at any of them. The
member `Sim` of `Workers` is the tick's thread: its `session` holds the rows its
UPDATEs have locked, so the handlers of `BankingDb` wait for it without change.
`paid[a]` is what the EMI loop has taken from account `a` so far, in the session only.
`stale` remembers where a handler committed between the tick's read and its write.

### ApiClient

`isRefreshing[t]` and `failedQueue[t]` are the variables of that name in `api.js`, one
pair per browser tab; `storage` is localStorage and `jar` the cookies, both shared by
the tabs; `page[t]` is where `window.location` is going. `call[r]` is one axios request:
where it is, its `_retry` mark, the Authorization header it carries, the cookie it was
sent with, the refresh token it redeems. Token pair `n` is the n-th that the server
issued; `alive` are the access tokens that have not expired. `redeemed`, `lost` and the
fields `attempts` and `refused` are history.

JavaScript runs to completion, promise callbacks included, so a step is what one answer
sets off: `Send` (request interceptor), `Succeed`, `Refuse`, `Fail`, `GiveUp` (answers to a
call), `Enqueue` and `StartRefresh` (the two branches on a first 401), `Adopt` (the new
tokens: store, `processQueue(null, ...)`, retry) and `Abandon` (the refresh failed:
`processQueue(error)`, `localStorage.clear()`, the login page), `Reload` (that page has loaded).
Between `StartRefresh` and its end every other answer can arrive, late 401s included.
The server's side is `Renew` and `Deny` (`/auth/refresh`) and the check of a token in
`get_current_user`. `Renew` may accept any token: a revoked session row is not looked at, so
the rotation is the client's to respect. Whether a refresh is denied is left open.
`Abandon` of a granted refresh is an answer that was lost on the way.

A behaviour starts after a login and a tab that shows the login page does nothing more:
`login`, `verifyOtp` and `logout` of `AuthContext.jsx` are in `SignIn`. Refresh tokens do not expire by themselves; `Deny` stands for it.

### BankingService

`balance`, `active` and `built` are the dictionary of an account and how far
`create_account` has come with it; `history`, `undo` and `lock` are its linked list, undo
stack and `threading.Lock`; the two queues, `audit_logs` and `last_hash` belong to the
service. `job[w]` is the call that thread `w` makes, `call[w]` the deposit or withdrawal
inside it, `mem[w]` the local variables of that one.

A call starts with a `Call...` action and goes on in steps between which other threads run:
`Check` (the early returns, before the lock), `Lock`, `ReadPrev`, `ReadBalance`,
`WriteBalance`, `Link` and `Prepend` (`_record_transaction`), `Push`, `Unlock`; `Pop` and
`Restore` (undo, which takes no lock); `Build` (the rest of `create_account`); `Hash`,
`PrevHash`, `LastHash`, `AppendLog` (`_audit`); `Dequeue` and `Take`
(`process_queued_transactions`). `Resume` is the return of a deposit or withdrawal into the
call that made it. `Raise` is the `KeyError` of an account that is not built yet; the
`finally` clause releases its lock. Each step is one read or write that another thread can
tell apart; the reads of one `Check`, the rounding after the `+=` (amounts are
integers) and the inside of `UndoStack.push` are not split further.

Neither `create_account` nor its caller (`imperial_api.py:280`) looks at the initial deposit:
a negative one opens the account with a debt. `floor[a]` is 0 or that debt (history), and
`OverdraftOnlyWhereOvertaken` compares with it.

History variables say where the code gives no guarantee: `stale` and `tainted` (a check was
overtaken before its posting), `raced` (an undo or a creation met another change of the
account), `overlapped` (two audit entries were written at once). Two postings never count
as raced, so the properties do depend on the locks. `lost` adds up the transfers whose target
refused: `transfer` does not look at `d_result["success"]`, so the withdrawn money is gone,
and `MoneyIsConserved` holds only less that sum.

No route of this commit creates a `BankingService`; `Threads` are the callers that "Locks
for multi-threaded safety" is written for.

### Screen and the pages

`screen` is the open route and `hooks` the values of its `useState` hooks, a field per hook
under the name it has in the code. `calls` are the API calls whose promises are pending and
`timers` its `setTimeout`s; `server` is what the routes behind the screen keep, and `past`
is history: "failed", "overtaken", "outlived", "edited" (inputs changed under a request),
"overlapped" (two changes at once).

A handler, an effect or a promise callback is one step, because JavaScript runs it to
completion and React applies its updates together. The helpers of `Screen` are the ways
code of the pages moves: `Set`, `SetAndSend`, `SetAndDelay` (handlers), `Resolve` (the code
after an `await`), `Fire` (a timeout), `Mount` (leaving and opening). The server's steps
are `Read` (a GET), `Write` (a POST or PATCH, with the rows it leaves), `Reject`, and `Lose`
(the work was done, the answer lost). A call of an unmounted component stays (`live` is FALSE):
the server still does the work, the callback still sends what it sends, but sets nothing.
`overtaken` marks an answer that arrives after that of a later call of the same callback.

`Pages` opens one screen per behaviour, with the links between `FirstTransaction` and its
receipt; screens share nothing but the server, so that a behaviour of one of them is
one of the whole. A figure that is only displayed is left out; a value that decides a
branch, a payload or a later request is kept. Lists are kept as what the screens tell apart
(empty or not, demo or fetched, by status).

### SignIn

`auth` is the context: the user in memory, the user and session in localStorage, the
password that waits for a code. It outlives the screens: `Settled` applies an answer to
the context first and then lets the guards look (`Dest` is `ProtectedRoute` and
`AdminRoute`); `Left` (of `Screen`) is what remains of the calls, `Kept` of the timeouts, when
a screen goes (the `navigate('/dashboard')` 600 ms after a sign-in comes whatever is open).
`HandleLogout` does not await `logout()`; `Reload` drops what was in memory, a log-out under
way included, and marks that as "cut". `LoginServe`, `VerifyServe`, `RegisterServe`,
`LogoutServe` are the statements of `routes/auth.py` on users, session rows and codes. A
password is whose it is; a reload is always possible.

## 3. Runs

| Run | Question | Bounds |
|---|---|---|
| `bank_db` | Do the handlers keep the promise of `Bank` on PostgreSQL? | 2 threads, 3 requests, 27 bodies, 3 seeded accounts (one frozen) and one free id |
| `bank_circle` | Is user_transfer free of deadlocks, as its comment says? (no) | 2 threads, 3 bodies: a transfer of an owner, the opposite one of staff, a withdrawal |
| `bank_sqlite` | Are updates safe on SQLite, as the comment says? (no) | as `bank_db`, owners' bodies |
| `simulation` | Is the tick a good neighbour of the handlers? | the tick and 1 thread, 2 requests, 2 ticks, 3 loans (two on one account) |
| `simulation_lost_update` | Does the tick respect the locks, as the docstring says? (no) | as `simulation` |
| `api_client` | Does every tab refresh once at a time, forget no call and respect the rotation? | 2 tabs, 3 calls (two of them in one tab), with and without cookies |
| `api_client_hang` | Does the timeout "prevent hanging requests", as the comment says? (no) | as `api_client` |
| `api_client_header` | Is a call always "retried with new token", as the header comment says? (no) | as `api_client` |
| `banking_service` | What do the locks of the in-memory bank guarantee, and where do they end? | 2 threads, 2 calls out of 15 on the seeded bank, one of 3 accounts not created yet |
| `pages` | Does any screen wait for nothing, send a guarded write twice, or report what did not happen? | 2 calls and 4 timeouts at a time; per screen 1 or 2 postings, 1 bill, 2 accounts, 2 currencies, 2 users; toasts 1, arcs 1, feed 2 instead of 4, 12, 8 |
| `transfer_page` | Is what the payment page posts accepted, as the README says? (no) | as `pages` |
| `sign_in` | Do the guards and the stored session survive late and lost answers? | 2 users (one with a second factor, not registered at first; one an admin), 2 calls, 1 timeout, 2 sessions |

Two threads are enough for every conflict of two handlers, and the proofs cover any
number. Three requests let one thread answer twice around a step of the other. The
bodies hold every endpoint and type, both directions of a transfer, self transfers,
missing, frozen and foreign accounts, the id 0 for a counterparty, amounts that fit once
but not twice, a deposit that names a counterparty and a negative initial deposit. In
`simulation` both accounts have a loan, one of them two, and just enough money for one
instalment after a withdrawal.

In `banking_service` two calls meet in every order of their steps, and a call may hold
several postings (transfer, queue, loan). More calls add no new conflict: what an
earlier call leaves behind is in the initial state (an undo snapshot, a loan, a queued
transaction, a full balance), and the invariants speak about every snapshot and
history entry instead of waiting for the undo that would use them.

In `pages` two calls in flight are the least that can overtake each other, and the most any
handler sends at once is two; four timeouts are more than any limit of `LiveScreens`, so
that toasts, arcs and the feed all meet theirs. The limits are smaller than in the source
(named `ToastLimit`, `ArcLimit`, `FeedLimit`) because only the step from one element below
to one above a limit matters. `SYMMETRY` permutes the ids of accounts: no screen and no
route chooses among them by anything but the user's choice, and the run checks invariants
only. In `sign_in` two calls let a log-out meet a log-in and two sessions let an old one
be mixed up with a new one.

**Fairness.** `FairSpec` is strong fairness of every handler's steps without `Fail`: the
thread pool keeps running its threads, and PostgreSQL serves the queue of a row lock,
so a thread that can get the lock again and again gets it. Nothing is fair about new
requests or failures. The tick adds strong fairness of its own steps (the event loop
wakes it) and weak fairness of the deadlock detector.

`ClientSpec` is weak fairness of what an answer, or the timeout of the axios instance, sets
off in each call, and of the page load. The refresh has no timeout, so only `FairSpec`
assumes that its connection ends somehow; `EveryCallSettles` holds under `FairSpec` and is
refuted under `ClientSpec`. No fairness makes the server grant anything or a token expire.

In `api_client` two calls of one tab meet around one refresh, and the other tab renews
with the same stored token in between. A call is sent at most once more per refresh of
its tab (`NoRetryStorm`), so the tokens need no bound.

In `BankingService`, `FairSpec` is weak fairness of every thread's steps: the interpreter
runs all threads. A lock is only ever waited for by a thread that holds none.

`pages` and `sign_in` state no fairness: a request of a page may stay unanswered for as long as
the API client lets it, the user need not do anything, and the properties are safety
properties. That a spinner ends is there `BusyHasCause`: the call or the timeout that ends
it is pending.

**Deadlock checking** is on for the back end; `Quiet` is the state in which the bound on
requests is used up and everybody is idle. The runs of `ApiClient` switch it off: once its
calls have settled, a browser has nothing to do. So does `banking_service`, where every
thread may be done. It is on for `pages` and `sign_in`.

## 4. Findings

* `bank_circle`: `user_transfer` orders its locks "to prevent deadlocks", but
  `create_transaction` locks in payload order: a staff transfer 2 to 1 (locks at 187 and
  205) and a user transfer 1 to 2 wait for each other's row, and one fails.
* `bank_sqlite`: the fall-back to SQLite's "file-level locks" holds no lock between
  the read and the write; an update is lost.
* `simulation_lost_update`: the tick reads without FOR UPDATE and overwrites what a
  handler committed in the meantime.
* `api_client_hang`: the refresh is posted without the instance's timeout; while the
  server does not answer, every call of the tab that meets a 401 waits behind it.
* `api_client_header`: the request interceptor keeps a header that is there, so without
  cookies the retry presents the token that was just refused.
* `transfer_page`: README.md:302 has `POST /api/banking/transfer` "execute atomic internal/wire
  transfer", but Transfer.jsx:35 posts `from_account_id` and `to_account_id` where
  schemas/banking.py:27 requires `account_id`: every transfer of the page is a 422.

Met while modelling, true of the code and kept by the models, without a document that
says otherwise:

* The Schedule button of `BillPay.jsx` (line 263) stays live while its request is under way: a
  second click posts the form again, and two payments are scheduled. `OneWriteAtATime` leaves
  it out for that reason.
* `create_account` of the in-memory bank takes a negative initial deposit
  (banking_service.py:235), an overdraft without any race.
* `ForgotPassword.jsx` renders its code inputs from `value.padEnd(6, '')`, which pads nothing:
  there is no input, and the third and fourth step cannot be reached.
* Deposits and withdrawals of `Transfer.jsx` are 403 for customers. The accounts it falls
  back to when the list cannot be fetched have ids that real accounts have too.
* The wallet of `MultiCurrency.jsx` is replaced by the demo wallet by its own interval.
* When more toasts arrive than are shown, the timeouts of the hidden ones take the later
  ones away early (DashboardLayout.jsx:149).
* A page that is reloaded while its log-out is under way keeps a stored session that the
  back end has ended ("cut" in `SignIn`).
* `TransactionLifecycle.jsx` keeps the data or the error of the old transaction when the
  address changes.
* The user who signs in by e-mail address is sent a code that cannot be verified: the
  second request carries the address as the user name.
* The way back from the code in `Login.jsx` leaves the request under way, whose late answer
  signs in or shows the code again.

Several properties hold only up to what the code gives up, and say so by a history variable:
`lost` (answers and transfers), `raced`, `overlapped`, `tainted`, and the members of `past`
("failed", "overtaken", "overlapped", "outlived", "edited"). They show where the damage ends, not that
there is none; the "note" of each such hazard in `PROJECT.json` names the part that is
exempt.

Hazards without a property: counters of failed log-ins, the reset of a password, the sliding window of the rate limiter,
subscribers of the event bus, sizes of the BST: their components are not modelled (section 6).
Nor has a bill that is scheduled twice, against which the code does nothing. `PROJECT.json`
names the line of each.

## 5. Proofs

All theorems hold for any sets of accounts, users, threads and payloads that satisfy
the named assumptions (`AccountsAssumption`, `PayloadsAssumption`, `StaffAssumption`,
`DbAssumption`), which TLC evaluates in every run of `BankingDb`. `RowLocks` is an
assumption of all but the first.

* `TypeCorrect`: `[]TypeOK`. Inductive: `Typed`, which adds that a busy thread serves
  a payload and that a new account has a number (`Known`).
* `RowsLockedOnce`, `NoStaleRead`: the inductive invariant `Isolated` says, besides, that
  a handler about to commit has made every check on the rows it holds (`Checked`).
  Neither fact is inductive alone: exclusion keeps reads fresh when another handler
  commits, and checks stay true because reads stay fresh.
* `LedgerIsComplete`, `NobodyOverdraws`: from `Isolated`; a new account needs that no
  Transaction row moved its money before (`Untouched`).
* `HandlersImplementBank`: `Spec => Promise!Spec`. `Phase` maps a handler to Bank: a
  commit is the decision; a fetch that fails a check is the refusal; a
  `user_transfer` whose first row does not exist is refused before it locks the
  second.
* `OwnersAreDeadlockFree`: every row an owner's handler holds is below the one it wants
  (`Orderly`, `HeldIsBelowWanted`). Where ids are bounded one member of a circle wants the
  greatest row, yet the member it waits for wants a greater one.

The theorems about `Simulation` (`SimAssumption`) assume `RowLocks`, except for the types;
bounded account ids (`Accounts \subseteq 1 .. M`) where they speak about circles; and, where
they speak about solvency, that nobody posts an EMI or opens an account with a debt
(`SolventInputs`).

* `SimTypeCorrect`: `SimTyped`. `StepCases` and `HandlerFrame` come first: a step of a handler
  is a step of `BankingDb` that leaves the tick's variables alone, so the lemmas of
  `BankingDbProofs` are used as they are.
* `OnlyOvertakenTicksDrift`: `SimIsolated` is `SimTyped` with `Isolated`, which the tick's UPDATEs
  keep because they wait for row locks as well; `Agreeing` adds `Untouched`, that a row which
  is not there yet has no money moved. `paid` is kept per account, so that the statement
  needs no sum over loans.
* `TicksAreSolvent`: `Solvent` adds that what the tick is about to write is not negative,
  however old it is.
* `TicksKeepLockOrder`: `Ordered`: rows the tick holds are below those it still has to lock
  (`Ascending`), and the handlers are `Orderly`.

The theorems about `BankingService` hold for any accounts, calls and threads
(`AccountsAssumption`, `JobsAssumption`, `ThreadsAssumption`: a process has finitely many
threads).

* `BankTypeCorrect`: `Inv`, which is `Typed` (where each thread is and what it remembers),
  `Building` (an account under construction has one builder) and `Holding` (a lock names
  the thread that is past `Lock`).
* `OverdraftNeedsARace`, `FreezeStopsPostings`: `Paid` = `Inv`, `Current` (a check that was not
  overtaken is still true) and `Funds` (balances and everything an undo may put back are
  not below `floor`, which only falls: `FloorsFall`, `StaysSolvent`). Nothing is assumed of the
  amounts of the calls.
* `AuditChainHolds`: `Chained`, which says what a thread between its reads and its append
  knows of the chain's end while entries were never written at once.
* `UndoWalksBack`, `HistoryIsExact`: `Kept` adds to `Paid` that an account under construction
  has somebody who completes it (`Made`, `Standing`), that an account no undo or creation
  has raced with is changed by one thread at a time (`Alone`), and that history, balance and
  undo stack differ exactly by the writes this thread has yet to make (`KeepsOf`).
* `MoneyIsKept`: `Conserved` adds to `Kept` that the two halves of a transfer have one amount
  (`Halves`), that an account which is not there has no money (`Empty`) and that the accounts
  together with what each thread has taken and not yet delivered (`Load`) come to `net - lost`
  (`Balanced`). The sum over accounts is the fold of `FiniteSetsExt`, and how a total changes
  with one summand needs an induction on the size of a set. The induction theorems of the library
  take an operator, so `Counting` argues by the least counterexample (`LeastNumber`, from the
  well-foundedness of the naturals): `TotalChange`, cited for the accounts and for the threads.

The theorems about `SignIn` hold for any users, roles and bounds.

* `GuardsAlwaysHold`: every step leaves the screen and the context alone or ends at `Dest` of
  the new context.
* `SignInTypeCorrect`, `OneSignInWaits`, `SessionsStayLive`: the inductive invariant `SInv`.
  `OneForm` says that a screen waits for one live call or one social sign-in, never both, and
  shows that it does; `OnTheirWay` that a session an answer brings is its user's, valid, not in
  use and not being logged out, and that no two answers bring the same one; `InUse` that the
  stored session is valid or a log-out of it is under way. `InUse` is not inductive without
  `OnTheirWay`, since a late answer may replace the session, and a log-out must not hit one
  that is about to be stored.

The theorems about `Pages` hold for any accounts, amounts, bills, currencies, rows, flags,
sessions and bounds that satisfy `BoundsAssumption`, `BillsAssumption` (room for the one
payment that the server may begin with), `CurrenciesAssumption` (the empty input and the one
the page starts with are inputs), `PerPageAssumption` (the rows are sequences) and `LimitsAssumption`.

* `PagesInvariant`: `PagesInv`. `Base` says of every screen that its calls are of a kind that it
  makes (`OwnCalls`) and that no two live ones do a job of `Writes`; then one conjunct per family
  of screens, because a busy flag must be tied to its call, a receipt to the ledger, an answer to
  the rows it was made of, a form to the request it sent. `Only` lemmas (`TransferOnly`, ...,
  `LegacyOnly`) show that no family steps on another's screen, which is why the conjuncts can be
  proved one family at a time. The primitives of `Screen` come first (`Made`, `Ended`, `Answered`,
  `Dropped`, in `ScreenProofs`): what each leaves of a sequence of calls.
* `OneWriteHolds`, `BusyHasCauseHolds`, `PagesTypeHolds`, `ReceiptHolds`: from `PagesInv`.
  `OneWriteHolds` speaks of the writes whose button is disabled or replaced (`Writes`).
  A busy flag has its cause because an answer that sets it down is the only step that takes the
  call away; "edited" in `past` is what a form changed under a request leaves, and without it
  the request in flight and the form agree.
* `PageHasRowsHolds`: `ListInv`, the part of `PagesInv` about the listings. The page begins with
  a row or is the first one (`PageGood`); it is the first one while the list loads, since no
  button is there, and at most one call is waited for, so rows never come in under a later
  page. That the page then holds a row is `RankExists` of `Counting`: among the rows that are
  left there is one with as many before it as the earlier pages hold.

* `TransientsHold`: `TransientInv`. Besides what is shown it says that a frame is asked for exactly
  once while the globe turns and that no more arcs are in the air than payments were made: then
  the arc whose time is up is the oldest one (`NextArc`), so taking it out leaves the newest
  (`NewestDismiss`), or it has made room already and nothing goes (`NewestKept`). `TimesAppend` and
  `TimesRemove` count the timeouts of a kind as they are set and fire. A toast is only
  tied to the number of its timeouts, since a message can push it out before its own fires.
* `FreshHolds`: a second inductive invariant, `FreshInv`, on top of `PagesInv`. That a screen is right
  when it rests says nothing while calls are under way, so each family gets what its calls owe it,
  as long as `past` knows of nothing that went wrong but an edited form (`Clean`), which excuses
  none of them:
  - `FirstTransaction`, the lifecycle, `BillPay`, the flags and the lists of the console fetch again
    after each change. Where no fetch is awaited the screen is right; where some are, the one that
    was sent last brings what the back end has, unless a later one came back before it
    (`InOrder`), of which history then knows. Only a change under way, after which the screen fetches again, or a receipt in
    front of the list excuses it (`Excused`). The order of `calls` matters here, so the primitives
    of `Screen` say more: `TakenOut` keeps the order and marks what was overtaken, `Extended`
    appends.
  - `UserManagement` writes back the list that it saw. It is right because one call at a time is
    awaited and an update was made on what the back end has (`UserOrder`).
  - `Notifications` and `Profile` change their lists before or after the back end does: each item is
    shown as it is or as a mark under way will make it (`Truly`); each session that was revoked is
    gone from the list or the answer that takes it off is on its way (`Gone`).
  - `Transfer` has its accounts or awaits them (`OffersInv`): posting changes balances, which its list
    does not show, and never which accounts there are. A page that the server renders and that
    says nothing has all its lists or awaits the next (`ListsInv`). The listings need no more than
    `ListInv`.

  Each family has a lemma `...Fresh` for its steps; `FreshAnswers`, `FreshKeeps` and `FreshBegins`
  join them, and `FreshElsewhere` says that a family that is not on screen owes nothing.

The theorems about `ApiClient` hold for any tabs and any finite set of calls
(`CallsAssumption`), with and without cookies.

* `Types`, `OneRefreshAtATime`, `NoCallForgotten`: the inductive invariant `Serial` relates
  the flag and the queue to the states of the calls; `Tidy` adds that a reloaded tab has
  nothing under way. Flag and queue are only inductive together: the end of a refresh
  empties the queue of exactly the calls that wait.
* `RotationIsRespected`, `RetriesUseNewToken`: `Rotating`. A granted pair is in nobody's
  hands (`Unseen`), so storing it puts a token in place that nobody redeemed; until then
  the spent token stays readable, but only while that answer is on its way (`Spent`,
  `Remembered`), when the tab starts no other refresh.
* `RetriesEnd`: `Completed` counts, for every call, the refreshes of its tab that are over.

Only model-checked: `EveryRequestAnswered`, `TickEnds`,
`RequestsAnsweredDespiteTicks`, `EveryCallSettles`, `EveryCallEnds` (liveness is beyond the
prover). Every invariant and every action property of a passing run has its theorem.

## 6. Not modelled

* **Pages.** The third and fourth step of `ForgotPassword` (no input leads there);
  decoration, made-up figures and the intervals that redraw them; fields that are only
  shown; tables, charts and maps.
* **Sessions.** The counter of failed log-ins and the lock-out, the rows of the session list,
  the reset of a password, how passwords and codes are made. `SignIn` and `ApiClient` have
  the answers the front end depends on.
* **Money routes.** Loans, and the lifecycle of a transaction, which is computed from its age
  and keeps nothing.
* **Rate limiter, Redis stand-in, event bus, WebSocket manager, data structures.** Planned
  below; nothing else modelled here depends on more of them than the tick's broadcast.
* **Ids and calendar of bill payments, roll-out of flags by user, exchange rates.** The pages
  see their answers only.
* **Passkeys, OAuth.** No page uses passkeys; OAuth is a call to an outside provider.
* **Engines, forecasting, scoring, analytics.** Floating-point summaries of tables they only
  read; `Simulation` keeps that they may raise between two commits.
* **Export, e-mail, configuration, start-up, headers, logging, deployment, load tests.** Input
  and output, or read once.

## 7. Plan

1. `Sessions`: log-in counters, codes, reset and refresh rotation as statements of SQL and
   Redis, and the refinement from it to the server of `SignIn`.
2. `RateLimiter` with `FakeRedis`, `EventBus` with the connection manager; one MC module
   runs them side by side.
3. Data structures against reference definitions over bounded inputs (BST, hash table,
   heap, graph, trie, sorts). Two places to look at first: `Trie.delete` answers
   whether a node was pruned where its docstring says whether the word existed
   (trie.py:66), and the loan queue subtracts an urgency its comment makes negative for
   urgent loans (priority_queue.py:31).
4. The small services behind the pages: bill payment ids, the creation of notifications.
