------------------------------ MODULE BankingDb ------------------------------
(***************************************************************************)
(* The money routes of api/routes/banking.py as they run: every request    *)
(* has a thread of its own and a SQLAlchemy session of its own, a step is  *)
(* one statement sent to the database together with the Python that runs   *)
(* until the next one, and other threads run between any two steps.        *)
(*                                                                         *)
(* A session keeps the balance it read for each row it fetched (the        *)
(* identity map) and the commit writes balances computed from those        *)
(* values.  On PostgreSQL a fetched row stays locked until the session     *)
(* commits or closes; on SQLite with_for_update() compiles to nothing.     *)
(***************************************************************************)
EXTENDS BankingRequests

CONSTANTS
  Workers,       \* the threads of FastAPI's pool that run sync handlers
  RowLocks,      \* TRUE: PostgreSQL; FALSE: SQLite, no lock is taken
  MaxRequests,   \* bound on the requests of one behaviour
  SeedRows, SeedOwner, SeedBalance   \* the accounts table at the start

ASSUME DbAssumption ==
  /\ RowLocks \in BOOLEAN
  /\ MaxRequests \in Nat
  /\ SeedRows \subseteq Accounts
  /\ SeedOwner \in [Accounts -> Users]
  /\ SeedBalance \in [Accounts -> Int]

VARIABLES
  rows, owner, balance,   \* the accounts table: ids, owner_id, balance
  opening,                \* history: the balance a row was created with
  ledger,                 \* the transactions table: net of an account's rows
  emi,                    \* the part of it that is rows of type emi
  pc, req,                \* per thread: where its handler is, its payload
  session,                \* per thread: identity map, row id -> balance read
  number,                 \* per thread: the id generated by create_account
  reply,                  \* per thread: the last answer it sent
  asked                   \* the number of requests so far

table   == <<rows, owner, balance, opening, ledger, emi>>
threads == <<pc, req, session, number, reply, asked>>
vars    == <<table, threads>>

NoRequest == [endpoint |-> "none", account |-> None, counterparty |-> None]

Empty == [a \in {} |-> 0]

Init ==
  /\ rows = SeedRows /\ owner = SeedOwner
  /\ balance = SeedBalance /\ opening = SeedBalance
  /\ ledger = [a \in Accounts |-> 0] /\ emi = [a \in Accounts |-> 0]
  /\ pc = [w \in Workers |-> "idle"]
  /\ req = [w \in Workers |-> NoRequest]
  /\ session = [w \in Workers |-> Empty]
  /\ number = [w \in Workers |-> None]
  /\ reply = [w \in Workers |-> "none"]
  /\ asked = 0

-----------------------------------------------------------------------------
(* Row locks *)

\* Faulty form: both routes lock the paying account first.
FirstAsSent(r) == r.account

\* user_transfer locks the lower id first; create_transaction locks the paying
\* account and then the counterparty, whatever their order.
First(r) == IF r.endpoint = "user_transfer" /\ r.counterparty < r.account
            THEN r.counterparty ELSE r.account
Second(r) == IF First(r) = r.account THEN r.counterparty ELSE r.account

\* The Transaction row a handler adds.  create_user_transaction leaves the
\* counterparty out, create_transaction copies it for every type.
TransactionRow(r) ==
  [account |-> r.account, type |-> Kind(r), amount |-> r.amount,
   counterparty |-> IF r.endpoint = "create_user_transaction"
                    THEN None ELSE r.counterparty]

\* The row a thread must lock to go on.  Inserting a Transaction row locks the
\* accounts rows its foreign keys name.
Wanted(w) ==
  CASE pc[w] = "begin"  -> First(req[w])
    [] pc[w] = "second" -> Second(req[w])
    [] pc[w] = "commit" -> TransactionRow(req[w]).counterparty
    [] OTHER -> None

Locks(w) == IF RowLocks THEN DOMAIN session[w] ELSE {}

BlockedBy(w, v) == /\ v # w
                   /\ pc[w] \in {"begin", "second", "commit"}
                   /\ req[w].endpoint # "create_account"
                   /\ Wanted(w) \in Locks(v)

\* Faulty form: the first row is read without waiting for its lock.
BlockedOnSecondOnly(w) ==
  pc[w] # "begin" /\ \E v \in Workers : BlockedBy(w, v)

Blocked(w) == \E v \in Workers : BlockedBy(w, v)

\* w waits in a circle of threads that wait for each other.
Deadlocked(w) == \E S \in SUBSET Workers :
                   w \in S /\ \A u \in S : \E v \in S : BlockedBy(u, v)

-----------------------------------------------------------------------------
(* The handlers *)

Goto(w, l) == pc' = [pc EXCEPT ![w] = l]

\* Faulty form: nothing ends the transaction.
EndTransactionNever(w) == session' = [session EXCEPT ![w] = @]

\* A commit, rollback or close expires what the session read and releases its
\* row locks.
EndTransaction(w) == session' = [session EXCEPT ![w] = Empty]

Submit(w, r) ==
  /\ pc[w] = "idle" /\ asked < MaxRequests
  /\ asked' = asked + 1
  /\ req' = [req EXCEPT ![w] = r]
  /\ reply' = [reply EXCEPT ![w] = "none"]
  /\ Goto(w, "begin")
  /\ UNCHANGED <<table, session, number>>

\* Refused before any row is fetched.
Reject(w) ==
  /\ pc[w] = "begin" /\ Malformed(req[w])
  /\ Goto(w, "refused")
  /\ UNCHANGED <<table, req, session, number, reply, asked>>

\* _get_account_with_lock: wait for the row lock, then read the row unless the
\* session already has it.  An id without a row locks nothing and reads None.
Fetch(w, id) ==
  /\ ~Blocked(w)
  /\ session' = [session EXCEPT ![w] =
       [a \in DOMAIN session[w] \cup ({id} \cap rows) |->
          IF a \in DOMAIN session[w] THEN session[w][a] ELSE balance[a]]]
  /\ UNCHANGED <<table, req, number, reply, asked>>

\* The checks of the two handlers that look at the account after one fetch; s
\* is the identity map.
RefusedFirst(r, s) ==
  /\ r.endpoint # "user_transfer"
  /\ \/ r.account \notin DOMAIN s
     \/ r.account \in Frozen
     \/ /\ r.endpoint = "create_user_transaction"
        /\ r.user \notin Staff /\ owner[r.account] # r.user
     \/ r.type = "withdrawal" /\ s[r.account] < r.amount

FetchFirst(w) ==
  /\ pc[w] = "begin" /\ ~Malformed(req[w])
  /\ req[w].endpoint # "create_account"
  /\ Fetch(w, First(req[w]))
  /\ Goto(w, IF RefusedFirst(req[w], session'[w]) THEN "refused"
             ELSE IF IsTransfer(req[w]) THEN "second" ELSE "commit")

\* Faulty form: the balance goes unchecked.
RefusedSecondNoFunds(r, s) ==
  {r.account, r.counterparty} \cap (DOMAIN s \ Frozen)
    # {r.account, r.counterparty}

\* Faulty form: only the status of the paying account is checked.
RefusedSecondFrozenTarget(r, s) ==
  \/ {r.account, r.counterparty} \cap DOMAIN s # {r.account, r.counterparty}
  \/ r.account \in Frozen
  \/ s[r.account] < r.amount

\* The checks of user_transfer, and those create_transaction makes once it has
\* the counterparty: both rows exist and are active, the payer is the owner's,
\* the balance covers the amount.
RefusedSecond(r, s) ==
  \/ {r.account, r.counterparty} \cap (DOMAIN s \ Frozen)
       # {r.account, r.counterparty}
  \/ /\ r.endpoint = "user_transfer"
     /\ r.user \notin Staff /\ owner[r.account] # r.user
  \/ s[r.account] < r.amount

FetchSecond(w) ==
  /\ pc[w] = "second"
  /\ Fetch(w, Second(req[w]))
  /\ Goto(w, IF RefusedSecond(req[w], session'[w]) THEN "refused" ELSE "commit")

\* What a Transaction row says happened to account a.
Posted(t, a) ==
  (IF a = t.account /\ t.type \in {"deposit", "interest"} THEN t.amount ELSE 0)
  + (IF a = t.counterparty /\ t.type = "transfer" THEN t.amount ELSE 0)
  - (IF a = t.account /\ t.type \in {"withdrawal", "emi", "transfer"}
     THEN t.amount ELSE 0)

\* db.add(tx); db.commit(): one UPDATE per row whose balance changed, with the
\* value computed from what the session read, and one INSERT.  All of it
\* becomes visible at once and the locks are gone.
CommitPosting(w) ==
  LET r == req[w]
      t == TransactionRow(r)
  IN /\ pc[w] = "commit" /\ r.endpoint # "create_account"
     /\ ~Blocked(w) /\ t.counterparty \in rows \cup {None}
     /\ balance' = [a \in Accounts |->
          IF a \in DOMAIN session[w] /\ Change(r, a) # 0
          THEN session[w][a] + Change(r, a) ELSE balance[a]]
     /\ ledger' = [a \in Accounts |-> ledger[a] + Posted(t, a)]
     /\ emi' = [a \in Accounts |->
          emi[a] + IF a = t.account /\ t.type = "emi" THEN t.amount ELSE 0]
     /\ EndTransaction(w)
     /\ Goto(w, "refresh")
     /\ UNCHANGED <<rows, owner, opening, req, number, reply, asked>>

\* Faulty form: the number is generated but not kept.
GenerateNumberLost(w) ==
  /\ pc[w] = "begin" /\ req[w].endpoint = "create_account"
  /\ Goto(w, "commit")
  /\ UNCHANGED <<table, req, session, number, reply, asked>>

\* create_account: generate numbers until one is not in the table ...
GenerateNumber(w) ==
  /\ pc[w] = "begin" /\ req[w].endpoint = "create_account"
  /\ \E a \in Accounts \ rows : number' = [number EXCEPT ![w] = a]
  /\ Goto(w, "commit")
  /\ UNCHANGED <<table, req, session, reply, asked>>

\* Bound of the model: it has finitely many ids.  Without a free one the request
\* breaks, where the code would search on among four billion.
NoNumberLeft(w) ==
  /\ pc[w] = "begin" /\ req[w].endpoint = "create_account"
  /\ Accounts \subseteq rows
  /\ Goto(w, "failed")
  /\ UNCHANGED <<table, req, session, number, reply, asked>>

\* ... and insert the row, if nobody took the number in between.
CommitAccount(w) ==
  LET a == number[w]
  IN /\ pc[w] = "commit" /\ req[w].endpoint = "create_account"
     /\ a \notin rows
     /\ rows' = rows \cup {a}
     /\ owner' = [owner EXCEPT ![a] = req[w].user]
     /\ balance' = [balance EXCEPT ![a] = req[w].amount]
     /\ opening' = [opening EXCEPT ![a] = req[w].amount]
     /\ Goto(w, "refresh")
     /\ UNCHANGED <<ledger, emi, req, session, number, reply, asked>>

\* The INSERT breaks a constraint: the unique account_number, or the foreign
\* key of a counterparty that does not exist, 0 included.
ConstraintFails(w) ==
  /\ pc[w] = "commit"
  /\ IF req[w].endpoint = "create_account"
     THEN number[w] \in rows
     ELSE TransactionRow(req[w]).counterparty \notin rows \cup {None}
  /\ Goto(w, "failed")
  /\ UNCHANGED <<table, req, session, number, reply, asked>>

\* PostgreSQL ends a deadlock by failing one of its members.  The except branch
\* of _get_account_with_lock then queries again in the aborted transaction,
\* which raises too: the handler never goes on without the lock.
VictimAborts(w) ==
  /\ Deadlocked(w)
  /\ Goto(w, "failed")
  /\ UNCHANGED <<table, req, session, number, reply, asked>>

\* Any statement can raise: a lost connection, a restart of the process.  After
\* the commit only db.refresh() is left to fail.
Fail(w) ==
  /\ pc[w] \in {"begin", "second", "commit", "refresh"}
  /\ Goto(w, "failed")
  /\ UNCHANGED <<table, req, session, number, reply, asked>>

\* The response, and db.close() in get_db's finally, which rolls back.
Finish(w) ==
  /\ pc[w] \in {"refresh", "refused", "failed"}
  /\ reply' = [reply EXCEPT ![w] = CASE pc[w] = "refresh" -> "ok"
                                     [] pc[w] = "refused" -> "refused"
                                     [] OTHER -> "error"]
  /\ req' = [req EXCEPT ![w] = NoRequest]
  /\ EndTransaction(w)
  /\ number' = [number EXCEPT ![w] = None]
  /\ Goto(w, "idle")
  /\ UNCHANGED <<table, asked>>

Handler(w) ==
  \/ Reject(w) \/ FetchFirst(w) \/ FetchSecond(w) \/ CommitPosting(w)
  \/ GenerateNumber(w) \/ NoNumberLeft(w) \/ CommitAccount(w)
  \/ ConstraintFails(w) \/ VictimAborts(w) \/ Finish(w)

\* The bound on requests is used up and every thread is done.
Quiet == /\ asked = MaxRequests /\ \A w \in Workers : pc[w] = "idle"
         /\ UNCHANGED vars

Next ==
  \/ \E w \in Workers : \/ \E r \in Payloads : Submit(w, r)
                        \/ Handler(w) \/ Fail(w)
  \/ Quiet

Spec == Init /\ [][Next]_vars

\* The thread pool keeps running every handler, and PostgreSQL queues the
\* requests for a row lock: a thread that can get the lock again and again
\* gets it.
FairSpec == /\ Spec
            /\ \A w \in Workers : SF_vars(Handler(w))

-----------------------------------------------------------------------------
(* Properties *)

Labels == {"idle", "begin", "second", "commit", "refresh", "refused", "failed"}

\* The type invariant: every variable keeps its shape, and a session only holds
\* rows that exist.
TypeOK ==
  /\ rows \subseteq Accounts
  /\ owner \in [Accounts -> Users]
  /\ balance \in [Accounts -> Int] /\ opening \in [Accounts -> Int]
  /\ ledger \in [Accounts -> Int] /\ emi \in [Accounts -> Nat]
  /\ pc \in [Workers -> Labels]
  /\ req \in [Workers -> Payloads \cup {NoRequest}]
  /\ DOMAIN session = Workers
  /\ \A w \in Workers : /\ DOMAIN session[w] \subseteq Accounts
                        /\ session[w] \in [DOMAIN session[w] -> Int]
  /\ number \in [Workers -> AccountIds]
  /\ reply \in [Workers -> {"none", "ok", "refused", "error"}]
  /\ asked \in 0 .. MaxRequests

\* With row locks no two handlers hold the same account row at once
\* (_get_account_with_lock, "prevents race conditions").
LocksExclusive ==
  \A v, w \in Workers : v # w => Locks(v) \cap Locks(w) = {}

\* With row locks the balance a handler checked is still the balance of the row
\* when it acts on it, at every step until it commits: no stale read.
ReadsCurrent ==
  \A w \in Workers : \A a \in Locks(w) : a \in rows /\ session[w][a] = balance[a]

\* Every balance is what the account was opened with plus what its committed
\* Transaction rows say: no handler's update is lost and none is left unrecorded
\* (models/db_models.py: every deposit, withdrawal, transfer, interest payment
\* and EMI creates a Transaction record).
LedgerAgrees == \A a \in Accounts : balance[a] = opening[a] + ledger[a]

\* Concurrent withdrawals and transfers never overdraw an account.  Only EMI
\* rows, which create_transaction posts without looking at the balance, and a
\* negative initial deposit can take a balance below zero, by no more than
\* their own amount.
NoOverdraft ==
  \A a \in Accounts :
    balance[a] + emi[a] >= IF opening[a] < 0 THEN opening[a] ELSE 0

\* Owners' requests never wait for each other in a circle (user_transfer: "Lock
\* both accounts in consistent order to prevent deadlocks"): every circle has a
\* create_transaction in it.
OwnersNeverDeadlock ==
  \A S \in SUBSET Workers :
    /\ S # {}
    /\ \A u \in S : \E v \in S : BlockedBy(u, v)
    => \E w \in S : req[w].endpoint = "create_transaction"

\* The comment taken at its word: no user_transfer is ever in a deadlock.
UserTransferNeverDeadlocks ==
  \A w \in Workers : req[w].endpoint = "user_transfer" => ~Deadlocked(w)

\* Every request is answered, however the threads contend for rows.
EveryRequestAnswered ==
  \A w \in Workers : (pc[w] # "idle") ~> (pc[w] = "idle")

\* The handlers keep the promise of Bank.  A user_transfer whose first row does
\* not exist is as good as refused already while it locks the second.
PhaseOf(l, r, s) ==
  CASE l = "refresh" -> "applied"
    [] l = "refused" -> "denied"
    [] l = "failed"  -> "broken"
    [] l = "second"  -> IF First(r) \in DOMAIN s THEN "asked" ELSE "denied"
    [] l \in {"begin", "commit"} -> "asked"
    [] OTHER -> "idle"

Phase == [w \in Workers |-> PhaseOf(pc[w], req[w], session[w])]

Promise == INSTANCE Bank WITH request <- req, phase <- Phase

\* Interleaved and interrupted in any way, the handlers decide each request in
\* one atomic step on the accounts table of that moment.
KeepsPromise == Promise!Spec
=============================================================================
