---------------------------- MODULE BankingService ----------------------------
(***************************************************************************)
(* services/banking_service.py: the bank that lives in memory, used by     *)
(* several threads ("Locks for multi-threaded safety").  A deposit or a    *)
(* withdrawal holds the lock of its account while it posts; the checks     *)
(* before, undo, account creation and the audit log hold no lock.          *)
(*                                                                         *)
(* A step is an access to shared state: under the GIL a single read or     *)
(* write of a dictionary, a list or an attribute is atomic, and threads    *)
(* switch in between.                                                      *)
(***************************************************************************)
EXTENDS Integers, Sequences, FiniteSets, FiniteSetsExt

CONSTANTS
  Threads,
  Accounts,      \* account ids
  Seeded,        \* accounts that _seed_demo_data creates
  Opening,       \* the initial deposit of each,
  Credited,      \* the deposit it makes to each afterwards, 0 for none
  SeedLoans,     \* and the loans it applies for
  Queued,        \* transactions enqueued before the threads start
  Jobs,          \* calls the threads may make
  TransferLimit, \* 50000 in the code
  MaxUndo,       \* max_size of UndoStack: 50 in the code
  MaxJobs        \* bound: calls made in one behaviour

Ops == {"create_account", "freeze_account", "deposit", "withdrawal", "transfer",
        "undo_last_transaction", "enqueue_transaction",
        "process_queued_transactions", "apply_loan", "process_next_loan"}

\* "rank" is the priority of a loan, "kind" the type of a queued transaction or
\* the decision on a loan.
Job == [op : Ops, account : Accounts, target : Accounts, amount : Int, rank : Int,
        kind : {"deposit", "withdrawal", "approved", "rejected", "other"}]

ASSUME JobsAssumption ==
  Jobs \subseteq Job /\ MaxJobs \in Nat
ASSUME AccountsAssumption ==
  /\ IsFiniteSet(Accounts) /\ Accounts # {} /\ Seeded \subseteq Accounts
  /\ Opening \in [Seeded -> Nat] /\ Credited \in [Seeded -> Nat]
  /\ SeedLoans \subseteq Jobs /\ Queued \in Seq(Jobs)
  /\ MaxUndo \in Nat \ {0} /\ TransferLimit \in Nat

VARIABLES
  built,      \* 0: no such account, 1: in account_table, 2: has a lock,
              \* 3: has a history, 4: has an undo stack
  balance, active,      \* the account's dictionary
  floor,                \* history: 0, or the debt the account was opened with
  history,              \* transaction_histories: newest first
  undo,                 \* undo_stacks: newest last
  lock,                 \* balance_locks: the thread that holds it
  transaction_queue,
  loan_queue,
  audit_logs, last_hash,
  pc, job, call, mem,   \* per thread: next step, outermost call, the deposit or
                        \* withdrawal inside it, its local variables
  asked,                \* calls made so far
  hashes,               \* audit entries hashed so far: each has a hash of its own
  stale,                \* history: threads whose check is out of date
  tainted,              \* history: accounts such a thread has posted to
  raced,        \* history: accounts that an undo or their creation changed while
                \* another thread did
  overlapped,   \* history: whether two audit entries were written at once
  net,          \* history: money that came in, less what went out
  lost          \* history: transfers withdrawn and then refused by the target

account == <<built, balance, active, floor, history, undo>>
queues == <<transaction_queue, loan_queue>>
audit == <<audit_logs, last_hash, hashes>>
ghosts == <<stale, tainted, raced, overlapped, net, lost>>
vars == <<account, lock, queues, audit, pc, job, call, mem, asked, ghosts>>

Free == "free"
ASSUME ThreadsAssumption == IsFiniteSet(Threads) /\ Free \notin Threads
Posting(kind, a, n) == [kind |-> kind, account |-> a, amount |-> n]
Outer(a) == Posting("none", a, 0)
NoCall == Outer(CHOOSE a \in Accounts : TRUE)
NoJob == [op |-> "none"]
Blank == [prev |-> 0, base |-> 0, link |-> <<>>, after |-> 0, undone |-> "none",
          amount |-> 0, payload |-> 0, prev_hash |-> 0, hash |-> 0]
Genesis == 0   \* the hash of the last audit entry of _seed_demo_data

\* A TransactionNode.  The type of an undo names what was undone.
Entry(type, amount, after) == [type |-> type, amount |-> amount, after |-> after]

SeedHistory(a) ==
  (IF Credited[a] > 0 THEN <<Entry("deposit", Credited[a], Opening[a] + Credited[a])>>
   ELSE <<>>)
  \o (IF Opening[a] > 0 THEN <<Entry("deposit", Opening[a], Opening[a])>> ELSE <<>>)
SeedUndo(a) ==
  IF Credited[a] > 0
  THEN <<[type |-> "deposit", amount |-> Credited[a], prev |-> Opening[a]]>> ELSE <<>>

\* The bank after _seed_demo_data and some enqueue_transaction.
Init ==
  /\ built = [a \in Accounts |-> IF a \in Seeded THEN 4 ELSE 0]
  /\ balance = [a \in Accounts |-> IF a \in Seeded THEN Opening[a] + Credited[a] ELSE 0]
  /\ active = [a \in Accounts |-> TRUE] /\ floor = [a \in Accounts |-> 0]
  /\ history = [a \in Accounts |-> IF a \in Seeded THEN SeedHistory(a) ELSE <<>>]
  /\ undo = [a \in Accounts |-> IF a \in Seeded THEN SeedUndo(a) ELSE <<>>]
  /\ lock = [a \in Accounts |-> Free]
  /\ transaction_queue = Queued
  /\ loan_queue = {[loan |-> l, count |-> 0] : l \in SeedLoans}
  /\ audit_logs = <<>> /\ last_hash = Genesis /\ hashes = 0
  /\ pc = [w \in Threads |-> "idle"] /\ job = [w \in Threads |-> NoJob]
  /\ call = [w \in Threads |-> NoCall] /\ mem = [w \in Threads |-> Blank]
  /\ asked = 0
  /\ stale = {} /\ tainted = {} /\ raced = {} /\ overlapped = FALSE
  /\ net = MapThenSumSet(LAMBDA a : balance[a], Accounts) /\ lost = 0

-----------------------------------------------------------------------------
(* Threads *)

Goto(w, label) == pc' = [pc EXCEPT ![w] = label]

\* The account a thread works on.
Of(w) == call[w].account

\* Labels at which a thread is changing an account.
Changing == {"prev", "read", "write", "link", "prepend", "push", "unlock", "pop",
             "restore", "lock_made", "history_made", "stack_made"}
Auditing == {"prev_hash", "last_hash", "append"}

\* A thread starts to change account a: one of the others may be at it.
Enters(a, others) ==
  raced' = IF \E v \in others : pc[v] \in Changing /\ Of(v) = a
           THEN raced \cup {a} ELSE raced

\* Threads that change an account without its lock.
Lockless == {v \in Threads : job[v].op \in {"undo_last_transaction", "create_account"}}

\* Threads that have checked account a and not posted yet.
Checked(w, a) ==
  {v \in Threads \ {w} : pc[v] \in {"lock", "prev", "read", "write"} /\ Of(v) = a}

Undoing(type) == IF type = "deposit" THEN "undo deposit" ELSE "undo withdrawal"

\* What a recorded operation adds to the balance.
Signed(type, amount) ==
  CASE type \in {"deposit", "undo withdrawal"} -> amount
    [] type \in {"withdrawal", "undo deposit"} -> -amount

\* A call returns to its thread, or raises.
Return(w) ==
  /\ Goto(w, "idle")
  /\ job' = [job EXCEPT ![w] = NoJob] /\ call' = [call EXCEPT ![w] = NoCall]
  /\ mem' = [mem EXCEPT ![w] = Blank]

\* The next call inside a call.
Continue(w, label, c) ==
  /\ Goto(w, label)
  /\ call' = [call EXCEPT ![w] = c] /\ mem' = [mem EXCEPT ![w] = Blank]
  /\ UNCHANGED job

\* A thread is done with a deposit or withdrawal, ok or refused, and goes on with
\* the call that asked for it.  (A transfer whose deposit was refused raises
\* KeyError after its audit entry, because d_result has no balance.)
Resume(w, ok) ==
  CASE job[w].op = "transfer" /\ call[w].kind = "withdrawal" /\ ok ->
         Continue(w, "check", Posting("deposit", job[w].target, job[w].amount))
    [] \/ job[w].op = "transfer" /\ call[w].kind = "deposit"
       \/ job[w].op = "process_next_loan" /\ call[w].kind = "deposit" ->
         Continue(w, "hash", NoCall)
    [] job[w].op = "process_queued_transactions" -> Continue(w, "dequeue", NoCall)
    [] OTHER -> Return(w)

-----------------------------------------------------------------------------
(* Calls *)

\* A thread calls an operation.
Begins(w, j, label, c) ==
  /\ pc[w] = "idle" /\ asked < MaxJobs /\ asked' = asked + 1
  /\ job' = [job EXCEPT ![w] = j] /\ call' = [call EXCEPT ![w] = c]
  /\ mem' = [mem EXCEPT ![w] = Blank]
  /\ Goto(w, label)

CallPosting(w, j) ==
  /\ j.op \in {"deposit", "withdrawal"}
  /\ Begins(w, j, "check", Posting(j.op, j.account, j.amount))
  /\ UNCHANGED <<account, lock, queues, audit, ghosts>>

CallTransfer(w, j) ==
  /\ j.op = "transfer" /\ j.amount <= TransferLimit
  /\ Begins(w, j, "check", Posting("withdrawal", j.account, j.amount))
  /\ UNCHANGED <<account, lock, queues, audit, ghosts>>

\* freeze_account, and its audit entry.
CallFreeze(w, j) ==
  /\ j.op = "freeze_account" /\ built[j.account] > 0
  /\ active' = [active EXCEPT ![j.account] = FALSE]
  /\ stale' = stale \cup Checked(w, j.account)
  /\ Begins(w, j, "hash", Outer(j.account))
  /\ UNCHANGED <<built, balance, floor, history, undo, lock, queues, audit, tainted,
                 raced, overlapped, net, lost>>

\* undo_last_transaction finds the stack empty or not.
CallUndo(w, j) ==
  /\ j.op = "undo_last_transaction" /\ built[j.account] = 4
  /\ undo[j.account] # <<>>
  /\ Enters(j.account, Threads \ {w})
  /\ Begins(w, j, "pop", Outer(j.account))
  /\ UNCHANGED <<account, lock, queues, audit, stale, tainted, overlapped, net, lost>>

CallEnqueue(w, j) ==
  /\ j.op = "enqueue_transaction"
  /\ pc[w] = "idle" /\ asked < MaxJobs /\ asked' = asked + 1
  /\ transaction_queue' = Append(transaction_queue, j)
  /\ UNCHANGED <<account, lock, loan_queue, audit, pc, job, call, mem, ghosts>>

CallProcessQueue(w, j) ==
  /\ j.op = "process_queued_transactions"
  /\ Begins(w, j, "dequeue", NoCall)
  /\ UNCHANGED <<account, lock, queues, audit, ghosts>>

\* apply_loan, and its audit entry.
CallApplyLoan(w, j) ==
  /\ j.op = "apply_loan"
  /\ loan_queue' = loan_queue \cup {[loan |-> j, count |-> asked]}
  /\ Begins(w, j, "hash", NoCall)
  /\ UNCHANGED <<account, lock, transaction_queue, audit, ghosts>>

\* The next loan is the one of the lowest priority number, the oldest of several.
Precedes(x, y) == \/ x.loan.rank < y.loan.rank
                  \/ x.loan.rank = y.loan.rank /\ x.count <= y.count

CallProcessLoan(w, j) ==
  /\ j.op = "process_next_loan"
  /\ \E next \in loan_queue :
       /\ \A other \in loan_queue : Precedes(next, other)
       /\ loan_queue' = loan_queue \ {next}
       /\ IF j.kind = "approved"
          THEN Begins(w, j, "check",
                      Posting("deposit", next.loan.account, next.loan.amount))
          ELSE Begins(w, j, "hash", NoCall)
  /\ UNCHANGED <<account, lock, transaction_queue, audit, ghosts>>

\* create_account publishes the account before it has a lock or a history.  Nobody
\* looks at the initial deposit: a negative one opens the account with a debt.
CallCreate(w, j) ==
  /\ j.op = "create_account" /\ built[j.account] = 0
  /\ built' = [built EXCEPT ![j.account] = 1]
  /\ balance' = [balance EXCEPT ![j.account] = j.amount]
  /\ floor' = [floor EXCEPT ![j.account] = IF j.amount < @ THEN j.amount ELSE @]
  /\ net' = net + j.amount
  /\ Begins(w, j, "lock_made", Outer(j.account))
  /\ UNCHANGED <<active, history, undo, lock, queues, audit, stale, tainted, raced,
                 overlapped, lost>>

-----------------------------------------------------------------------------
(* deposit and withdraw *)

\* Faulty: the status is not looked at.
RefusedUnlessThere(c) ==
  \/ built[c.account] = 0 \/ c.amount <= 0
  \/ c.kind = "withdrawal" /\ balance[c.account] < c.amount

\* Faulty: the funds are not looked at.
RefusedUnlessActive(c) ==
  built[c.account] = 0 \/ ~active[c.account] \/ c.amount <= 0

\* The conditions under which the two refuse.
Refused(c) ==
  \/ built[c.account] = 0 \/ ~active[c.account] \/ c.amount <= 0
  \/ c.kind = "withdrawal" /\ balance[c.account] < c.amount

Check(w) ==
  /\ pc[w] = "check"
  /\ \/ /\ Refused(call[w])
        /\ lost' = IF job[w].op = "transfer" /\ call[w].kind = "deposit"
                   THEN lost + call[w].amount ELSE lost
        /\ Resume(w, FALSE)
     \/ ~Refused(call[w]) /\ Goto(w, "lock") /\ UNCHANGED <<job, call, mem, lost>>
  /\ UNCHANGED <<account, lock, queues, audit, asked, stale, tainted, raced, overlapped,
                 net>>

\* Faulty: nobody waits for the lock.
LockAtOnce(w) ==
  /\ pc[w] = "lock"
  /\ lock' = [lock EXCEPT ![Of(w)] = w]
  /\ Enters(Of(w), Lockless \ {w})
  /\ Goto(w, "prev")
  /\ UNCHANGED <<account, queues, audit, job, call, mem, asked, stale, tainted,
                 overlapped, net, lost>>

\* An account that is still being created may have no lock yet.
Lock(w) ==
  /\ pc[w] = "lock"
  /\ \/ built[Of(w)] < 2 /\ UNCHANGED lock
     \/ /\ built[Of(w)] >= 2 /\ lock[Of(w)] = Free
        /\ lock' = [lock EXCEPT ![Of(w)] = w]
  /\ Enters(Of(w), Lockless \ {w})
  /\ Goto(w, "prev")
  /\ UNCHANGED <<account, queues, audit, job, call, mem, asked, stale, tainted,
                 overlapped, net, lost>>

Remember(w, label, m) ==
  /\ mem' = [mem EXCEPT ![w] = m] /\ Goto(w, label)
  /\ UNCHANGED <<account, lock, queues, audit, job, call, asked, ghosts>>

\* prev_balance, and the balance that += reads.
ReadPrev(w) == /\ pc[w] = "prev"
               /\ Remember(w, "read", [mem[w] EXCEPT !.prev = balance[Of(w)]])
ReadBalance(w) == /\ pc[w] = "read"
                  /\ Remember(w, "write", [mem[w] EXCEPT !.base = balance[Of(w)]])

WriteBalance(w) ==
  LET change == Signed(call[w].kind, call[w].amount) IN
  /\ pc[w] = "write"
  /\ balance' = [balance EXCEPT ![Of(w)] = mem[w].base + change]
  /\ stale' = (stale \cup Checked(w, Of(w))) \ {w}
  /\ tainted' = IF w \in stale THEN tainted \cup {Of(w)} ELSE tainted
  /\ net' = IF job[w].op = "transfer" THEN net ELSE net + change
  /\ Goto(w, "link")
  /\ UNCHANGED <<built, active, floor, history, undo, lock, queues, audit, job, call,
                 mem, asked, raced, overlapped, lost>>

\* KeyError: the account has no history or no undo stack yet.  The lock is
\* released and the whole call ends.
Raise(w) ==
  /\ \/ pc[w] = "link" /\ built[Of(w)] < 3
     \/ pc[w] = "push" /\ built[Of(w)] < 4
  /\ lock' = [a \in Accounts |-> IF lock[a] = w THEN Free ELSE lock[a]]
  /\ Return(w)
  /\ UNCHANGED <<account, queues, audit, asked, ghosts>>

\* _record_transaction: a new node points at the head, then it becomes the head.
Recorded(w) ==
  CASE job[w].op = "create_account" -> <<"deposit", job[w].amount>>
    [] job[w].op = "undo_last_transaction" -> <<mem[w].undone, mem[w].amount>>
    [] OTHER -> <<call[w].kind, call[w].amount>>
Link(w) ==
  /\ pc[w] = "link" /\ built[Of(w)] >= 3
  /\ Remember(w, "prepend", [mem[w] EXCEPT !.link = history[Of(w)],
                                           !.after = IF job[w].op = "create_account"
                                                     THEN job[w].amount
                                                     ELSE balance[Of(w)]])
Prepend(w) ==
  LET r == Recorded(w) IN
  /\ pc[w] = "prepend"
  /\ history' = [history EXCEPT ![Of(w)] = <<Entry(r[1], r[2], mem[w].after)>> \o mem[w].link]
  /\ Goto(w, IF call[w].kind = "none" THEN "hash" ELSE "push")
  /\ UNCHANGED <<built, balance, active, floor, undo, lock, queues, audit, job, call,
                 mem, asked, ghosts>>

\* A snapshot goes on the stack of thread w's account.
Pushes(w, kept, prev) ==
  /\ pc[w] = "push" /\ built[Of(w)] = 4
  /\ undo' = [undo EXCEPT ![Of(w)] =
       Append(kept, [type |-> call[w].kind, amount |-> call[w].amount, prev |-> prev])]
  /\ Goto(w, "unlock")
  /\ UNCHANGED <<built, balance, active, floor, history, lock, queues, audit, job, call,
                 mem, asked, ghosts>>

\* Faulty: the stack may grow one operation too long.
PushTooMany(w) ==
  LET s == undo[Of(w)] IN
  Pushes(w, IF Len(s) > MaxUndo THEN Tail(s) ELSE s, mem[w].prev)

\* Faulty: the snapshot is taken after the change.
PushLate(w) ==
  LET s == undo[Of(w)] IN
  Pushes(w, IF Len(s) >= MaxUndo THEN Tail(s) ELSE s, balance[Of(w)])

\* UndoStack.push forgets the oldest operation when it is full.
Push(w) ==
  LET s == undo[Of(w)] IN
  Pushes(w, IF Len(s) >= MaxUndo THEN Tail(s) ELSE s, mem[w].prev)

\* Faulty: the lock is kept.
UnlockNever(w) ==
  /\ pc[w] = "unlock" /\ Goto(w, "hash")
  /\ UNCHANGED <<account, lock, queues, audit, job, call, mem, asked, ghosts>>

Unlock(w) ==
  /\ pc[w] = "unlock"
  /\ lock' = [a \in Accounts |-> IF lock[a] = w THEN Free ELSE lock[a]]
  /\ Goto(w, "hash")
  /\ UNCHANGED <<account, queues, audit, job, call, mem, asked, ghosts>>

-----------------------------------------------------------------------------
(* undo_last_transaction and create_account *)

\* Another undo may have popped the last operation meanwhile (IndexError).
Pop(w) ==
  LET s == undo[Of(w)]
      op == s[Len(s)] IN
  /\ pc[w] = "pop"
  /\ IF s = <<>> THEN Return(w) /\ UNCHANGED undo
     ELSE /\ undo' = [undo EXCEPT ![Of(w)] = SubSeq(s, 1, Len(s) - 1)]
          /\ mem' = [mem EXCEPT ![w] = [@ EXCEPT !.prev = op.prev, !.amount = op.amount,
                                                !.undone = Undoing(op.type)]]
          /\ Goto(w, "restore") /\ UNCHANGED <<job, call>>
  /\ UNCHANGED <<built, balance, active, floor, history, lock, queues, audit, asked,
                 ghosts>>

Restores(w, b) ==
  /\ pc[w] = "restore"
  /\ balance' = [balance EXCEPT ![Of(w)] = b]
  /\ stale' = stale \cup Checked(w, Of(w))
  /\ net' = net + b - balance[Of(w)]
  /\ Goto(w, "link")
  /\ UNCHANGED <<built, active, floor, history, undo, lock, queues, audit, job, call,
                 mem, asked, tainted, raced, overlapped, lost>>

\* Faulty: the amount is taken off, whatever the operation was.
RestoreByTakingOff(w) == Restores(w, balance[Of(w)] - mem[w].amount)

Restore(w) == Restores(w, mem[w].prev)

\* The lock, the history and the undo stack of a new account; then its initial
\* deposit is recorded, if there is one.
Build(w) ==
  /\ pc[w] \in {"lock_made", "history_made", "stack_made"}
  /\ built' = [built EXCEPT ![Of(w)] = @ + 1]
  /\ Goto(w, CASE pc[w] = "lock_made" -> "history_made"
               [] pc[w] = "history_made" -> "stack_made"
               [] pc[w] = "stack_made" -> IF job[w].amount > 0 THEN "link" ELSE "hash")
  /\ UNCHANGED <<balance, active, floor, history, undo, lock, queues, audit, job, call,
                 mem, asked, ghosts>>

-----------------------------------------------------------------------------
(* The audit log *)

\* The hash covers the hash of the entry before, read without a lock.
Hash(w) ==
  /\ pc[w] = "hash"
  /\ hashes' = hashes + 1
  /\ mem' = [mem EXCEPT ![w] = [@ EXCEPT !.payload = last_hash, !.hash = hashes']]
  /\ overlapped' = (overlapped \/ \E v \in Threads \ {w} : pc[v] \in Auditing)
  /\ Goto(w, "prev_hash")
  /\ UNCHANGED <<account, lock, queues, audit_logs, last_hash, job, call, asked, stale,
                 tainted, raced, net, lost>>

PrevHash(w) == /\ pc[w] = "prev_hash"
               /\ Remember(w, "last_hash", [mem[w] EXCEPT !.prev_hash = last_hash])

\* Faulty: the last hash stays what it was.
LastHashForgotten(w) ==
  /\ pc[w] = "last_hash" /\ Goto(w, "append")
  /\ UNCHANGED <<account, lock, queues, audit, job, call, mem, asked, ghosts>>

LastHash(w) ==
  /\ pc[w] = "last_hash"
  /\ last_hash' = mem[w].hash
  /\ Goto(w, "append")
  /\ UNCHANGED <<account, lock, queues, audit_logs, hashes, job, call, mem, asked, ghosts>>

AppendLog(w) ==
  /\ pc[w] = "append"
  /\ audit_logs' = Append(audit_logs, [payload |-> mem[w].payload, hash |-> mem[w].hash,
                                       prev_hash |-> mem[w].prev_hash])
  /\ Resume(w, TRUE)
  /\ UNCHANGED <<account, lock, queues, last_hash, hashes, asked, ghosts>>

-----------------------------------------------------------------------------
(* process_queued_transactions *)

Dequeue(w) ==
  /\ pc[w] = "dequeue"
  /\ IF transaction_queue = <<>> THEN Return(w)
     ELSE Goto(w, "take") /\ UNCHANGED <<job, call, mem>>
  /\ UNCHANGED <<account, lock, queues, audit, asked, ghosts>>

\* Another thread may have emptied the queue: txn is None, which is a TypeError.
Take(w) ==
  LET txn == Head(transaction_queue) IN
  /\ pc[w] = "take"
  /\ IF transaction_queue = <<>>
     THEN Return(w) /\ UNCHANGED transaction_queue
     ELSE /\ transaction_queue' = Tail(transaction_queue)
          /\ IF txn.kind \in {"deposit", "withdrawal"}
             THEN Continue(w, "check", Posting(txn.kind, txn.account, txn.amount))
             ELSE Continue(w, "dequeue", NoCall)
  /\ UNCHANGED <<account, lock, loan_queue, audit, asked, ghosts>>

-----------------------------------------------------------------------------

Call(w, j) ==
  \/ CallPosting(w, j) \/ CallTransfer(w, j) \/ CallFreeze(w, j) \/ CallUndo(w, j)
  \/ CallEnqueue(w, j) \/ CallProcessQueue(w, j) \/ CallApplyLoan(w, j)
  \/ CallProcessLoan(w, j) \/ CallCreate(w, j)

Step(w) ==
  \/ Check(w) \/ Lock(w) \/ ReadPrev(w) \/ ReadBalance(w) \/ WriteBalance(w)
  \/ Link(w) \/ Prepend(w) \/ Push(w) \/ Unlock(w) \/ Raise(w)
  \/ Pop(w) \/ Restore(w) \/ Build(w)
  \/ Hash(w) \/ PrevHash(w) \/ LastHash(w) \/ AppendLog(w)
  \/ Dequeue(w) \/ Take(w)

Next == \E w \in Threads : Step(w) \/ \E j \in Jobs : Call(w, j)

Spec == Init /\ [][Next]_vars

\* The interpreter runs every thread that can run.
FairSpec == Spec /\ \A w \in Threads : WF_vars(Step(w))

-----------------------------------------------------------------------------
(* Properties *)

Labels == Changing \cup Auditing \cup {"idle", "check", "lock", "hash", "dequeue", "take"}

\* The type invariant; a lock is held by a thread between acquire and release.
TypeOK ==
  /\ built \in [Accounts -> 0 .. 4]
  /\ balance \in [Accounts -> Int] /\ active \in [Accounts -> BOOLEAN]
  /\ floor \in [Accounts -> Int]
  /\ pc \in [Threads -> Labels]
  /\ \A a \in Accounts : Len(undo[a]) <= MaxUndo
  /\ \A a \in Accounts, w \in Threads :
       lock[a] = w => /\ pc[w] \in {"prev", "read", "write", "link", "prepend", "push",
                                    "unlock"}
                      /\ Of(w) = a
  /\ \A n \in DOMAIN transaction_queue : transaction_queue[n] \in Jobs
  /\ last_hash \in 0 .. hashes /\ asked \in 0 .. MaxJobs

AtRest(a) == \A w \in Threads : pc[w] \in Changing => Of(w) # a

\* Undoing operation after operation walks back through the balances the account
\* had ("reversal of the last 50 operations"), unless an undo or the creation of the
\* account met another change.
UndoRestores ==
  \A a \in Accounts \ raced :
    LET s == undo[a]
        result(op) == op.prev + Signed(op.type, op.amount) IN
    AtRest(a) =>
      /\ s # <<>> => balance[a] = result(s[Len(s)])
      /\ \A n \in 1 .. Len(s) - 1 : s[n + 1].prev = result(s[n])

\* The newest entry of the history has the balance, and each entry explains how its
\* balance came from the one before, under the same proviso.
HistoryExplainsBalance ==
  \A a \in Accounts \ raced :
    LET h == history[a] IN
    AtRest(a) /\ h # <<>> =>
      /\ h[1].after = balance[a]
      /\ \A n \in 1 .. Len(h) - 1 : h[n].after = h[n + 1].after + Signed(h[n].type, h[n].amount)

\* When no call is under way, the accounts hold what came in less what went out and
\* less the transfers that were withdrawn and then refused by the target: transfer
\* does not put such money back.
MoneyIsConserved ==
  (\A w \in Threads : pc[w] = "idle") /\ raced = {} =>
    MapThenSumSet(LAMBDA a : balance[a], Accounts) = net - lost

\* An account goes below zero, or deeper than the debt it was opened with, only
\* where a withdrawal was overtaken between its check of the funds and its posting.
OverdraftOnlyWhereOvertaken ==
  \A a \in Accounts : balance[a] < floor[a] => a \in tainted

\* A frozen account is only posted to by a thread that checked it before the freeze.
PostingsStopAfterFreeze ==
  [][\A w \in Threads : pc[w] = "write" /\ pc'[w] = "link" /\ ~active[Of(w)] =>
                        w \in stale]_vars

\* verify_audit_chain.
Verified ==
  \A n \in DOMAIN audit_logs :
    LET prev == IF n = 1 THEN Genesis ELSE audit_logs[n - 1].hash IN
    audit_logs[n].payload = prev /\ audit_logs[n].prev_hash = prev

\* The chain of audit entries verifies as long as no two were written at once.
AuditChainVerifies == overlapped \/ Verified

\* Every call returns or raises: no lock is kept.
EveryCallEnds == \A w \in Threads : (pc[w] # "idle") ~> (pc[w] = "idle")
=============================================================================
