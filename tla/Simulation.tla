----------------------------- MODULE Simulation -----------------------------
(***************************************************************************)
(* simulation_loop of simulation/engine.py running beside the handlers of  *)
(* BankingDb: every few seconds a thread posts one random transaction and  *)
(* the EMIs of the active loans.  It reads account rows without FOR UPDATE *)
(* and writes the balances it computed when its session is flushed.        *)
(***************************************************************************)
EXTENDS BankingDb

CONSTANTS
  Sim,           \* the member of Workers that is the thread of the tick
  SimAmounts,    \* the random amounts
  Loans,         \* the loans whose status is active (no route sets it)
  LoanAccount,   \* the account of a loan
  EmiAmount,     \* its monthly instalment
  MaxTicks       \* bound on the ticks of one behaviour

ASSUME SimAssumption ==
  /\ Sim \in Workers
  /\ SimAmounts \subseteq Nat \ {0}
  /\ LoanAccount \in [Loans -> SeedRows]
  /\ EmiAmount \in [Loans -> Nat \ {0}]
  /\ MaxTicks \in Nat

VARIABLES
  tick,     \* where the tick is
  choice,   \* the random transaction: account, type, amount, value to write
  due,      \* the active loans it has not looked at yet
  copy,     \* the account rows in its session while it deducts EMIs
  paid,     \* the EMI rows in its session: their sum for each account
  errors,   \* consecutive_errors
  ticks,    \* the number of ticks so far
  stale     \* history: accounts whose row changed between the tick's read
            \* and its write

simVars == <<tick, choice, due, copy, paid, errors, ticks, stale>>
allVars == <<vars, simVars>>

NoChoice == [account |-> None]

NothingPaid == [a \in Accounts |-> 0]

InitSim ==
  /\ Init
  /\ tick = "sleep" /\ choice = NoChoice
  /\ due = {} /\ copy = Empty /\ paid = NothingPaid
  /\ errors = 0 /\ ticks = 0 /\ stale = {}

\* Faulty form: the tick's transaction is left open.
EndTickNever == session' = [session EXCEPT ![Sim] = @]

\* The tick's transaction commits or rolls back: its row locks are released.
EndTick == session' = [session EXCEPT ![Sim] = Empty]

AtTick(from, to) == tick = from /\ tick' = to

-----------------------------------------------------------------------------
(* The random transaction *)

\* Faulty form: the fallback to a deposit is applied but not recorded.
ChooseTransactionUnrecorded(a, t, m) ==
  [account |-> a, type |-> t, amount |-> m, counterparty |-> None,
   read |-> balance[a],
   value |-> IF t = "deposit" \/ balance[a] < m
             THEN balance[a] + m ELSE balance[a] - m]

\* The sleep ends, db.query(Account).all() reads every row, and the choices are
\* made.  A withdrawal the account cannot pay becomes a deposit.  Frozen accounts
\* are chosen like any other.
ChooseTransaction(a, t, m) ==
  LET type == IF t = "withdrawal" /\ balance[a] < m THEN "deposit" ELSE t
  IN [account |-> a, type |-> type, amount |-> m, counterparty |-> None,
      read |-> balance[a],
      value |-> IF type = "deposit" THEN balance[a] + m ELSE balance[a] - m]

TickRead ==
  /\ ticks < MaxTicks /\ ticks' = ticks + 1
  /\ IF rows = {}
     THEN /\ AtTick("sleep", "sleep") /\ errors' = 0 /\ UNCHANGED choice
     ELSE /\ AtTick("sleep", "post") /\ UNCHANGED errors
          /\ \E a \in rows, t \in {"deposit", "withdrawal"}, m \in SimAmounts :
               choice' = ChooseTransaction(a, t, m)
  /\ UNCHANGED <<vars, due, copy, paid, stale>>

LockedByHandler(a) == \E w \in Workers \ {Sim} : a \in Locks(w)

\* The first commit: the UPDATE waits for the row lock, then overwrites the
\* balance with the value computed from the earlier read.
TickPost ==
  LET a == choice.account
  IN /\ AtTick("post", "score")
     /\ ~LockedByHandler(a)
     /\ balance' = [balance EXCEPT ![a] = choice.value]
     /\ ledger' = [ledger EXCEPT ![a] = @ + Posted(choice, a)]
     /\ stale' = IF balance[a] = choice.read THEN stale ELSE stale \cup {a}
     /\ UNCHANGED <<rows, owner, opening, emi, threads, choice, due, copy, paid,
                    errors, ticks>>

\* fraud_engine.score_transaction, which raises while fewer than ten
\* transactions are recorded (TickRaise); its alerts are not modelled.
TickScore ==
  /\ AtTick("score", "loans")
  /\ due' = Loans
  /\ UNCHANGED <<vars, choice, copy, paid, errors, ticks, stale>>

-----------------------------------------------------------------------------
(* The EMIs *)

\* Faulty form: the instalment is taken whatever the balance (BUG-023).
EmiFitsAlways(l, b) == TRUE

EmiFits(l, b) == b >= EmiAmount[l]

\* One turn of the loop over the active loans: the account row is read when the
\* session does not have it yet, and changed in the session only.
TickLoan(l) ==
  LET a == LoanAccount[l]
      b == IF a \in DOMAIN copy THEN copy[a] ELSE balance[a]
      fits == EmiFits(l, b)
  IN /\ AtTick("loans", "loans") /\ l \in due
     /\ due' = due \ {l}
     /\ copy' = [x \in DOMAIN copy \cup {a} |->
                   IF x # a THEN copy[x]
                   ELSE IF fits THEN b - EmiAmount[l] ELSE b]
     /\ paid' = IF fits THEN [paid EXCEPT ![a] = @ + EmiAmount[l]] ELSE paid
     /\ UNCHANGED <<vars, choice, errors, ticks, stale>>

TickLoansDone ==
  /\ AtTick("loans", "flush") /\ due = {}
  /\ UNCHANGED <<vars, choice, due, copy, paid, errors, ticks, stale>>

Dirty == {a \in Accounts : paid[a] > 0}
ToLock == Dirty \ DOMAIN session[Sim]

\* Faulty form: the rows are updated in no particular order.
UpdateInAnyOrder(a) == a \in ToLock

\* Faulty form: an off-by-one that never finds the smallest row.
UpdateNextStrict(a) == a \in ToLock /\ \A b \in ToLock : a < b

\* The unit of work sends the UPDATEs in primary key order.
UpdateNext(a) == a \in ToLock /\ \A b \in ToLock : a <= b

\* The second commit, one UPDATE at a time: each takes its row lock ...
TickUpdate(a) ==
  /\ AtTick("flush", "flush")
  /\ UpdateNext(a) /\ ~LockedByHandler(a)
  /\ session' = [session EXCEPT ![Sim] =
       [x \in DOMAIN session[Sim] \cup {a} |->
          IF x = a THEN balance[a] ELSE session[Sim][x]]]
  /\ UNCHANGED <<table, pc, req, number, reply, asked, choice, due, copy, paid,
                 errors, ticks, stale>>

\* ... and then all of it becomes visible.
TickCommitEmis ==
  /\ AtTick("flush", "scan") /\ ToLock = {}
  /\ balance' = [a \in Accounts |-> IF a \in Dirty THEN copy[a] ELSE balance[a]]
  /\ ledger' = [a \in Accounts |-> ledger[a] - paid[a]]
  /\ emi' = [a \in Accounts |-> emi[a] + paid[a]]
  /\ stale' = stale \cup {a \in Dirty : balance[a] # copy[a] + paid[a]}
  /\ EndTick
  /\ copy' = Empty /\ paid' = NothingPaid
  /\ UNCHANGED <<rows, owner, opening, pc, req, number, reply, asked, choice,
                 due, errors, ticks>>

-----------------------------------------------------------------------------
(* The loop *)

\* aml_engine.run_network_scan: it only reads accounts and transactions.
TickScan ==
  /\ AtTick("scan", "broadcast")
  /\ UNCHANGED <<vars, choice, due, copy, paid, errors, ticks, stale>>

TickBroadcast ==
  /\ AtTick("broadcast", "sleep")
  /\ errors' = 0 /\ choice' = NoChoice
  /\ UNCHANGED <<vars, due, copy, paid, ticks, stale>>

\* Whatever raises inside the try ends the tick: its session is closed, what it
\* committed stays, and the loop backs off before the next sleep.
TickRaise ==
  /\ tick # "sleep" /\ tick' = "sleep"
  /\ errors' = errors + 1
  /\ EndTick
  /\ choice' = NoChoice /\ due' = {} /\ copy' = Empty /\ paid' = NothingPaid
  /\ UNCHANGED <<table, pc, req, number, reply, asked, ticks, stale>>

Tick ==
  \/ TickRead \/ TickPost \/ TickScore \/ TickLoansDone \/ TickCommitEmis
  \/ TickScan \/ TickBroadcast
  \/ \E l \in Loans : TickLoan(l)
  \/ \E a \in Accounts : TickUpdate(a)

-----------------------------------------------------------------------------
(* Handlers and tick together *)

\* u waits for a row v holds; the tick waits inside its second commit.
Waits(u, v) ==
  IF u = Sim THEN /\ v # Sim /\ tick = "flush"
                  /\ \E a \in Locks(v) : UpdateNext(a)
  ELSE BlockedBy(u, v)

Circle(S) == S # {} /\ \A u \in S : \E v \in S : Waits(u, v)

\* PostgreSQL fails a member of a circle the tick is in: a handler or the tick.
CircleBreaks ==
  \E S \in SUBSET Workers :
    /\ Circle(S) /\ Sim \in S
    /\ \/ TickRaise
       \/ \E w \in S \ {Sim} :
            /\ Goto(w, "failed")
            /\ UNCHANGED <<table, req, session, number, reply, asked, simVars>>

Handlers == Workers \ {Sim}

QuietSim == /\ asked = MaxRequests /\ \A w \in Handlers : pc[w] = "idle"
            /\ ticks = MaxTicks /\ tick = "sleep"
            /\ UNCHANGED allVars

NextSim ==
  \/ \E w \in Handlers : /\ \/ \E r \in Payloads : Submit(w, r)
                            \/ Handler(w) \/ Fail(w)
                         /\ UNCHANGED simVars
  \/ Tick \/ TickRaise \/ CircleBreaks \/ QuietSim

SimSpec == InitSim /\ [][NextSim]_allVars

\* As in BankingDb; the event loop wakes the tick and its thread keeps running.
FairSimSpec ==
  /\ SimSpec
  /\ \A w \in Handlers : SF_allVars(Handler(w) /\ UNCHANGED simVars)
  /\ SF_allVars(Tick) /\ WF_allVars(CircleBreaks)

-----------------------------------------------------------------------------
(* Properties *)

\* The type invariant of the tick's own state; its session holds row locks only
\* between the UPDATEs and the commit of the EMIs.
SimTypeOK ==
  /\ TypeOK
  /\ tick \in {"sleep", "post", "score", "loans", "flush", "scan", "broadcast"}
  /\ due \subseteq Loans /\ paid \in [Accounts -> Nat]
  /\ DOMAIN copy \subseteq Accounts /\ stale \subseteq Accounts
  /\ errors \in 0 .. MaxTicks /\ ticks \in 0 .. MaxTicks
  /\ Locks(Sim) # {} => tick = "flush" /\ Locks(Sim) \subseteq Dirty

\* No tick takes a balance below zero, even when it computes with a balance that
\* is out of date by the time it writes (BUG-023).  For payloads without an EMI
\* and without a negative initial deposit.
TicksNeverOverdraw == \A a \in Accounts : balance[a] >= 0

\* A balance stops agreeing with its Transaction rows only where a handler
\* committed between the tick's read and the tick's write.
DriftOnlyWhereOvertaken ==
  \A a \in Accounts \ stale : balance[a] = opening[a] + ledger[a]

\* The tick adds no deadlock: it updates rows in ascending order like
\* user_transfer locks them, so a circle still needs a create_transaction.
TickKeepsLockOrder ==
  \A S \in SUBSET Workers :
    Circle(S) => \E w \in S \ {Sim} : req[w].endpoint = "create_transaction"

\* Every tick ends, and every request is answered while ticks run.
TickEnds == (tick # "sleep") ~> (tick = "sleep")
RequestsAnsweredDespiteTicks ==
  \A w \in Handlers : (pc[w] # "idle") ~> (pc[w] = "idle")
=============================================================================
