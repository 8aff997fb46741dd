-------------------------- MODULE SimulationProofs --------------------------
(***************************************************************************)
(* What the simulation tick does to the guarantees of BankingDb, for any   *)
(* number of handler threads, accounts, loans and ticks.  A step of a      *)
(* handler is a step of BankingDb that leaves the tick alone, so its lemmas*)
(* hold for it; the steps of the tick are looked at here.                  *)
(***************************************************************************)
EXTENDS Simulation, BankingDbProofs

HandlerStep(w) ==
  /\ (\E r \in Payloads : Submit(w, r)) \/ Handler(w) \/ Fail(w)
  /\ UNCHANGED simVars

\* A handler that fails because it waits in a circle fails as any handler may.
LEMMA StepCases ==
  [NextSim]_allVars =>
    (\E w \in Handlers : HandlerStep(w)) \/ Tick \/ TickRaise \/ UNCHANGED allVars
  <1> SUFFICES ASSUME [NextSim]_allVars
               PROVE  (\E w \in Handlers : HandlerStep(w)) \/ Tick \/ TickRaise \/ UNCHANGED allVars
    OBVIOUS
  <1>1. CASE \E w \in Handlers : /\ \/ \E r \in Payloads : Submit(w, r)
                                    \/ Handler(w) \/ Fail(w)
                                 /\ UNCHANGED simVars
    BY <1>1 DEF HandlerStep
  <1>2. CASE CircleBreaks
    <2>1. PICK S \in SUBSET Workers :
            /\ Circle(S)
            /\ \/ TickRaise
               \/ \E w \in S \ {Sim} :
                    /\ Goto(w, "failed")
                    /\ UNCHANGED <<table, req, session, number, reply, asked, simVars>>
      BY <1>2 DEF CircleBreaks
    <2>2. ASSUME NEW w \in S \ {Sim}, Goto(w, "failed"),
                 UNCHANGED <<table, req, session, number, reply, asked, simVars>>
          PROVE  w \in Handlers /\ HandlerStep(w)
      <3>1. pc[w] \in {"begin", "second", "commit"}
        BY <2>1, <2>2 DEF Circle, Waits, BlockedBy
      <3> QED BY <2>2, <3>1 DEF HandlerStep, Fail, Handlers
    <2> QED BY <2>1, <2>2
  <1>3. CASE QuietSim
    BY <1>3 DEF QuietSim
  <1> QED BY <1>1, <1>2, <1>3 DEF NextSim

\* What a handler's step leaves alone: the tick, its session, the rows there are.
LEMMA HandlerFrame ==
  ASSUME TypeOK, NEW w \in Handlers, HandlerStep(w)
  PROVE  /\ Next /\ UNCHANGED simVars
         /\ pc'[Sim] = pc[Sim] /\ session'[Sim] = session[Sim]
         /\ rows \subseteq rows'
  <1>1. Next
    BY DEF HandlerStep, Next, Handlers
  <1>2. Sim \in Workers /\ w \in Workers /\ w # Sim
    BY SimAssumption DEF Handlers
  <1>3. (\E r \in Payloads : Submit(w, r)) \/ Handler(w) \/ Fail(w)
    BY DEF HandlerStep
  <1>4. pc'[Sim] = pc[Sim]
    BY <1>2, <1>3 DEF Submit, Handler, Reject, FetchFirst, FetchSecond, CommitPosting,
       GenerateNumber, NoNumberLeft, CommitAccount, ConstraintFails, VictimAborts, Fail,
       Finish, Goto, TypeOK
  <1>5. session'[Sim] = session[Sim]
    BY <1>2, <1>3 DEF Submit, Handler, Reject, FetchFirst, FetchSecond, Fetch, CommitPosting,
       GenerateNumber, NoNumberLeft, CommitAccount, ConstraintFails, VictimAborts, Fail,
       Finish, EndTransaction, TypeOK
  <1>6. rows \subseteq rows'
    BY <1>3 DEF Submit, Handler, Reject, FetchFirst, FetchSecond, Fetch, CommitPosting,
       GenerateNumber, NoNumberLeft, CommitAccount, ConstraintFails, VictimAborts, Fail,
       Finish, table
  <1> QED BY <1>1, <1>4, <1>5, <1>6 DEF HandlerStep

-----------------------------------------------------------------------------
(* Types *)

\* A transaction that waits to be posted was made from a balance that was read.
ChoiceTyped ==
  tick = "post" =>
    /\ choice.account \in rows /\ choice.counterparty = None
    /\ choice.type \in {"deposit", "withdrawal"} /\ choice.amount \in Nat
    /\ choice.read \in Int
    /\ choice.value = choice.read + Posted(choice, choice.account)

\* The EMIs are taken from rows the tick has read, and it locks only rows that it
\* changed, between the first UPDATE and the commit.
SessionTyped ==
  /\ DOMAIN copy \subseteq SeedRows /\ \A a \in DOMAIN copy : copy[a] \in Int
  /\ Dirty \subseteq DOMAIN copy
  /\ DOMAIN session[Sim] \subseteq Dirty
  /\ DOMAIN session[Sim] # {} => tick = "flush"
  /\ Dirty # {} => tick \in {"loans", "flush"}

TickTyped ==
  /\ tick \in {"sleep", "post", "score", "loans", "flush", "scan", "broadcast"}
  /\ due \subseteq Loans /\ paid \in [Accounts -> Nat] /\ stale \subseteq Accounts
  /\ errors \in Nat /\ ticks \in 0 .. MaxTicks
  /\ errors + (IF tick = "sleep" THEN 0 ELSE 1) <= ticks
  /\ pc[Sim] = "idle" /\ SeedRows \subseteq rows

SimTyped == Typed /\ TickTyped /\ ChoiceTyped /\ SessionTyped

\* The invariant is as strong as the types the runs check.
LEMMA SimTypedShape == SimTyped => SimTypeOK
  <1> SUFFICES ASSUME SimTyped PROVE SimTypeOK
    OBVIOUS
  <1> USE DbAssumption DEF SimTyped, Typed
  <1>1. DOMAIN copy \subseteq Accounts
    BY DEF SessionTyped
  <1>2. errors \in 0 .. MaxTicks
    BY SimAssumption DEF TickTyped
  <1>3. Locks(Sim) # {} => tick = "flush" /\ Locks(Sim) \subseteq Dirty
    BY DEF Locks, SessionTyped
  <1> QED BY <1>1, <1>2, <1>3 DEF SimTypeOK, TickTyped

\* The tick sleeps at first and has read nothing.
LEMMA SimTypedInit == InitSim => SimTyped
  <1> SUFFICES ASSUME InitSim PROVE SimTyped
    OBVIOUS
  <1>1. Typed
    BY TypedInit DEF InitSim
  <1>2. pc[Sim] = "idle" /\ session[Sim] = Empty /\ rows = SeedRows
    BY SimAssumption DEF InitSim, Init
  <1>3. Dirty = {}
    BY DEF InitSim, Dirty, NothingPaid
  <1>4. TickTyped
    BY <1>2, SimAssumption DEF InitSim, TickTyped, NothingPaid
  <1>5. ChoiceTyped /\ SessionTyped
    BY <1>2, <1>3 DEF InitSim, ChoiceTyped, SessionTyped, Empty
  <1> QED BY <1>1, <1>4, <1>5 DEF SimTyped, Typed

\* Every step of the tick keeps its types and those of the tables.
LEMMA SimTypedTick == SimTyped /\ (Tick \/ TickRaise) => SimTyped'
  <1> SUFFICES ASSUME SimTyped, Tick \/ TickRaise PROVE SimTyped'
    OBVIOUS
  <1> USE SimAssumption, DbAssumption
  <1> USE DEF SimTyped
  <1>1. CASE TickRead
    <2>1. UNCHANGED <<vars, due, copy, paid, stale>>
      BY <1>1 DEF TickRead
    <2>2. Typed'
      BY <2>1, TypedNext DEF Typed
    <2>3. ticks \in Nat /\ ticks' = ticks + 1 /\ ticks' <= MaxTicks
      BY <1>1 DEF TickRead, TickTyped
    <2>4. TickTyped'
      BY <1>1, <2>1, <2>3 DEF TickRead, TickTyped, AtTick, vars, table, threads
    <2>5. Dirty' = Dirty
      BY <2>1 DEF Dirty
    <2>6. SessionTyped'
      BY <1>1, <2>1, <2>5 DEF TickRead, SessionTyped, AtTick, vars, threads
    <2>7. ChoiceTyped'
      <3>1. SUFFICES ASSUME tick' = "post"
                     PROVE  ChoiceTyped'
        BY DEF ChoiceTyped
      <3>2. PICK a \in rows, t \in {"deposit", "withdrawal"}, m \in SimAmounts :
              choice' = ChooseTransaction(a, t, m)
        BY <1>1, <3>1 DEF TickRead, AtTick
      <3>3. a \in Accounts /\ balance[a] \in Int /\ m \in Nat /\ a # None
        BY IdFacts DEF Typed, TypeOK
      <3>4. Posted(choice', a) =
              IF choice'.type = "deposit" THEN m ELSE -m
        BY <3>2, <3>3 DEF ChooseTransaction, Posted
      <3> QED BY <2>1, <3>2, <3>3, <3>4 DEF ChooseTransaction, ChoiceTyped, vars, table
    <2> QED BY <2>2, <2>4, <2>6, <2>7
  <1>2. CASE TickPost
    <2> DEFINE a == choice.account
    <2>1. /\ a \in Accounts /\ choice.value \in Int /\ Posted(choice, a) \in Int
      BY <1>2 DEF TickPost, AtTick, ChoiceTyped, Posted, Typed, TypeOK
    <2>2. Typed'
      BY <1>2, <2>1 DEF TickPost, Typed, TypeOK, Known, threads
    <2>3. Dirty' = Dirty
      BY <1>2 DEF TickPost, Dirty
    <2>4. TickTyped'
      BY <1>2, <2>1 DEF TickPost, AtTick, TickTyped, threads
    <2>5. ChoiceTyped'
      BY <1>2 DEF TickPost, AtTick, ChoiceTyped
    <2>6. SessionTyped'
      BY <1>2, <2>3 DEF TickPost, AtTick, SessionTyped, threads
    <2> QED BY <2>2, <2>4, <2>5, <2>6
  <1>3. CASE TickScore \/ TickLoansDone \/ TickScan \/ TickBroadcast
    <2>1. UNCHANGED <<vars, copy, paid, ticks, stale>>
      BY <1>3 DEF TickScore, TickLoansDone, TickScan, TickBroadcast
    <2>2. Typed'
      BY <2>1, TypedNext DEF Typed
    <2>3. Dirty' = Dirty
      BY <2>1 DEF Dirty
    <2>4. TickTyped'
      BY <1>3, <2>1 DEF TickScore, TickLoansDone, TickScan, TickBroadcast, AtTick, TickTyped,
         vars, table, threads
    <2>5. ChoiceTyped'
      BY <1>3 DEF TickScore, TickLoansDone, TickScan, TickBroadcast, AtTick, ChoiceTyped
    <2>6. SessionTyped'
      BY <1>3, <2>1, <2>3 DEF TickScore, TickLoansDone, TickScan, TickBroadcast, AtTick,
         SessionTyped, vars, threads
    <2> QED BY <2>2, <2>4, <2>5, <2>6
  <1>4. ASSUME NEW l \in Loans, TickLoan(l) PROVE SimTyped'
    <2> DEFINE a == LoanAccount[l]
               b == IF a \in DOMAIN copy THEN copy[a] ELSE balance[a]
    <2>1. a \in SeedRows /\ a \in Accounts /\ EmiAmount[l] \in Nat /\ EmiAmount[l] > 0
      OBVIOUS
    <2>2. b \in Int
      BY <2>1 DEF SessionTyped, Typed, TypeOK
    <2>3. UNCHANGED <<vars, choice, errors, ticks, stale>> /\ tick = "loans" /\ tick' = "loans"
      BY <1>4 DEF TickLoan, AtTick
    <2>4. /\ DOMAIN copy' = DOMAIN copy \cup {a}
          /\ \A x \in DOMAIN copy' : copy'[x] \in Int
      BY <1>4, <2>1, <2>2 DEF TickLoan, SessionTyped
    <2>5. /\ paid' \in [Accounts -> Nat]
          /\ \A x \in Accounts : x # a => paid'[x] = paid[x]
          /\ paid'[a] >= paid[a]
      BY <1>4, <2>1 DEF TickLoan, TickTyped
    <2>6. Dirty \subseteq Dirty' /\ Dirty' \subseteq Dirty \cup {a}
      BY <2>1, <2>5 DEF Dirty, TickTyped
    <2>7. Typed'
      BY <2>3, TypedNext DEF Typed
    <2>8. TickTyped'
      BY <1>4, <2>3, <2>5 DEF TickLoan, TickTyped, vars, table, threads
    <2>9. ChoiceTyped'
      BY <2>3 DEF ChoiceTyped
    <2>10. SessionTyped'
      BY <2>1, <2>3, <2>4, <2>6 DEF SessionTyped, vars, threads
    <2> QED BY <2>7, <2>8, <2>9, <2>10
  <1>5. ASSUME NEW a \in Accounts, TickUpdate(a) PROVE SimTyped'
    <2>1. /\ UNCHANGED <<table, pc, req, number, reply, asked, choice, due, copy, paid,
                          errors, ticks, stale>>
          /\ tick = "flush" /\ tick' = "flush"
      BY <1>5 DEF TickUpdate, AtTick
    <2>2. a \in Dirty /\ balance[a] \in Int
      BY <1>5 DEF TickUpdate, UpdateNext, ToLock, Typed, TypeOK
    <2>3. /\ DOMAIN session' = Workers
          /\ \A v \in Workers : v # Sim => session'[v] = session[v]
          /\ DOMAIN session'[Sim] = DOMAIN session[Sim] \cup {a}
          /\ session'[Sim] \in [DOMAIN session'[Sim] -> Int]
      BY <1>5, <2>2 DEF TickUpdate, Typed, TypeOK
    <2>4. \A v \in Workers : /\ DOMAIN session'[v] \subseteq Accounts
                             /\ session'[v] \in [DOMAIN session'[v] -> Int]
      BY <2>3 DEF Typed, TypeOK
    <2>5. Typed'
      BY <2>1, <2>3, <2>4 DEF Typed, TypeOK, Known, table
    <2>6. Dirty' = Dirty
      BY <2>1 DEF Dirty
    <2>7. TickTyped' /\ ChoiceTyped'
      BY <2>1 DEF TickTyped, ChoiceTyped, table
    <2>8. SessionTyped'
      BY <2>1, <2>2, <2>3, <2>6 DEF SessionTyped
    <2> QED BY <2>5, <2>7, <2>8
  <1>6. CASE TickCommitEmis
    <2>1. \A a \in Dirty : copy[a] \in Int
      BY DEF SessionTyped
    <2>2. /\ balance' \in [Accounts -> Int] /\ ledger' \in [Accounts -> Int]
          /\ emi' \in [Accounts -> Nat]
      BY <1>6, <2>1 DEF TickCommitEmis, Typed, TypeOK, TickTyped
    <2>3. /\ DOMAIN session' = Workers /\ session'[Sim] = Empty
          /\ \A v \in Workers : v # Sim => session'[v] = session[v]
      BY <1>6 DEF TickCommitEmis, EndTick, Typed, TypeOK
    <2>4. \A v \in Workers : /\ DOMAIN session'[v] \subseteq Accounts
                             /\ session'[v] \in [DOMAIN session'[v] -> Int]
      BY <2>3 DEF Typed, TypeOK, Empty
    <2>5. Typed'
      BY <1>6, <2>2, <2>3, <2>4 DEF TickCommitEmis, Typed, TypeOK, Known
    <2>6. Dirty' = {}
      BY <1>6 DEF TickCommitEmis, Dirty, NothingPaid
    <2>7. TickTyped'
      BY <1>6 DEF TickCommitEmis, AtTick, TickTyped, NothingPaid, Dirty
    <2>8. ChoiceTyped' /\ SessionTyped'
      BY <1>6, <2>3, <2>6 DEF TickCommitEmis, AtTick, ChoiceTyped, SessionTyped, Empty
    <2> QED BY <2>5, <2>7, <2>8
  <1>7. CASE TickRaise
    <2>1. /\ DOMAIN session' = Workers /\ session'[Sim] = Empty
          /\ \A v \in Workers : v # Sim => session'[v] = session[v]
      BY <1>7 DEF TickRaise, EndTick, Typed, TypeOK
    <2>2. \A v \in Workers : /\ DOMAIN session'[v] \subseteq Accounts
                             /\ session'[v] \in [DOMAIN session'[v] -> Int]
      BY <2>1 DEF Typed, TypeOK, Empty
    <2>3. Typed'
      BY <1>7, <2>1, <2>2 DEF TickRaise, Typed, TypeOK, Known, table
    <2>4. Dirty' = {}
      BY <1>7 DEF TickRaise, Dirty, NothingPaid
    <2>5. TickTyped'
      BY <1>7 DEF TickRaise, TickTyped, NothingPaid, table
    <2>6. ChoiceTyped' /\ SessionTyped'
      BY <1>7, <2>1, <2>4 DEF TickRaise, ChoiceTyped, SessionTyped, Empty
    <2> QED BY <2>3, <2>5, <2>6
  <1> QED BY <1>1, <1>2, <1>3, <1>4, <1>5, <1>6, <1>7 DEF Tick

\* Every step keeps the types.
LEMMA SimTypedNext == SimTyped /\ [NextSim]_allVars => SimTyped'
  <1> SUFFICES ASSUME SimTyped, [NextSim]_allVars PROVE SimTyped'
    OBVIOUS
  <1>1. ASSUME NEW w \in Handlers, HandlerStep(w) PROVE SimTyped'
    <2>1. TypeOK /\ Typed
      BY DEF SimTyped, Typed
    <2>2. /\ Next /\ UNCHANGED simVars
          /\ pc'[Sim] = pc[Sim] /\ session'[Sim] = session[Sim]
          /\ rows \subseteq rows'
      BY <1>1, <2>1, HandlerFrame
    <2>3. Typed'
      BY <2>1, <2>2, TypedNext DEF Typed
    <2>4. Dirty' = Dirty
      BY <2>2 DEF simVars, Dirty
    <2>5. TickTyped' /\ ChoiceTyped' /\ SessionTyped'
      BY <2>2, <2>4 DEF SimTyped, simVars, TickTyped, ChoiceTyped, SessionTyped
    <2> QED BY <2>3, <2>5 DEF SimTyped
  <1>2. CASE UNCHANGED allVars
    <2>1. Typed'
      BY <1>2, TypedNext DEF allVars, SimTyped, Typed
    <2>2. TickTyped' /\ ChoiceTyped' /\ SessionTyped'
      BY <1>2 DEF SimTyped, allVars, simVars, vars, table, threads, TickTyped, ChoiceTyped,
         SessionTyped, Dirty
    <2> QED BY <2>1, <2>2 DEF SimTyped
  <1> QED BY <1>1, <1>2, SimTypedTick, StepCases

\* Every variable of the tick keeps its type, however handlers and errors
\* interrupt it, and it holds row locks only while its second commit runs and only
\* of rows it changed (_run_simulation_tick closes its session in finally).
THEOREM SimTypeCorrect == SimSpec => []SimTypeOK
  <1> QED BY SimTypedInit, SimTypedNext, SimTypedShape, PTL DEF SimSpec

-----------------------------------------------------------------------------
(* Row locks *)

SimIsolated == SimTyped /\ Isolated

\* Nobody holds a row at the start.
LEMMA SimIsolatedInit == InitSim => SimIsolated
  BY SimTypedInit, IsolatedInit DEF InitSim, SimIsolated

\* With row locks the tick keeps the handlers isolated: it writes no row that one
\* of them holds, and the rows it locks itself it locks at their current balance.
LEMMA SimIsolatedNext ==
  ASSUME RowLocks PROVE SimIsolated /\ [NextSim]_allVars => SimIsolated'
  <1> SUFFICES ASSUME SimIsolated, [NextSim]_allVars PROVE SimIsolated'
    OBVIOUS
  <1>0. SimTyped'
    BY SimTypedNext DEF SimIsolated
  <1> USE SimAssumption DEF SimIsolated
  <1>a. /\ \A w \in Workers : DOMAIN session[w] \subseteq Accounts
        /\ pc[Sim] = "idle" /\ Sim \in Workers
    BY DEF SimTyped, Typed, TypeOK, TickTyped
  <1>b. SUFFICES LocksExclusive' /\ ReadsCurrent' /\ Checked'
    BY <1>0 DEF SimTyped, Isolated
  <1>1. ASSUME NEW w \in Handlers, HandlerStep(w) PROVE Isolated'
    BY <1>1, HandlerFrame, IsolatedNext DEF SimTyped, Typed
  <1>2. CASE UNCHANGED vars
    BY <1>2, IsolatedNext DEF Isolated
  <1>3. CASE TickPost
    <2> DEFINE a == choice.account
    <2>1. /\ ~LockedByHandler(a)
          /\ balance' = [balance EXCEPT ![a] = choice.value]
          /\ UNCHANGED <<rows, owner, pc, req, session>>
          /\ tick = "post"
      BY <1>3 DEF TickPost, AtTick, threads
    <2>2. \A w \in Workers : a \notin Locks(w)
      BY <2>1 DEF LockedByHandler, SimTyped, SessionTyped, Locks
    <2>3. \A w \in Workers : \A x \in Locks(w) : balance'[x] = balance[x]
      BY <1>a, <2>1, <2>2 DEF Locks, Isolated, Typed, TypeOK
    <2>4. LocksExclusive' /\ ReadsCurrent'
      BY <2>1, <2>3 DEF Isolated, LocksExclusive, ReadsCurrent, Locks
    <2>5. Checked'
      BY <2>1 DEF Isolated, Checked
    <2> QED BY <2>4, <2>5
  <1>4. ASSUME NEW a \in Accounts, TickUpdate(a) PROVE LocksExclusive' /\ ReadsCurrent' /\ Checked'
    <2>1. /\ ~LockedByHandler(a) /\ UNCHANGED <<rows, owner, balance, pc, req>>
          /\ a \in Dirty
      BY <1>4 DEF TickUpdate, table, UpdateNext, ToLock
    <2>2. /\ \A v \in Workers : v # Sim => session'[v] = session[v]
          /\ DOMAIN session'[Sim] = DOMAIN session[Sim] \cup {a}
          /\ \A x \in DOMAIN session'[Sim] :
               session'[Sim][x] = IF x = a THEN balance[a] ELSE session[Sim][x]
      BY <1>4 DEF TickUpdate, Isolated, Typed, TypeOK
    <2>3. a \in rows
      BY <2>1 DEF SimTyped, SessionTyped, TickTyped
    <2>4. LocksExclusive'
      BY <2>1, <2>2 DEF LockedByHandler, Isolated, LocksExclusive, Locks
    <2>5. ReadsCurrent'
      BY <2>1, <2>2, <2>3 DEF Isolated, ReadsCurrent, Locks
    <2>6. Checked'
      BY <1>a, <2>1, <2>2 DEF Isolated, Checked
    <2> QED BY <2>4, <2>5, <2>6
  <1>5. CASE TickCommitEmis
    <2>1. /\ UNCHANGED <<rows, owner, pc, req>>
          /\ balance' = [a \in Accounts |-> IF a \in Dirty THEN copy[a] ELSE balance[a]]
          /\ Dirty \subseteq DOMAIN session[Sim]
      BY <1>5 DEF TickCommitEmis, ToLock
    <2>2. /\ \A v \in Workers : v # Sim => session'[v] = session[v]
          /\ DOMAIN session'[Sim] = {}
      BY <1>5 DEF TickCommitEmis, EndTick, Empty, Isolated, Typed, TypeOK
    <2>3. \A v \in Workers : v # Sim => \A x \in DOMAIN session[v] : balance'[x] = balance[x]
      BY <1>a, <2>1 DEF Isolated, LocksExclusive, Locks
    <2>4. LocksExclusive'
      BY <2>2 DEF Isolated, LocksExclusive, Locks
    <2>5. ReadsCurrent'
      BY <2>1, <2>2, <2>3 DEF Isolated, ReadsCurrent, Locks
    <2>6. Checked'
      BY <1>a, <2>1, <2>2 DEF Isolated, Checked
    <2> QED BY <2>4, <2>5, <2>6
  <1>6. CASE TickRaise
    <2>1. UNCHANGED <<rows, owner, balance, pc, req>>
      BY <1>6 DEF TickRaise, table
    <2>2. /\ \A v \in Workers : v # Sim => session'[v] = session[v]
          /\ DOMAIN session'[Sim] = {}
      BY <1>6 DEF TickRaise, EndTick, Empty, Isolated, Typed, TypeOK
    <2>3. LocksExclusive' /\ ReadsCurrent'
      BY <2>1, <2>2 DEF Isolated, LocksExclusive, ReadsCurrent, Locks
    <2>4. Checked'
      BY <1>a, <2>1, <2>2 DEF Isolated, Checked
    <2> QED BY <2>3, <2>4
  <1>7. Tick => \/ UNCHANGED vars \/ TickPost \/ TickCommitEmis
                \/ \E a \in Accounts : TickUpdate(a)
    BY DEF Tick, TickRead, TickScore, TickLoansDone, TickScan, TickBroadcast, TickLoan
  <1>8. UNCHANGED allVars => UNCHANGED vars
    BY DEF allVars
  <1>9. Isolated' => LocksExclusive' /\ ReadsCurrent' /\ Checked'
    BY DEF Isolated
  <1> QED BY <1>1, <1>2, <1>3, <1>4, <1>5, <1>6, <1>7, <1>8, <1>9, StepCases

-----------------------------------------------------------------------------
(* Money *)

Agreeing == SimIsolated /\ DriftOnlyWhereOvertaken /\ Untouched

\* The seeded rows agree with an empty ledger.
LEMMA AgreeingInit == InitSim => Agreeing
  <1> SUFFICES ASSUME InitSim PROVE DriftOnlyWhereOvertaken /\ Untouched
    BY SimIsolatedInit DEF Agreeing
  <1> QED BY DbAssumption DEF InitSim, Init, DriftOnlyWhereOvertaken, Untouched

\* The tick writes what it read plus what it records.  So it keeps a balance in
\* agreement with the ledger if the row still is as it was read.
LEMMA AgreeingNext ==
  ASSUME RowLocks PROVE Agreeing /\ [NextSim]_allVars => Agreeing'
  <1> SUFFICES ASSUME Agreeing, [NextSim]_allVars PROVE DriftOnlyWhereOvertaken' /\ Untouched'
    BY SimIsolatedNext DEF Agreeing
  <1> USE DEF Agreeing
  <1>1. TypeOK /\ Typed /\ SimTyped /\ Isolated
    BY DEF SimIsolated, SimTyped, Typed
  <1>2. CASE UNCHANGED <<table, stale>>
    BY <1>2 DEF table, DriftOnlyWhereOvertaken, Untouched
  <1>3. ASSUME NEW w \in Workers, CommitPosting(w), stale' = stale
        PROVE  DriftOnlyWhereOvertaken' /\ Untouched'
    <2>1. req[w] \in Payloads
      BY <1>1, <1>3 DEF CommitPosting, Typed, Known
    <2>2. DriftOnlyWhereOvertaken'
      BY <1>1, <1>3, <2>1, PostingStep, AmountFacts DEF DriftOnlyWhereOvertaken, TypeOK
    <2>3. Untouched'
      BY <1>1, <1>3, PostingStep DEF CommitPosting, Untouched, TypeOK
    <2> QED BY <2>2, <2>3
  <1>4. ASSUME NEW w \in Workers, CommitAccount(w), stale' = stale
        PROVE  DriftOnlyWhereOvertaken' /\ Untouched'
    <2> DEFINE n == number[w]
    <2>1. /\ n \in Accounts \ rows /\ req[w] \in Payloads
          /\ balance' = [balance EXCEPT ![n] = req[w].amount]
          /\ opening' = [opening EXCEPT ![n] = req[w].amount]
          /\ UNCHANGED ledger /\ rows' = rows \cup {n}
      BY <1>1, <1>4 DEF CommitAccount, Typed, Known
    <2>2. req[w].amount \in Int
      BY <2>1, PayloadFacts
    <2> QED BY <1>1, <1>4, <2>1, <2>2 DEF DriftOnlyWhereOvertaken, Untouched, TypeOK
  <1>5. ASSUME NEW w \in Handlers, HandlerStep(w) PROVE DriftOnlyWhereOvertaken' /\ Untouched'
    <2>1. Next /\ stale' = stale
      BY <1>1, <1>5, HandlerFrame DEF simVars
    <2> QED BY <1>2, <1>3, <1>4, <2>1, TableStep
  <1>6. CASE TickPost
    <2> DEFINE a == choice.account
    <2>1. /\ a \in rows /\ a \in Accounts /\ choice.read \in Int /\ Posted(choice, a) \in Int
          /\ choice.value = choice.read + Posted(choice, a)
      BY <1>1, <1>6 DEF TickPost, AtTick, SimTyped, ChoiceTyped, Posted, TypeOK
    <2>2. /\ balance' = [balance EXCEPT ![a] = choice.value]
          /\ ledger' = [ledger EXCEPT ![a] = @ + Posted(choice, a)]
          /\ stale' = IF balance[a] = choice.read THEN stale ELSE stale \cup {a}
          /\ UNCHANGED <<rows, opening>>
      BY <1>6 DEF TickPost
    <2>3. ASSUME NEW x \in Accounts \ stale' PROVE balance'[x] = opening'[x] + ledger'[x]
      BY <1>1, <2>1, <2>2, <2>3 DEF DriftOnlyWhereOvertaken, TypeOK
    <2>4. Untouched'
      BY <1>1, <2>1, <2>2 DEF Untouched, TypeOK
    <2> QED BY <2>3, <2>4 DEF DriftOnlyWhereOvertaken
  <1>7. CASE TickCommitEmis
    <2>1. /\ balance' = [x \in Accounts |-> IF x \in Dirty THEN copy[x] ELSE balance[x]]
          /\ ledger' = [x \in Accounts |-> ledger[x] - paid[x]]
          /\ stale' = stale \cup {x \in Dirty : balance[x] # copy[x] + paid[x]}
          /\ UNCHANGED <<rows, opening>>
      BY <1>7 DEF TickCommitEmis
    <2>2. \A x \in Accounts : /\ x \notin Dirty => paid[x] = 0
                              /\ x \in Dirty => copy[x] \in Int /\ x \in rows
                              /\ paid[x] \in Nat
      BY <1>1 DEF Dirty, SimTyped, TickTyped, SessionTyped
    <2>3. ASSUME NEW x \in Accounts \ stale' PROVE balance'[x] = opening'[x] + ledger'[x]
      <3>1. /\ x \notin stale /\ balance[x] = opening[x] + ledger[x]
            /\ opening[x] \in Int /\ ledger[x] \in Int /\ balance[x] \in Int
        BY <1>1, <2>1, <2>3 DEF DriftOnlyWhereOvertaken, TypeOK
      <3>2. x \in Dirty => balance[x] = copy[x] + paid[x]
        BY <2>1, <2>3
      <3>3. balance'[x] = balance[x] - paid[x]
        BY <2>1, <2>2, <2>3, <3>1, <3>2
      <3> QED BY <2>1, <2>2, <2>3, <3>1, <3>3
    <2>4. Untouched'
      BY <1>1, <2>1, <2>2 DEF Untouched, TypeOK
    <2> QED BY <2>3, <2>4 DEF DriftOnlyWhereOvertaken
  <1>8. Tick \/ TickRaise => UNCHANGED <<table, stale>> \/ TickPost \/ TickCommitEmis
    BY DEF Tick, TickRaise, TickRead, TickScore, TickLoansDone, TickScan, TickBroadcast,
       TickLoan, TickUpdate, vars
  <1>9. UNCHANGED allVars => UNCHANGED <<table, stale>>
    BY DEF allVars, vars, simVars
  <1> QED BY <1>2, <1>5, <1>6, <1>7, <1>8, <1>9, StepCases

\* On PostgreSQL a balance stops agreeing with its Transaction rows only where a
\* handler committed between the tick's read and its write (the unlocked read of
\* _run_simulation_tick is the only way to lose an update).
THEOREM OnlyOvertakenTicksDrift ==
  ASSUME RowLocks PROVE SimSpec => []DriftOnlyWhereOvertaken
  <1>1. Agreeing => DriftOnlyWhereOvertaken
    BY DEF Agreeing
  <1> QED BY AgreeingInit, AgreeingNext, <1>1, PTL DEF SimSpec

\* Nobody asks for an EMI or opens an account with a debt, and no account starts
\* with one.
SolventInputs ==
  /\ \A r \in Payloads : r.type # "emi" /\ (r.endpoint = "create_account" => r.amount >= 0)
  /\ \A a \in Accounts : SeedBalance[a] >= 0

\* What the tick is going to write is not negative either, however old it is.
Solvent ==
  /\ SimIsolated /\ TicksNeverOverdraw
  /\ tick = "post" => choice.value >= 0
  /\ \A a \in DOMAIN copy : copy[a] >= 0

\* The accounts start without a debt.
LEMMA SolventInit == ASSUME SolventInputs PROVE InitSim => Solvent
  <1> SUFFICES ASSUME InitSim PROVE Solvent
    OBVIOUS
  <1> QED BY SimIsolatedInit
          DEF SolventInputs, InitSim, Init, Solvent, TicksNeverOverdraw, Empty

\* A check against an old balance still keeps the value written above zero; a
\* handler checks the current one.
LEMMA SolventNext ==
  ASSUME RowLocks, SolventInputs PROVE Solvent /\ [NextSim]_allVars => Solvent'
  <1> SUFFICES ASSUME Solvent, [NextSim]_allVars
               PROVE  /\ TicksNeverOverdraw'
                      /\ (tick = "post" => choice.value >= 0)'
                      /\ (\A a \in DOMAIN copy : copy[a] >= 0)'
    BY SimIsolatedNext DEF Solvent
  <1> DEFINE Goal == /\ TicksNeverOverdraw'
                     /\ (tick = "post" => choice.value >= 0)'
                     /\ (\A a \in DOMAIN copy : copy[a] >= 0)'
  <1> USE DEF Solvent
  <1>1. TypeOK /\ Typed /\ SimTyped /\ Isolated
    BY DEF SimIsolated, SimTyped, Typed
  <1>2. ASSUME NEW w \in Handlers, HandlerStep(w) PROVE Goal
    <2>1. Next /\ UNCHANGED simVars
      BY <1>1, <1>2, HandlerFrame
    <2>2. ASSUME NEW v \in Workers, CommitPosting(v), NEW a \in Accounts PROVE balance'[a] >= 0
      <3>1. req[v] \in Payloads
        BY <1>1, <2>2 DEF CommitPosting, Typed, Known
      <3>2. Kind(req[v]) # "emi"
        BY <3>1 DEF SolventInputs, Kind
      <3>3. Change(req[v], a) \in Int /\ balance[a] \in Int /\ balance[a] >= 0
        BY <1>1, <3>1, AmountFacts DEF TicksNeverOverdraw, TypeOK
      <3> QED BY <1>1, <2>2, <3>2, <3>3, PostingStep
    <2>3. ASSUME NEW v \in Workers, CommitAccount(v), NEW a \in Accounts PROVE balance'[a] >= 0
      <3>1. req[v] \in Payloads /\ req[v].endpoint = "create_account"
        BY <1>1, <2>3 DEF CommitAccount, Typed, Known
      <3> QED BY <1>1, <2>3, <3>1 DEF CommitAccount, SolventInputs, TicksNeverOverdraw, TypeOK
    <2>4. TicksNeverOverdraw'
      BY <2>1, <2>2, <2>3, TableStep DEF TicksNeverOverdraw, table
    <2> QED BY <2>1, <2>4 DEF simVars
  <1>4. CASE TickRead
    <2>1. UNCHANGED <<balance, copy>>
      BY <1>4 DEF TickRead, vars, table
    <2>2. ASSUME tick' = "post" PROVE choice'.value >= 0
      <3>1. PICK a \in rows, t \in {"deposit", "withdrawal"}, m \in SimAmounts :
              choice' = ChooseTransaction(a, t, m)
        BY <1>4, <2>2 DEF TickRead, AtTick
      <3>2. balance[a] \in Int /\ balance[a] >= 0 /\ m \in Nat
        BY <1>1, SimAssumption DEF TicksNeverOverdraw, TypeOK
      <3> QED BY <3>1, <3>2 DEF ChooseTransaction
    <2> QED BY <2>1, <2>2 DEF TicksNeverOverdraw
  <1>5. CASE TickPost
    BY <1>1, <1>5 DEF TickPost, AtTick, TicksNeverOverdraw, TypeOK
  <1>6. ASSUME NEW l \in Loans, TickLoan(l) PROVE Goal
    <2> DEFINE a == LoanAccount[l]
               b == IF a \in DOMAIN copy THEN copy[a] ELSE balance[a]
    <2>1. a \in Accounts /\ EmiAmount[l] \in Nat
      BY SimAssumption, DbAssumption
    <2>2. b \in Int /\ b >= 0
      BY <1>1, <2>1 DEF TicksNeverOverdraw, TypeOK, SimTyped, SessionTyped
    <2>3. \A x \in DOMAIN copy' : copy'[x] >= 0
      BY <1>6, <2>1, <2>2 DEF TickLoan, EmiFits
    <2> QED BY <1>6, <2>3 DEF TickLoan, AtTick, TicksNeverOverdraw, vars, table
  <1>7. CASE TickCommitEmis
    BY <1>1, <1>7 DEF TickCommitEmis, AtTick, TicksNeverOverdraw, Empty, SimTyped, SessionTyped
  <1>8. CASE TickRaise
    BY <1>8 DEF TickRaise, TicksNeverOverdraw, Empty, table
  <1>9. CASE \/ TickScore \/ TickLoansDone \/ TickScan \/ TickBroadcast
             \/ \E a \in Accounts : TickUpdate(a)
    BY <1>9 DEF TickScore, TickLoansDone, TickScan, TickBroadcast, TickUpdate, AtTick, vars,
       table, TicksNeverOverdraw
  <1>10. CASE UNCHANGED allVars
    BY <1>10 DEF allVars, vars, table, simVars, TicksNeverOverdraw
  <1> QED BY <1>2, <1>4, <1>5, <1>6, <1>7, <1>8, <1>9, <1>10, StepCases DEF Tick

\* On PostgreSQL no tick takes a balance below zero, even when it computes with a
\* balance that is out of date by the time it writes (the BUG-023 check), unless
\* somebody posts an EMI or opens an account with a debt.
THEOREM TicksAreSolvent ==
  ASSUME RowLocks, SolventInputs PROVE SimSpec => []TicksNeverOverdraw
  <1>1. Solvent => TicksNeverOverdraw
    BY DEF Solvent
  <1> QED BY SolventInit, SolventNext, <1>1, PTL DEF SimSpec

-----------------------------------------------------------------------------
(* Lock order *)

\* The rows the tick holds are below those it still has to lock.
Ascending == \A a \in DOMAIN session[Sim] : \A b \in ToLock : a < b

Ordered == SimIsolated /\ Orderly(Handlers) /\ Ascending

\* Nobody holds a row at the start.
LEMMA OrderedInit == InitSim => Ordered
  <1> SUFFICES ASSUME InitSim PROVE Orderly(Handlers) /\ Ascending
    BY SimIsolatedInit DEF Ordered
  <1>1. Orderly(Handlers)
    BY OrderlyInit DEF InitSim, Orderly, Handlers
  <1>2. Ascending
    BY SimAssumption DEF InitSim, Init, Ascending, Empty
  <1> QED BY <1>1, <1>2

\* The tick locks its rows from the lowest up, and no handler's order depends on it.
LEMMA OrderedNext ==
  ASSUME RowLocks PROVE Ordered /\ [NextSim]_allVars => Ordered'
  <1> SUFFICES ASSUME Ordered, [NextSim]_allVars PROVE Orderly(Handlers)' /\ Ascending'
    BY SimIsolatedNext DEF Ordered
  <1>1. TypeOK /\ Typed /\ SimTyped /\ Isolated /\ Orderly(Handlers) /\ Ascending
    BY DEF Ordered, SimIsolated, SimTyped, Typed
  <1>2. ASSUME NEW w \in Handlers, HandlerStep(w) PROVE Orderly(Handlers)' /\ Ascending'
    <2>1. Next /\ UNCHANGED simVars /\ session'[Sim] = session[Sim]
      BY <1>1, <1>2, HandlerFrame
    <2>2. Orderly(Handlers)'
      BY <1>1, <2>1, OrderlyNext DEF Handlers
    <2>3. ToLock' = ToLock
      BY <2>1 DEF ToLock, Dirty, simVars
    <2> QED BY <1>1, <2>1, <2>2, <2>3 DEF Ascending
  <1>3. ASSUME UNCHANGED <<pc, req>>, \A v \in Handlers : session'[v] = session[v]
        PROVE  Orderly(Handlers)'
    BY <1>1, <1>3 DEF Orderly
  <1>4. CASE UNCHANGED <<pc, req, session>> /\ (UNCHANGED paid \/ DOMAIN session[Sim] = {})
    <2>1. Ascending'
      BY <1>1, <1>4 DEF Ascending, ToLock, Dirty
    <2> QED BY <1>3, <1>4, <2>1
  <1>5. ASSUME NEW a \in Accounts, TickUpdate(a) PROVE Orderly(Handlers)' /\ Ascending'
    <2>1. UNCHANGED <<pc, req>> /\ \A v \in Handlers : session'[v] = session[v]
      BY <1>1, <1>5, SimAssumption DEF TickUpdate, Handlers, TypeOK
    <2>2. DOMAIN session'[Sim] = DOMAIN session[Sim] \cup {a}
      BY <1>1, <1>5, SimAssumption DEF TickUpdate, TypeOK
    <2>3. ToLock' = ToLock \ {a} /\ ToLock \subseteq Accounts
      BY <1>5, <2>2 DEF TickUpdate, ToLock, Dirty
    <2>4. \A b \in ToLock' : a < b
      BY <1>5, <2>3, IdFacts DEF TickUpdate, UpdateNext
    <2>5. Ascending'
      BY <1>1, <2>2, <2>3, <2>4 DEF Ascending
    <2> QED BY <1>3, <2>1, <2>5
  <1>6. CASE TickCommitEmis \/ TickRaise
    <2>1. UNCHANGED <<pc, req>> /\ \A v \in Handlers : session'[v] = session[v]
      BY <1>1, <1>6, SimAssumption DEF TickCommitEmis, TickRaise, EndTick, Handlers, TypeOK
    <2>2. DOMAIN session'[Sim] = {}
      BY <1>1, <1>6, SimAssumption DEF TickCommitEmis, TickRaise, EndTick, Empty, TypeOK
    <2> QED BY <1>3, <2>1, <2>2 DEF Ascending
  <1>7. ASSUME NEW l \in Loans, TickLoan(l) PROVE UNCHANGED <<pc, req, session>> /\ DOMAIN session[Sim] = {}
    BY <1>1, <1>7 DEF TickLoan, AtTick, vars, threads, SimTyped, SessionTyped
  <1>8. TickRead \/ TickPost \/ TickScore \/ TickLoansDone \/ TickScan \/ TickBroadcast
          => UNCHANGED <<pc, req, session, paid>>
    BY DEF TickRead, TickPost, TickScore, TickLoansDone, TickScan, TickBroadcast, vars, threads
  <1>9. UNCHANGED allVars => UNCHANGED <<pc, req, session, paid>>
    BY DEF allVars, vars, threads, simVars
  <1> QED BY <1>2, <1>4, <1>5, <1>6, <1>7, <1>8, <1>9, StepCases DEF Tick

\* The row a thread of a circle waits for: the tick's next UPDATE, or the row a
\* handler fetches or names.
WaitedFor(u) == IF u = Sim THEN CHOOSE a : UpdateNext(a) ELSE Wanted(u)

\* Where ids are bounded every circle has a create_transaction in it: without one,
\* each member holds only rows below the one it waits for, so none can be waiting
\* for the greatest.
LEMMA OrderedHasNoCircle ==
  ASSUME RowLocks, NEW M \in Nat, Accounts \subseteq 1 .. M
  PROVE  Ordered => TickKeepsLockOrder
  <1> SUFFICES ASSUME Ordered,
                      NEW S \in SUBSET Workers, Circle(S),
                      \A w \in S \ {Sim} : req[w].endpoint # "create_transaction"
               PROVE  FALSE
    BY DEF TickKeepsLockOrder
  <1>1. TypeOK /\ Typed /\ SimTyped /\ Isolated /\ Orderly(Handlers) /\ Ascending
    BY DEF Ordered, SimIsolated, SimTyped, Typed
  <1>2. S # {} /\ \A u \in S : \E v \in S : Waits(u, v)
    BY DEF Circle
  <1>3. ASSUME NEW u \in S, NEW v \in S, Waits(u, v) PROVE WaitedFor(u) \in Locks(v)
    <2>1. CASE u = Sim
      <3>1. PICK a \in Locks(v) : UpdateNext(a)
        BY <1>3, <2>1 DEF Waits
      <3>2. \A b : UpdateNext(b) => b = a
        <4> TAKE b
        <4> HAVE UpdateNext(b)
        <4>1. a \in Int /\ b \in Int /\ a <= b /\ b <= a
          BY <3>1, IdFacts DEF UpdateNext, ToLock, Dirty
        <4> QED BY <4>1
      <3>3. (CHOOSE b : UpdateNext(b)) = a
        BY <3>1, <3>2
      <3> QED BY <2>1, <3>1, <3>3 DEF WaitedFor
    <2>2. CASE u # Sim
      BY <1>3, <2>2 DEF Waits, BlockedBy, WaitedFor
    <2> QED BY <2>1, <2>2
  <1>4. \A u \in S : WaitedFor(u) \in 1 .. M
    <2> TAKE u \in S
    <2>1. PICK v \in S : Waits(u, v)
      BY <1>2
    <2> QED BY <1>1, <1>3, <2>1 DEF Locks, TypeOK
  <1>5. ASSUME NEW v \in S, NEW a \in Locks(v) PROVE a < WaitedFor(v)
    <2>1. PICK x \in S : Waits(v, x)
      BY <1>2
    <2>2. CASE v = Sim
      <3>1. \E b : UpdateNext(b)
        BY <2>1, <2>2 DEF Waits
      <3>2. WaitedFor(v) \in ToLock
        BY <2>2, <3>1 DEF WaitedFor, UpdateNext
      <3> QED BY <1>1, <1>5, <2>2, <3>2 DEF Ascending, Locks
    <2>3. CASE v # Sim
      <3>1. Orderly({v}) /\ BlockedBy(v, x)
        BY <1>1, <2>1, <2>3 DEF Orderly, Handlers, Waits
      <3> QED BY <1>1, <1>5, <2>3, <3>1, HeldIsBelowWanted DEF WaitedFor
    <2> QED BY <2>2, <2>3
  <1> DEFINE T == {M - WaitedFor(w) : w \in S}
  <1>6. T \subseteq Nat /\ T # {}
    BY <1>2, <1>4
  <1>7. PICK m \in T : \A n \in T : m <= n
    BY <1>6, NaturalsLeast
  <1>8. PICK u \in S : m = M - WaitedFor(u)
    OBVIOUS
  <1>9. PICK v \in S : Waits(u, v)
    BY <1>2
  <1>10. WaitedFor(u) < WaitedFor(v)
    BY <1>3, <1>5, <1>9
  <1>11. m <= M - WaitedFor(v)
    BY <1>7
  <1> QED BY <1>4, <1>8, <1>10, <1>11

\* On PostgreSQL, where the ids of accounts are bounded, the tick adds no deadlock:
\* its UPDATEs go out in primary key order, user_transfer locks in that order too,
\* so a circle still needs a create_transaction.
THEOREM TicksKeepLockOrder ==
  ASSUME RowLocks, NEW M \in Nat, Accounts \subseteq 1 .. M
  PROVE  SimSpec => []TickKeepsLockOrder
  <1> QED BY OrderedInit, OrderedNext, OrderedHasNoCircle, PTL DEF SimSpec
=============================================================================
