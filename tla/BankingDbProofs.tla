--------------------------- MODULE BankingDbProofs ---------------------------
(***************************************************************************)
(* What BankingDb guarantees for any number of threads, accounts, users    *)
(* and requests: types, lock exclusion, the ledger, no deadlock of owners, *)
(* and that the handlers implement Bank.                                   *)
(***************************************************************************)
EXTENDS BankingDb, WellFoundedInduction, TLAPS

(* Facts about the requests *)

\* A request that moves money has a positive amount.
LEMMA PayloadFacts ==
  ASSUME NEW r \in Payloads
  PROVE  /\ r \in Request
         /\ r.endpoint \in Endpoints /\ r.user \in Users
         /\ r.type \in TransactionType
         /\ r.account \in AccountIds /\ r.counterparty \in AccountIds
         /\ r.amount \in Int
         /\ r.endpoint # "create_account" => r.amount \in Nat \ {0}
  BY PayloadsAssumption DEF Request

\* Account ids are integers, and no account has the id None.
LEMMA IdFacts == /\ AccountIds \subseteq Int
                 /\ None \notin Accounts
                 /\ Accounts \subseteq Int
  BY AccountsAssumption DEF AccountIds, Absent, None

\* The balance changes and the recorded amounts are integers.
LEMMA AmountFacts ==
  ASSUME NEW r \in Payloads, NEW a \in Accounts
  PROVE  /\ Change(r, a) \in Int
         /\ Posted(TransactionRow(r), a) \in Int
  BY PayloadFacts DEF Change, Credit, Debit, Posted, TransactionRow

-----------------------------------------------------------------------------
(* Types *)

\* A thread that is not idle serves a request somebody sent, and a new account
\* is only inserted under a number that was generated.
Known ==
  \A w \in Workers :
    /\ pc[w] # "idle" => req[w] \in Payloads
    /\ pc[w] = "second" => IsTransfer(req[w])
    /\ pc[w] = "commit" /\ req[w].endpoint = "create_account"
         => number[w] \in Accounts

Typed == TypeOK /\ Known

\* The tables start with seeded rows, and every thread is idle.
LEMMA TypedInit == Init => Typed
  <1> SUFFICES ASSUME Init PROVE Typed
    OBVIOUS
  <1> USE DbAssumption DEF Init
  <1>1. TypeOK
    BY DEF TypeOK, Labels, Empty, AccountIds, Absent
  <1>2. Known
    BY DEF Known
  <1> QED BY <1>1, <1>2 DEF Typed

\* Fetching adds at most one row that exists, with an integer balance.
LEMMA FetchTyped ==
  ASSUME TypeOK, NEW w \in Workers, NEW id, Fetch(w, id)
  PROVE  /\ DOMAIN session' = Workers
         /\ \A v \in Workers : /\ DOMAIN session'[v] \subseteq Accounts
                               /\ session'[v] \in [DOMAIN session'[v] -> Int]
         /\ UNCHANGED <<table, req, number, reply, asked>>
  <1>1. DOMAIN session' = Workers
    BY DEF Fetch, TypeOK
  <1>2. ASSUME NEW v \in Workers
        PROVE  /\ DOMAIN session'[v] \subseteq Accounts
               /\ session'[v] \in [DOMAIN session'[v] -> Int]
    <2>1. CASE v # w
      BY <2>1 DEF Fetch, TypeOK
    <2>2. CASE v = w
      BY <2>2 DEF Fetch, TypeOK
    <2> QED BY <2>1, <2>2
  <1> QED BY <1>1, <1>2 DEF Fetch

\* Every step of a handler keeps the types of the tables and the sessions.
LEMMA TypedNext == Typed /\ [Next]_vars => Typed'
  <1> SUFFICES ASSUME Typed, [Next]_vars PROVE Typed'
    OBVIOUS
  <1> USE DEF Typed
  <1>1. ASSUME NEW w \in Workers, NEW r \in Payloads, Submit(w, r) PROVE Typed'
    BY <1>1, DbAssumption DEF Submit, Goto, TypeOK, Labels, Known, table
  <1>2. ASSUME NEW w \in Workers, Reject(w) PROVE Typed'
    BY <1>2 DEF Reject, Goto, TypeOK, Labels, Known, table
  <1>3. ASSUME NEW w \in Workers, FetchFirst(w) PROVE Typed'
    <2>1. Fetch(w, First(req[w]))
      BY <1>3 DEF FetchFirst
    <2>2. pc' \in [Workers -> Labels] /\ \A v \in Workers : v # w => pc'[v] = pc[v]
      BY <1>3 DEF FetchFirst, Goto, TypeOK, Labels
    <2>3. TypeOK'
      BY <2>1, <2>2, FetchTyped DEF TypeOK, table
    <2>4. Known'
      BY <1>3, <2>1, <2>2 DEF FetchFirst, Fetch, Known, Goto, TypeOK
    <2> QED BY <2>3, <2>4
  <1>4. ASSUME NEW w \in Workers, FetchSecond(w) PROVE Typed'
    <2>1. Fetch(w, Second(req[w]))
      BY <1>4 DEF FetchSecond
    <2>2. pc' \in [Workers -> Labels] /\ \A v \in Workers : v # w => pc'[v] = pc[v]
      BY <1>4 DEF FetchSecond, Goto, TypeOK, Labels
    <2>3. TypeOK'
      BY <2>1, <2>2, FetchTyped DEF TypeOK, table
    <2>4. Known'
      BY <1>4, <2>1, <2>2 DEF FetchSecond, Fetch, Known, IsTransfer
    <2> QED BY <2>3, <2>4
  <1>5. ASSUME NEW w \in Workers, CommitPosting(w) PROVE Typed'
    <2> DEFINE r == req[w]
    <2>1. r \in Payloads /\ r.endpoint # "create_account"
      BY <1>5 DEF CommitPosting, Known
    <2>2. balance' \in [Accounts -> Int]
      BY <1>5, <2>1, AmountFacts DEF CommitPosting, TypeOK
    <2>3. ledger' \in [Accounts -> Int]
      BY <1>5, <2>1, AmountFacts DEF CommitPosting, TypeOK
    <2>4. emi' \in [Accounts -> Nat]
      BY <1>5, <2>1, PayloadFacts DEF CommitPosting, TypeOK, TransactionRow
    <2>5. /\ DOMAIN session' = Workers
          /\ \A v \in Workers : /\ DOMAIN session'[v] \subseteq Accounts
                                /\ session'[v] \in [DOMAIN session'[v] -> Int]
      BY <1>5 DEF CommitPosting, EndTransaction, Empty, TypeOK
    <2>6. TypeOK'
      BY <1>5, <2>2, <2>3, <2>4, <2>5 DEF CommitPosting, Goto, TypeOK, Labels
    <2>7. Known'
      BY <1>5 DEF CommitPosting, Goto, TypeOK, Known
    <2> QED BY <2>6, <2>7
  <1>6. ASSUME NEW w \in Workers, GenerateNumber(w) PROVE Typed'
    BY <1>6 DEF GenerateNumber, Goto, TypeOK, Labels, Known, table, AccountIds
  <1>7. ASSUME NEW w \in Workers, NoNumberLeft(w) PROVE Typed'
    BY <1>7 DEF NoNumberLeft, Goto, TypeOK, Labels, Known, table
  <1>8. ASSUME NEW w \in Workers, CommitAccount(w) PROVE Typed'
    <2>1. /\ req[w] \in Payloads
          /\ number[w] \in Accounts
      BY <1>8 DEF CommitAccount, Known
    <2>2. TypeOK'
      BY <1>8, <2>1, PayloadFacts DEF CommitAccount, Goto, TypeOK, Labels
    <2>3. Known'
      BY <1>8 DEF CommitAccount, Goto, TypeOK, Known
    <2> QED BY <2>2, <2>3
  <1>9. ASSUME NEW w \in Workers, ConstraintFails(w) PROVE Typed'
    BY <1>9 DEF ConstraintFails, Goto, TypeOK, Labels, Known, table
  <1>10. ASSUME NEW w \in Workers, VictimAborts(w) PROVE Typed'
    <2>1. pc[w] # "idle"
      BY <1>10 DEF VictimAborts, Deadlocked, BlockedBy
    <2> QED BY <1>10, <2>1 DEF VictimAborts, Goto, TypeOK, Labels, Known, table
  <1>11. ASSUME NEW w \in Workers, Fail(w) PROVE Typed'
    BY <1>11 DEF Fail, Goto, TypeOK, Labels, Known, table
  <1>12. ASSUME NEW w \in Workers, Finish(w) PROVE Typed'
    <2>1. /\ DOMAIN session' = Workers
          /\ \A v \in Workers : /\ DOMAIN session'[v] \subseteq Accounts
                                /\ session'[v] \in [DOMAIN session'[v] -> Int]
      BY <1>12 DEF Finish, EndTransaction, Empty, TypeOK
    <2>2. TypeOK'
      BY <1>12, <2>1 DEF Finish, Goto, TypeOK, Labels, table, AccountIds, Absent
    <2>3. Known'
      BY <1>12 DEF Finish, Goto, TypeOK, Known
    <2> QED BY <2>2, <2>3
  <1>13. CASE UNCHANGED vars
    BY <1>13 DEF vars, table, threads, TypeOK, Known
  <1> QED
    BY <1>1, <1>2, <1>3, <1>4, <1>5, <1>6, <1>7, <1>8, <1>9, <1>10, <1>11,
       <1>12, <1>13 DEF Next, Handler, Quiet

\* Every variable keeps its type in every behaviour, whatever the number of
\* threads and requests, with and without row locks (BankingDb's tables and
\* sessions).
THEOREM TypeCorrect == Spec => []TypeOK
  <1>1. Typed => TypeOK
    BY DEF Typed
  <1> QED BY TypedInit, TypedNext, <1>1, PTL DEF Spec

-----------------------------------------------------------------------------
(* Row locks *)

\* What a handler has established when it waits for its second row, and when it
\* is about to commit: every check of the request, on the rows it holds.
Checked ==
  \A w \in Workers :
    /\ pc[w] \in {"second", "commit"} => ~Malformed(req[w])
    /\ pc[w] = "second" /\ req[w].endpoint = "create_transaction"
         => req[w].account \in DOMAIN session[w] \ Frozen
    /\ pc[w] = "commit" /\ req[w].endpoint # "create_account"
         => Allowed(req[w], DOMAIN session[w], owner, session[w])

\* The rows in the sessions, and what the handlers know of them.
Isolated == Typed /\ LocksExclusive /\ ReadsCurrent /\ Checked

\* Nobody holds a row at the start.
LEMMA IsolatedInit == Init => Isolated
  <1> SUFFICES ASSUME Init PROVE Isolated
    OBVIOUS
  <1>1. Typed
    BY TypedInit
  <1>2. LocksExclusive /\ ReadsCurrent /\ Checked
    BY DEF Init, LocksExclusive, ReadsCurrent, Checked, Locks, Empty
  <1> QED BY <1>1, <1>2 DEF Isolated

\* A row that a thread fetches is held by nobody else and read as it is.
LEMMA FetchIsolated ==
  ASSUME RowLocks, TypeOK, LocksExclusive, ReadsCurrent,
         NEW w \in Workers, Fetch(w, Wanted(w)),
         pc[w] \in {"begin", "second"}, req[w].endpoint # "create_account"
  PROVE  /\ LocksExclusive' /\ ReadsCurrent'
         /\ \A v \in Workers : v # w => session'[v] = session[v]
         /\ DOMAIN session'[w] = DOMAIN session[w] \cup ({Wanted(w)} \cap rows)
  <1>1. \A v \in Workers : v # w => Wanted(w) \notin DOMAIN session[v]
    BY DEF Fetch, Blocked, BlockedBy, Locks
  <1>2. /\ \A v \in Workers : v # w => session'[v] = session[v]
        /\ DOMAIN session'[w] = DOMAIN session[w] \cup ({Wanted(w)} \cap rows)
        /\ \A a \in DOMAIN session'[w] :
             session'[w][a] = IF a \in DOMAIN session[w] THEN session[w][a]
                              ELSE balance[a]
    BY DEF Fetch, TypeOK
  <1>3. LocksExclusive'
    BY <1>1, <1>2 DEF LocksExclusive, Locks
  <1>4. rows' = rows /\ balance' = balance
    BY DEF Fetch, table
  <1>5. ReadsCurrent'
    BY <1>2, <1>4 DEF ReadsCurrent, Locks
  <1> QED BY <1>2, <1>3, <1>5

\* Every step keeps the rows locked once, the reads current and the checks valid:
\* a commit changes only rows its thread holds, and nobody else has read those.
LEMMA IsolatedNext ==
  ASSUME RowLocks PROVE Isolated /\ [Next]_vars => Isolated'
  <1> SUFFICES ASSUME Isolated, [Next]_vars PROVE Isolated'
    OBVIOUS
  <1>0. Typed'
    BY TypedNext DEF Isolated
  <1> USE DEF Isolated
  <1> SUFFICES LocksExclusive' /\ ReadsCurrent' /\ Checked'
    BY <1>0
  <1>1. ASSUME NEW w \in Workers, NEW r \in Payloads, Submit(w, r)
        PROVE  LocksExclusive' /\ ReadsCurrent' /\ Checked'
    BY <1>1 DEF Submit, Goto, Typed, TypeOK, table, LocksExclusive, ReadsCurrent,
                Checked, Locks
  <1>2. ASSUME NEW w \in Workers, Reject(w)
        PROVE  LocksExclusive' /\ ReadsCurrent' /\ Checked'
    BY <1>2 DEF Reject, Goto, Typed, TypeOK, table, LocksExclusive, ReadsCurrent,
                Checked, Locks
  <1>3. ASSUME NEW w \in Workers, FetchFirst(w)
        PROVE  LocksExclusive' /\ ReadsCurrent' /\ Checked'
    <2>1. Fetch(w, Wanted(w))
      BY <1>3 DEF FetchFirst, Wanted
    <2>2. /\ LocksExclusive' /\ ReadsCurrent'
          /\ \A v \in Workers : v # w => session'[v] = session[v]
      BY <1>3, <2>1, FetchIsolated DEF FetchFirst, Typed
    <2>3. UNCHANGED <<owner, req>>
      BY <2>1 DEF Fetch, table
    <2>4. pc' = [pc EXCEPT ![w] = pc'[w]]
      BY <1>3 DEF FetchFirst, Goto, Typed, TypeOK
    <2>5. ~Malformed(req[w]) /\ req[w].endpoint # "create_account"
      BY <1>3 DEF FetchFirst
    <2>6. pc'[w] \in {"second", "commit"} => ~RefusedFirst(req[w], session'[w])
      BY <1>3 DEF FetchFirst, Goto, Typed, TypeOK
    <2>7. pc'[w] = "commit" => ~IsTransfer(req[w])
      BY <1>3 DEF FetchFirst, Goto, Typed, TypeOK
    <2>8. req[w] \in Payloads
      BY <1>3 DEF FetchFirst, Typed, Known
    <2>9. ASSUME pc'[w] = "second", req[w].endpoint = "create_transaction"
          PROVE  req[w].account \in DOMAIN session'[w] \ Frozen
      BY <2>6, <2>9 DEF RefusedFirst
    <2>10. ASSUME pc'[w] = "commit"
           PROVE  Allowed(req[w], DOMAIN session'[w], owner, session'[w])
      <3>1. req[w].endpoint \in {"create_transaction", "create_user_transaction"}
        BY <2>5, <2>7, <2>8, <2>10, PayloadFacts DEF IsTransfer, Kind, Endpoints
      <3>2. Kind(req[w]) = req[w].type /\ req[w].type # "transfer"
        BY <2>5, <2>7, <2>10, <3>1 DEF IsTransfer, Kind, Malformed
      <3>3. ~RefusedFirst(req[w], session'[w])
        BY <2>6, <2>10
      <3>4. session'[w][req[w].account] \in Int
        BY <1>0, <3>1, <3>3 DEF Typed, TypeOK, RefusedFirst
      <3> QED BY <2>5, <2>8, <3>1, <3>2, <3>3, <3>4, PayloadFacts
              DEF RefusedFirst, Allowed
    <2>11. Checked'
      BY <2>2, <2>3, <2>4, <2>5, <2>9, <2>10 DEF Checked, Typed, TypeOK
    <2> QED BY <2>2, <2>11
  <1>4. ASSUME NEW w \in Workers, FetchSecond(w)
        PROVE  LocksExclusive' /\ ReadsCurrent' /\ Checked'
    <2>1. Fetch(w, Wanted(w))
      BY <1>4 DEF FetchSecond, Wanted
    <2>2. /\ req[w] \in Payloads /\ IsTransfer(req[w])
          /\ ~Malformed(req[w]) /\ req[w].endpoint # "create_account"
      BY <1>4 DEF FetchSecond, Typed, Known, Checked, IsTransfer
    <2>3. /\ LocksExclusive' /\ ReadsCurrent'
          /\ \A v \in Workers : v # w => session'[v] = session[v]
      BY <1>4, <2>1, <2>2, FetchIsolated DEF FetchSecond, Typed
    <2>4. UNCHANGED <<owner, req>>
      BY <2>1 DEF Fetch, table
    <2>5. pc' = [pc EXCEPT ![w] = pc'[w]] /\ pc'[w] # "second"
      BY <1>4 DEF FetchSecond, Goto, Typed, TypeOK
    <2>6. ASSUME pc'[w] = "commit"
          PROVE  Allowed(req[w], DOMAIN session'[w], owner, session'[w])
      <3>1. ~RefusedSecond(req[w], session'[w])
        BY <1>4, <2>6 DEF FetchSecond, Goto, Typed, TypeOK
      <3>2. session'[w][req[w].account] \in Int
        BY <1>0, <3>1 DEF Typed, TypeOK, RefusedSecond
      <3> QED BY <2>2, <3>1, <3>2, PayloadFacts
              DEF RefusedSecond, Allowed, IsTransfer
    <2>7. Checked'
      BY <2>2, <2>3, <2>4, <2>5, <2>6 DEF Checked, Typed, TypeOK
    <2> QED BY <2>3, <2>7
  <1>5. ASSUME NEW w \in Workers, CommitPosting(w)
        PROVE  LocksExclusive' /\ ReadsCurrent' /\ Checked'
    <2>1. /\ DOMAIN session'[w] = {}
          /\ \A v \in Workers : v # w => session'[v] = session[v]
      BY <1>5 DEF CommitPosting, EndTransaction, Empty, Typed, TypeOK
    <2>2. LocksExclusive'
      BY <2>1 DEF LocksExclusive, Locks
    <2>3. \A a \in Accounts \ DOMAIN session[w] : balance'[a] = balance[a]
      BY <1>5 DEF CommitPosting
    <2>4. \A v \in Workers : v # w => \A a \in DOMAIN session[v] :
            a \in Accounts \ DOMAIN session[w]
      BY DEF LocksExclusive, Locks, Typed, TypeOK
    <2>5. ReadsCurrent'
      BY <1>5, <2>1, <2>3, <2>4 DEF ReadsCurrent, Locks, CommitPosting
    <2>6. Checked'
      BY <1>5, <2>1 DEF CommitPosting, Goto, Checked, Typed, TypeOK
    <2> QED BY <2>2, <2>5, <2>6
  <1>6. ASSUME NEW w \in Workers, GenerateNumber(w)
        PROVE  LocksExclusive' /\ ReadsCurrent' /\ Checked'
    <2>1. LocksExclusive' /\ ReadsCurrent'
      BY <1>6 DEF GenerateNumber, table, LocksExclusive, ReadsCurrent, Locks
    <2>2. Checked'
      BY <1>6 DEF GenerateNumber, Goto, table, Checked, Typed, TypeOK, Malformed
    <2> QED BY <2>1, <2>2
  <1>7. ASSUME NEW w \in Workers, NoNumberLeft(w)
        PROVE  LocksExclusive' /\ ReadsCurrent' /\ Checked'
    BY <1>7 DEF NoNumberLeft, Goto, Typed, TypeOK, table, LocksExclusive,
                ReadsCurrent, Checked, Locks
  <1>8. ASSUME NEW w \in Workers, CommitAccount(w)
        PROVE  LocksExclusive' /\ ReadsCurrent' /\ Checked'
    <2>1. LocksExclusive'
      BY <1>8 DEF CommitAccount, LocksExclusive, Locks
    <2>2. \A a \in rows : /\ a \in rows' /\ a \in Accounts
                          /\ balance'[a] = balance[a] /\ owner'[a] = owner[a]
      BY <1>8 DEF CommitAccount, Typed, TypeOK
    <2>3. \A v \in Workers : \A a \in DOMAIN session[v] : a \in rows
      BY DEF ReadsCurrent, Locks
    <2>4. ReadsCurrent'
      BY <1>8, <2>2, <2>3 DEF CommitAccount, ReadsCurrent, Locks
    <2>5. \A v \in Workers : v # w => pc'[v] = pc[v]
      BY <1>8 DEF CommitAccount, Goto, Typed, TypeOK
    <2>6. UNCHANGED <<req, session>> /\ pc'[w] = "refresh"
      BY <1>8 DEF CommitAccount, Goto, Typed, TypeOK
    <2>7. ASSUME NEW v \in Workers, pc[v] = "commit", v # w,
                 req[v].endpoint # "create_account"
          PROVE  Allowed(req[v], DOMAIN session[v], owner', session[v])
      BY <2>2, <2>3, <2>7 DEF Checked, Allowed
    <2>8. Checked'
      BY <2>5, <2>6, <2>7 DEF Checked
    <2> QED BY <2>1, <2>4, <2>8
  <1>9. ASSUME NEW w \in Workers, ConstraintFails(w)
        PROVE  LocksExclusive' /\ ReadsCurrent' /\ Checked'
    BY <1>9 DEF ConstraintFails, Goto, Typed, TypeOK, table, LocksExclusive,
                ReadsCurrent, Checked, Locks
  <1>10. ASSUME NEW w \in Workers, VictimAborts(w)
         PROVE  LocksExclusive' /\ ReadsCurrent' /\ Checked'
    BY <1>10 DEF VictimAborts, Goto, Typed, TypeOK, table, LocksExclusive,
                 ReadsCurrent, Checked, Locks
  <1>11. ASSUME NEW w \in Workers, Fail(w)
         PROVE  LocksExclusive' /\ ReadsCurrent' /\ Checked'
    BY <1>11 DEF Fail, Goto, Typed, TypeOK, table, LocksExclusive,
                 ReadsCurrent, Checked, Locks
  <1>12. ASSUME NEW w \in Workers, Finish(w)
         PROVE  LocksExclusive' /\ ReadsCurrent' /\ Checked'
    <2>1. /\ DOMAIN session'[w] = {}
          /\ \A v \in Workers : /\ v # w => session'[v] = session[v]
                                /\ v # w => pc'[v] = pc[v]
                                /\ v # w => req'[v] = req[v]
          /\ pc'[w] = "idle"
          /\ UNCHANGED table
      BY <1>12 DEF Finish, EndTransaction, Goto, Empty, Typed, TypeOK
    <2>2. LocksExclusive' /\ ReadsCurrent' /\ Checked'
      BY <2>1 DEF LocksExclusive, ReadsCurrent, Checked, Locks, table
    <2> QED BY <2>2
  <1>13. CASE UNCHANGED vars
    BY <1>13 DEF vars, table, threads, LocksExclusive, ReadsCurrent, Checked, Locks
  <1> QED
    BY <1>1, <1>2, <1>3, <1>4, <1>5, <1>6, <1>7, <1>8, <1>9, <1>10, <1>11,
       <1>12, <1>13 DEF Next, Handler, Quiet

\* On PostgreSQL no two handlers hold the same account row
\* (_get_account_with_lock).
THEOREM RowsLockedOnce == ASSUME RowLocks PROVE Spec => []LocksExclusive
  <1>1. Isolated => LocksExclusive
    BY DEF Isolated
  <1> QED BY IsolatedInit, IsolatedNext, <1>1, PTL DEF Spec

\* On PostgreSQL what a handler read stays true until it commits: it checks and
\* changes the balances of the table, never old ones.
THEOREM NoStaleRead == ASSUME RowLocks PROVE Spec => []ReadsCurrent
  <1>1. Isolated => ReadsCurrent
    BY DEF Isolated
  <1> QED BY IsolatedInit, IsolatedNext, <1>1, PTL DEF Spec

-----------------------------------------------------------------------------
(* Money *)

\* A request that passed its checks changes the balances by what its
\* Transaction row says, and takes no more than there is.
LEMMA PostingFacts ==
  ASSUME NEW r \in Payloads, r.endpoint # "create_account",
         NEW s, NEW own, Allowed(r, DOMAIN s, own, s), NEW a \in Accounts,
         \A x \in DOMAIN s : s[x] \in Int
  PROVE  /\ Posted(TransactionRow(r), a) = Change(r, a)
         /\ Change(r, a) # 0 => a \in DOMAIN s
         /\ Change(r, a) < 0 /\ Kind(r) # "emi" => s[a] + Change(r, a) >= 0
         /\ Kind(r) = "emi" =>
              Change(r, a) = - (IF a = r.account THEN r.amount ELSE 0)
  <1>1. Kind(r) \in TransactionType
    BY PayloadFacts DEF Kind, TransactionType
  <1>2. r.endpoint = "create_user_transaction" => Kind(r) # "transfer"
    BY DEF Allowed, Malformed, Kind
  <1> DEFINE t == TransactionRow(r)
  <1>3. /\ t.account = r.account /\ t.type = Kind(r) /\ t.amount = r.amount
        /\ Kind(r) = "transfer" => t.counterparty = r.counterparty
    BY <1>2 DEF TransactionRow
  <1>4. Posted(t, a) = Change(r, a)
    BY <1>1, <1>3, PayloadFacts
       DEF Posted, Change, Credit, Debit, TransactionType
  <1>5. Change(r, a) # 0 => a = r.account \/ (Kind(r) = "transfer" /\ a = r.counterparty)
    BY PayloadFacts DEF Change, Credit, Debit
  <1>6. Change(r, a) # 0 => a \in DOMAIN s
    BY <1>5 DEF Allowed
  <1>7. Change(r, a) < 0 /\ Kind(r) # "emi" => s[a] + Change(r, a) >= 0
    BY <1>6, PayloadFacts DEF Change, Credit, Debit, Allowed
  <1>8. Kind(r) = "emi" => Change(r, a) = - (IF a = r.account THEN r.amount ELSE 0)
    BY PayloadFacts DEF Change, Credit, Debit
  <1> QED BY <1>4, <1>6, <1>7, <1>8

\* A commit changes each balance of the table and its Transaction rows by the
\* same amount, that of the request.
LEMMA PostingStep ==
  ASSUME RowLocks, Isolated, NEW w \in Workers, CommitPosting(w), NEW a \in Accounts
  PROVE  /\ balance'[a] = balance[a] + Change(req[w], a)
         /\ ledger'[a] = ledger[a] + Change(req[w], a)
         /\ emi'[a] = emi[a] + IF Kind(req[w]) = "emi" /\ a = req[w].account
                                THEN req[w].amount ELSE 0
         /\ opening'[a] = opening[a]
         /\ Change(req[w], a) # 0 => a \in rows
         /\ Change(req[w], a) < 0 /\ Kind(req[w]) # "emi"
              => balance[a] + Change(req[w], a) >= 0
         /\ Kind(req[w]) = "emi" => Change(req[w], a) =
              - (IF a = req[w].account THEN req[w].amount ELSE 0)
  <1> DEFINE r == req[w]
             s == session[w]
  <1>1. r \in Payloads /\ r.endpoint # "create_account"
    BY DEF CommitPosting, Isolated, Typed, Known
  <1>2. Allowed(r, DOMAIN s, owner, s)
    BY DEF CommitPosting, Isolated, Checked
  <1>3. \A x \in DOMAIN s : s[x] \in Int /\ s[x] = balance[x] /\ x \in rows
    BY DEF Isolated, Typed, TypeOK, ReadsCurrent, Locks
  <1>4. balance'[a] = balance[a] + Change(r, a)
    BY <1>1, <1>2, <1>3, PostingFacts, AmountFacts
       DEF CommitPosting, Isolated, Typed, TypeOK
  <1>5. ledger'[a] = ledger[a] + Change(r, a)
    BY <1>1, <1>2, <1>3, PostingFacts DEF CommitPosting
  <1>6. emi'[a] = emi[a] + IF Kind(r) = "emi" /\ a = r.account THEN r.amount ELSE 0
    BY DEF CommitPosting, TransactionRow
  <1>7. opening'[a] = opening[a]
    BY DEF CommitPosting
  <1>8. /\ Change(r, a) # 0 => a \in DOMAIN s
        /\ Change(r, a) < 0 /\ Kind(r) # "emi" => s[a] + Change(r, a) >= 0
        /\ Kind(r) = "emi" =>
             Change(r, a) = - (IF a = r.account THEN r.amount ELSE 0)
    BY <1>1, <1>2, <1>3, PostingFacts
  <1>9. Change(r, a) \in Int
    BY <1>1, AmountFacts
  <1> QED BY <1>3, <1>4, <1>5, <1>6, <1>7, <1>8, <1>9

\* Only the two commits change a table.
LEMMA TableStep ==
  [Next]_vars => \/ \E w \in Workers : CommitPosting(w) \/ CommitAccount(w)
                 \/ UNCHANGED table
  BY DEF Next, Handler, Quiet, vars, Submit, Reject, FetchFirst, FetchSecond,
         Fetch, GenerateNumber, NoNumberLeft, ConstraintFails, VictimAborts,
         Fail, Finish

\* No Transaction row has moved money of an account that does not exist yet.
Untouched == \A a \in Accounts \ rows : ledger[a] = 0

Sound == Isolated /\ LedgerAgrees /\ NoOverdraft /\ Untouched

\* The seeded rows agree with an empty ledger.
LEMMA SoundInit == Init => Sound
  <1> SUFFICES ASSUME Init PROVE LedgerAgrees /\ NoOverdraft /\ Untouched
    BY IsolatedInit DEF Sound
  <1> QED BY DbAssumption DEF Init, LedgerAgrees, NoOverdraft, Untouched

\* Every step keeps the ledger and the balances in agreement: only a commit
\* changes either, and it changes both.
LEMMA SoundNext == ASSUME RowLocks PROVE Sound /\ [Next]_vars => Sound'
  <1> SUFFICES ASSUME Sound, [Next]_vars PROVE Sound'
    OBVIOUS
  <1>0. Isolated'
    BY IsolatedNext DEF Sound
  <1> USE DEF Sound
  <1> SUFFICES LedgerAgrees' /\ NoOverdraft' /\ Untouched'
    BY <1>0
  <1>1. ASSUME NEW w \in Workers, CommitPosting(w)
        PROVE  LedgerAgrees' /\ NoOverdraft' /\ Untouched'
    <2> DEFINE r == req[w]
    <2>1. r \in Payloads /\ r.endpoint # "create_account"
      BY <1>1 DEF CommitPosting, Isolated, Typed, Known
    <2>2. LedgerAgrees'
      BY <1>1, <2>1, PostingStep, AmountFacts DEF LedgerAgrees, Isolated, Typed, TypeOK
    <2>3. ASSUME NEW a \in Accounts
          PROVE  balance'[a] + emi'[a] >= IF opening'[a] < 0 THEN opening'[a] ELSE 0
      <3>1. /\ balance[a] \in Int /\ emi[a] \in Nat /\ opening[a] \in Int
            /\ Change(r, a) \in Int /\ r.amount \in Nat
        BY <2>1, AmountFacts, PayloadFacts DEF Isolated, Typed, TypeOK
      <3>2. balance[a] + emi[a] >= IF opening[a] < 0 THEN opening[a] ELSE 0
        BY DEF NoOverdraft
      <3>3. CASE Kind(r) = "emi" \/ Change(r, a) < 0
        BY <1>1, <3>1, <3>2, <3>3, PostingStep
      <3>4. CASE Kind(r) # "emi" /\ Change(r, a) >= 0
        BY <1>1, <3>1, <3>2, <3>4, PostingStep
      <3> QED BY <3>1, <3>3, <3>4
    <2>4. Untouched'
      BY <1>1, PostingStep DEF CommitPosting, Untouched, Isolated, Typed, TypeOK
    <2> QED BY <2>2, <2>3, <2>4 DEF NoOverdraft
  <1>2. ASSUME NEW w \in Workers, CommitAccount(w)
        PROVE  LedgerAgrees' /\ NoOverdraft' /\ Untouched'
    <2> DEFINE n == number[w]
    <2>1. /\ n \in Accounts \ rows /\ req[w] \in Payloads
          /\ balance' = [balance EXCEPT ![n] = req[w].amount]
          /\ opening' = [opening EXCEPT ![n] = req[w].amount]
          /\ UNCHANGED <<ledger, emi>> /\ rows' = rows \cup {n}
      BY <1>2 DEF CommitAccount, Isolated, Typed, Known
    <2>2. req[w].amount \in Int
      BY <2>1, PayloadFacts
    <2>3. LedgerAgrees'
      BY <2>1, <2>2 DEF LedgerAgrees, Untouched, Isolated, Typed, TypeOK
    <2>4. NoOverdraft'
      BY <2>1, <2>2 DEF NoOverdraft, Isolated, Typed, TypeOK
    <2> QED BY <2>1, <2>3, <2>4 DEF Untouched
  <1>3. CASE UNCHANGED table
    BY <1>3 DEF table, LedgerAgrees, NoOverdraft, Untouched
  <1> QED BY <1>1, <1>2, <1>3, TableStep

\* On PostgreSQL every balance is what its account was opened with plus its
\* Transaction rows, whatever the handlers do at once.
THEOREM LedgerIsComplete == ASSUME RowLocks PROVE Spec => []LedgerAgrees
  <1>1. Sound => LedgerAgrees
    BY DEF Sound
  <1> QED BY SoundInit, SoundNext, <1>1, PTL DEF Spec

\* On PostgreSQL only EMI rows and a negative initial deposit take a balance
\* below zero: concurrent withdrawals and transfers never do.
THEOREM NobodyOverdraws == ASSUME RowLocks PROVE Spec => []NoOverdraft
  <1>1. Sound => NoOverdraft
    BY DEF Sound
  <1> QED BY SoundInit, SoundNext, <1>1, PTL DEF Spec

-----------------------------------------------------------------------------
(* Deadlock: user_transfer locks rows in ascending order, so along a chain of *)
(* waiting threads the row that is waited for climbs, and no chain of owners   *)
(* closes to a circle.                                                         *)

\* A handler of W holds nothing before its first row, and nothing but that row
\* before its second.
Orderly(W) ==
  \A w \in W :
    /\ pc[w] \in {"idle", "begin"} => DOMAIN session[w] = {}
    /\ pc[w] = "second" => DOMAIN session[w] \subseteq {First(req[w])}

\* No thread holds a row at the start.
LEMMA OrderlyInit == Init => Orderly(Workers)
  BY DEF Init, Orderly, Empty

\* Owners' requests lock their rows in ascending order, whatever step is taken.
LEMMA OrderlyNext ==
  ASSUME RowLocks, NEW W \in SUBSET Workers
  PROVE  Isolated /\ Orderly(W) /\ [Next]_vars => Orderly(W)'
  <1> SUFFICES ASSUME Isolated, Orderly(W), [Next]_vars PROVE Orderly(W)'
    OBVIOUS
  <1>0. TypeOK /\ Known
    BY DEF Isolated, Typed
  <1>1. ASSUME NEW w \in Workers, NEW r \in Payloads, Submit(w, r) PROVE Orderly(W)'
    BY <1>0, <1>1 DEF Submit, Goto, TypeOK, Orderly
  <1>2. ASSUME NEW w \in Workers, FetchFirst(w) PROVE Orderly(W)'
    <2>1. /\ Fetch(w, Wanted(w)) /\ Wanted(w) = First(req[w])
          /\ pc[w] = "begin" /\ req[w].endpoint # "create_account"
      BY <1>2 DEF FetchFirst, Wanted
    <2>2. /\ \A v \in Workers : v # w => session'[v] = session[v]
          /\ DOMAIN session'[w] = DOMAIN session[w] \cup ({Wanted(w)} \cap rows)
      BY <1>0, <2>1, FetchIsolated DEF Isolated
    <2>3. w \in W => DOMAIN session'[w] \subseteq {First(req[w])}
      BY <2>1, <2>2 DEF Orderly
    <2>4. /\ req' = req /\ pc'[w] \notin {"idle", "begin"}
          /\ \A v \in Workers : v # w => pc'[v] = pc[v]
      BY <1>0, <1>2, <2>1 DEF FetchFirst, Fetch, Goto, TypeOK
    <2> QED BY <2>2, <2>3, <2>4 DEF Orderly
  <1>3. ASSUME NEW w \in Workers, FetchSecond(w) PROVE Orderly(W)'
    <2>1. /\ Fetch(w, Wanted(w)) /\ pc[w] = "second"
          /\ req[w].endpoint # "create_account"
      BY <1>0, <1>3 DEF FetchSecond, Wanted, Known, IsTransfer
    <2>2. \A v \in Workers : v # w => session'[v] = session[v]
      BY <1>0, <2>1, FetchIsolated DEF Isolated
    <2>3. /\ req' = req /\ pc'[w] \notin {"idle", "begin", "second"}
          /\ \A v \in Workers : v # w => pc'[v] = pc[v]
      BY <1>0, <1>3, <2>1 DEF FetchSecond, Fetch, Goto, TypeOK
    <2> QED BY <2>2, <2>3 DEF Orderly
  <1>4. ASSUME NEW w \in Workers, CommitPosting(w) PROVE Orderly(W)'
    BY <1>0, <1>4 DEF CommitPosting, EndTransaction, Goto, TypeOK, Orderly
  <1>5. ASSUME NEW w \in Workers,
               \/ Reject(w) \/ GenerateNumber(w) \/ NoNumberLeft(w)
               \/ CommitAccount(w) \/ ConstraintFails(w) \/ VictimAborts(w)
               \/ Fail(w)
        PROVE  Orderly(W)'
    BY <1>0, <1>5
       DEF Reject, GenerateNumber, NoNumberLeft, CommitAccount, ConstraintFails,
           VictimAborts, Fail, Goto, TypeOK, Orderly
  <1>6. ASSUME NEW w \in Workers, Finish(w) PROVE Orderly(W)'
    BY <1>0, <1>6 DEF Finish, EndTransaction, Empty, Goto, TypeOK, Orderly
  <1>7. CASE UNCHANGED vars
    BY <1>7 DEF vars, threads, Orderly
  <1> QED BY <1>1, <1>2, <1>3, <1>4, <1>5, <1>6, <1>7 DEF Next, Handler, Quiet

\* An owner's request that waits holds only rows below the one it wants.
LEMMA HeldIsBelowWanted ==
  ASSUME RowLocks, Isolated, NEW v \in Workers, NEW x \in Workers, Orderly({v}),
         BlockedBy(v, x), req[v].endpoint # "create_transaction",
         NEW a \in Locks(v)
  PROVE  a \in Int /\ Wanted(v) \in Int /\ a < Wanted(v)
  <1> DEFINE r == req[v]
  <1>1. /\ a \in DOMAIN session[v] /\ Wanted(v) \in DOMAIN session[x]
        /\ v # x /\ r.endpoint # "create_account"
        /\ pc[v] \in {"begin", "second", "commit"}
    BY DEF BlockedBy, Locks
  <1>2. a \in Accounts /\ Wanted(v) \in Accounts
    BY <1>1 DEF Isolated, Typed, TypeOK
  <1>3. r \in Payloads
    BY <1>1 DEF Isolated, Typed, Known
  <1>4. pc[v] # "begin"
    BY <1>1 DEF Orderly
  <1>5. pc[v] # "commit"
    <2>1. SUFFICES ASSUME pc[v] = "commit" PROVE FALSE
      OBVIOUS
    <2>2. Wanted(v) = TransactionRow(r).counterparty
      BY <2>1 DEF Wanted
    <2>3. r.endpoint = "user_transfer"
      BY <1>1, <1>2, <1>3, <2>2, PayloadFacts, IdFacts DEF TransactionRow, Endpoints
    <2>4. Wanted(v) \in DOMAIN session[v]
      BY <1>1, <2>1, <2>2, <2>3
         DEF Isolated, Checked, Allowed, Kind, TransactionRow
    <2> QED BY <1>1, <2>4 DEF Isolated, LocksExclusive, Locks
  <1>6. pc[v] = "second"
    BY <1>1, <1>4, <1>5
  <1>7. r.endpoint = "user_transfer" /\ r.account # r.counterparty
    BY <1>6 DEF Isolated, Checked, Typed, Known, IsTransfer, Malformed
  <1>8. a = First(r)
    BY <1>1, <1>6 DEF Orderly
  <1>9. Wanted(v) = Second(r)
    BY <1>6 DEF Wanted
  <1>10. First(r) < Second(r)
    <2>1. r.account \in Int /\ r.counterparty \in Int
      BY <1>3, PayloadFacts, IdFacts
    <2> QED BY <1>7, <2>1 DEF First, Second
  <1> QED BY <1>2, <1>8, <1>9, <1>10, IdFacts

\* A nonempty set of naturals has a least element.
LEMMA NaturalsLeast ==
  ASSUME NEW T, T \subseteq Nat, T # {}
  PROVE  \E m \in T : \A n \in T : m <= n
  <1>1. PICK m \in T : \A n \in T : <<n, m>> \notin OpToRel(<, Nat)
    BY NatLessThanWellFounded, WFMin
  <1>2. \A n \in T : ~(n < m)
    BY <1>1, Zenon DEF OpToRel
  <1> QED BY <1>2

\* Where ids are bounded, no circle of waiting threads has only owners in it: one
\* of them wants the greatest row, yet the one it waits for wants a greater.
LEMMA NoOwnersCircle ==
  ASSUME RowLocks, NEW M \in Nat, Accounts \subseteq 1 .. M
  PROVE  Isolated /\ Orderly(Workers) => OwnersNeverDeadlock
  <1> SUFFICES ASSUME Isolated, Orderly(Workers),
                      NEW S \in SUBSET Workers, S # {},
                      \A u \in S : \E v \in S : BlockedBy(u, v),
                      \A w \in S : req[w].endpoint # "create_transaction"
               PROVE  FALSE
    BY DEF OwnersNeverDeadlock
  <1> DEFINE T == {M - Wanted(w) : w \in S}
  <1>1. \A u \in S : Wanted(u) \in 1 .. M
    <2> TAKE u \in S
    <2>1. PICK v \in S : BlockedBy(u, v)
      OBVIOUS
    <2> QED BY <2>1 DEF BlockedBy, Locks, Isolated, Typed, TypeOK
  <1>2. T \subseteq Nat /\ T # {}
    BY <1>1
  <1>3. PICK m \in T : \A n \in T : m <= n
    BY <1>2, NaturalsLeast
  <1>4. PICK u \in S : m = M - Wanted(u)
    OBVIOUS
  <1>5. PICK v \in S : BlockedBy(u, v)
    OBVIOUS
  <1>6. PICK x \in S : BlockedBy(v, x)
    OBVIOUS
  <1>7. Wanted(u) < Wanted(v)
    <2>1. Wanted(u) \in Locks(v)
      BY <1>5 DEF BlockedBy
    <2>2. Orderly({v})
      BY DEF Orderly
    <2> QED BY <1>6, <2>1, <2>2, HeldIsBelowWanted
  <1>8. m <= M - Wanted(v)
    BY <1>3
  <1> QED BY <1>1, <1>4, <1>7, <1>8

\* On PostgreSQL, where the ids of accounts are bounded (they are INTEGER
\* columns), threads that serve owners never wait for each other in a circle,
\* however many there are: every deadlock has a create_transaction in it.
THEOREM OwnersAreDeadlockFree ==
  ASSUME RowLocks, NEW M \in Nat, Accounts \subseteq 1 .. M
  PROVE  Spec => []OwnersNeverDeadlock
  <1>1. Isolated /\ Orderly(Workers) /\ [Next]_vars => Orderly(Workers)'
    BY OrderlyNext
  <1> QED BY IsolatedInit, IsolatedNext, OrderlyInit, <1>1, NoOwnersCircle, PTL DEF Spec

-----------------------------------------------------------------------------
(* Refinement: every step of a handler decides its request as one atomic step *)
(* of Bank would, or leaves the promise as it is.                             *)

\* What Bank sees of a thread at each statement of its handler.
LEMMA PhaseFacts ==
  ASSUME NEW l, NEW r, NEW s
  PROVE  /\ l = "idle"    => PhaseOf(l, r, s) = "idle"
         /\ l = "begin"   => PhaseOf(l, r, s) = "asked"
         /\ l = "commit"  => PhaseOf(l, r, s) = "asked"
         /\ l = "refresh" => PhaseOf(l, r, s) = "applied"
         /\ l = "refused" => PhaseOf(l, r, s) = "denied"
         /\ l = "failed"  => PhaseOf(l, r, s) = "broken"
         /\ l = "second" /\ First(r) \in DOMAIN s => PhaseOf(l, r, s) = "asked"
         /\ l = "second" /\ First(r) \notin DOMAIN s
              => PhaseOf(l, r, s) = "denied"
  BY DEF PhaseOf

\* A step of one thread moves the phase of that thread only.
LEMMA PhaseMoves ==
  ASSUME NEW w \in Workers,
         \A v \in Workers : v # w => /\ pc'[v] = pc[v] /\ req'[v] = req[v]
                                    /\ session'[v] = session[v]
  PROVE  Phase' = [Phase EXCEPT ![w] = PhaseOf(pc'[w], req'[w], session'[w])]
  BY DEF Phase

\* A thread that does not move keeps its phase.
LEMMA PhaseStays ==
  ASSUME NEW w \in Workers, NEW p, Phase[w] = p, Phase' = [Phase EXCEPT ![w] = p]
  PROVE  Phase' = Phase
  BY DEF Phase

\* The tables of the code start as those of Bank.
LEMMA PromiseInit == Init => Promise!Init
  <1> SUFFICES ASSUME Init PROVE Promise!Init
    OBVIOUS
  <1>1. Phase = [w \in Workers |-> "idle"]
    BY PhaseFacts DEF Init, Phase
  <1> QED BY <1>1 DEF Init, Promise!Init

\* Bank uses the same operators on requests.
LEMMA SameRequests ==
  ASSUME NEW r, NEW R, NEW own, NEW bal, NEW a
  PROVE  /\ Promise!Allowed(r, R, own, bal) <=> Allowed(r, R, own, bal)
         /\ Promise!Change(r, a) = Change(r, a)
  <1>1. Promise!Kind(r) = Kind(r)
    BY DEF Promise!Kind, Kind
  <1>2. Promise!Malformed(r) <=> Malformed(r)
    BY DEF Promise!Malformed, Malformed, Promise!Absent, Absent, Promise!None, None
  <1>3. Promise!Allowed(r, R, own, bal) <=> Allowed(r, R, own, bal)
    BY <1>1, <1>2 DEF Promise!Allowed, Allowed
  <1>4. Promise!Credit(r, a) = Credit(r, a) /\ Promise!Debit(r, a) = Debit(r, a)
    BY <1>1 DEF Promise!Credit, Credit, Promise!Debit, Debit
  <1> QED BY <1>3, <1>4 DEF Promise!Change, Change

\* The checks a handler made on the rows it holds hold on the table.
LEMMA GrantedOnTable ==
  ASSUME RowLocks, Isolated, NEW w \in Workers,
         Allowed(req[w], DOMAIN session[w], owner, session[w])
  PROVE  Allowed(req[w], rows, owner, balance)
  <1>1. \A a \in DOMAIN session[w] : a \in rows /\ session[w][a] = balance[a]
    BY DEF Isolated, ReadsCurrent, Locks
  <1> QED BY <1>1 DEF Allowed

\* A handler refuses after its first row only what the table refuses ...
LEMMA RefusedFirstOnTable ==
  ASSUME Typed, NEW r \in Payloads, ~Malformed(r), NEW s, RefusedFirst(r, s),
         r.account \in rows => r.account \in DOMAIN s,
         \A a \in DOMAIN s : a \in rows /\ s[a] = balance[a]
  PROVE  ~Allowed(r, rows, owner, balance)
  <1>1. CASE r.account \notin DOMAIN s
    BY <1>1 DEF Allowed
  <1>2. CASE r.account \in DOMAIN s
    <2>1. s[r.account] = balance[r.account] /\ balance[r.account] \in Int
      BY <1>2 DEF Typed, TypeOK
    <2>2. Kind(r) = r.type
      BY DEF RefusedFirst, Kind
    <2> QED BY <1>2, <2>1, <2>2, PayloadFacts DEF RefusedFirst, Allowed
  <1> QED BY <1>1, <1>2

\* ... and after its second row, too.
LEMMA RefusedSecondOnTable ==
  ASSUME Typed, NEW r \in Payloads, IsTransfer(r), NEW s, RefusedSecond(r, s),
         {r.account, r.counterparty} \cap rows \subseteq DOMAIN s,
         \A a \in DOMAIN s : a \in rows /\ s[a] = balance[a]
  PROVE  ~Allowed(r, rows, owner, balance)
  <1>1. CASE {r.account, r.counterparty} \cap (DOMAIN s \ Frozen)
               # {r.account, r.counterparty}
    BY <1>1 DEF Allowed, IsTransfer
  <1>2. CASE {r.account, r.counterparty} \cap (DOMAIN s \ Frozen)
               = {r.account, r.counterparty}
    <2>1. s[r.account] = balance[r.account] /\ balance[r.account] \in Int
      BY <1>2 DEF Typed, TypeOK
    <2> QED BY <1>2, <2>1, PayloadFacts DEF RefusedSecond, Allowed, IsTransfer
  <1> QED BY <1>1, <1>2

\* Nothing that Bank sees changes.
Stutters == UNCHANGED <<rows, owner, balance, req, Phase, reply>>

\* Every step of a handler is a step of Bank or leaves Bank's state alone.
LEMMA PromiseNext ==
  ASSUME RowLocks PROVE Isolated /\ [Next]_vars => [Promise!Next]_(Promise!vars)
  <1> SUFFICES ASSUME Isolated, [Next]_vars
               PROVE  Promise!Next \/ Stutters
    BY DEF Promise!vars, Stutters
  <1>0. Typed /\ TypeOK /\ Known /\ Isolated'
    BY IsolatedNext DEF Isolated, Typed
  <1>1. ASSUME NEW w \in Workers, NEW r \in Payloads, Submit(w, r)
        PROVE  Promise!Next
    <2>1. Phase[w] = "idle"
      BY <1>1, PhaseFacts DEF Submit, Phase
    <2>2. Phase' = [Phase EXCEPT ![w] = "asked"]
      BY <1>0, <1>1, PhaseMoves, PhaseFacts DEF Submit, Goto, TypeOK
    <2>3. Promise!Ask(w, r)
      BY <1>1, <2>1, <2>2 DEF Submit, table, Promise!Ask, Promise!table
    <2> QED BY <2>3 DEF Promise!Next
  <1>2. ASSUME NEW w \in Workers, Reject(w) PROVE Promise!Next
    <2>1. Phase[w] = "asked"
      BY <1>2, PhaseFacts DEF Reject, Phase
    <2>2. Phase' = [Phase EXCEPT ![w] = "denied"]
      BY <1>0, <1>2, PhaseMoves, PhaseFacts DEF Reject, Goto, TypeOK
    <2>3. /\ req[w].endpoint # "create_account"
          /\ ~Promise!Allowed(req[w], rows, owner, balance)
      BY <1>2, SameRequests DEF Reject, Malformed, Allowed
    <2>4. Promise!Deny(w)
      BY <1>2, <2>1, <2>2, <2>3
         DEF Reject, table, Promise!Deny, Promise!Decide, Promise!table
    <2> QED BY <2>4 DEF Promise!Next
  <1>3. ASSUME NEW w \in Workers, FetchFirst(w) PROVE Promise!Next \/ Stutters
    <2> DEFINE r == req[w]
               s == session'[w]
    <2>1. /\ r \in Payloads /\ ~Malformed(r) /\ r.endpoint # "create_account"
          /\ Fetch(w, First(r)) /\ Wanted(w) = First(r)
          /\ pc[w] = "begin" /\ Phase[w] = "asked"
      BY <1>0, <1>3, PhaseFacts DEF FetchFirst, Known, Wanted, Phase
    <2>2. /\ \A v \in Workers : v # w => session'[v] = session[v]
          /\ DOMAIN s = DOMAIN session[w] \cup ({First(r)} \cap rows)
      BY <1>0, <2>1, FetchIsolated DEF Isolated
    <2>3. UNCHANGED <<rows, owner, balance, req, reply>>
      BY <2>1 DEF Fetch, table
    <2>4. \A a \in DOMAIN s : a \in rows /\ s[a] = balance[a]
      BY <1>0, <2>3 DEF Isolated, ReadsCurrent, Locks
    <2>5. Phase' = [Phase EXCEPT ![w] = PhaseOf(pc'[w], r, s)]
      <3>1. \A v \in Workers : v # w => pc'[v] = pc[v]
        BY <1>0, <1>3 DEF FetchFirst, Goto, TypeOK
      <3> QED BY <2>2, <2>3, <3>1, PhaseMoves
    <2>6. CASE pc'[w] = "commit"
      <3>1. PhaseOf(pc'[w], r, s) = "asked"
        BY <2>6, PhaseFacts
      <3>2. Phase' = Phase
        BY <2>1, <2>5, <3>1, PhaseStays
      <3> QED BY <2>3, <3>2 DEF Stutters
    <2>7. CASE pc'[w] = "refused"
      <3>1. RefusedFirst(r, s)
        BY <1>0, <1>3, <2>7 DEF FetchFirst, Goto, TypeOK
      <3>2. First(r) = r.account
        BY <3>1 DEF RefusedFirst, First
      <3>3. ~Allowed(r, rows, owner, balance)
        BY <1>0, <2>1, <2>2, <2>4, <3>1, <3>2, RefusedFirstOnTable
      <3>4. PhaseOf(pc'[w], r, s) = "denied"
        BY <2>7, PhaseFacts
      <3>5. Promise!Deny(w)
        BY <2>1, <2>3, <2>5, <3>3, <3>4, SameRequests
           DEF Promise!Deny, Promise!Decide, Promise!table
      <3> QED BY <3>5 DEF Promise!Next
    <2>8. CASE pc'[w] = "second" /\ First(r) \in DOMAIN s
      <3>1. PhaseOf(pc'[w], r, s) = "asked"
        BY <2>8, PhaseFacts
      <3>2. Phase' = Phase
        BY <2>1, <2>5, <3>1, PhaseStays
      <3> QED BY <2>3, <3>2 DEF Stutters
    <2>9. CASE pc'[w] = "second" /\ First(r) \notin DOMAIN s
      <3>1. IsTransfer(r)
        BY <1>0, <1>3, <2>9 DEF FetchFirst, Goto, TypeOK
      <3>2. ~Allowed(r, rows, owner, balance)
        BY <2>2, <2>9, <3>1 DEF First, Allowed, IsTransfer
      <3>3. PhaseOf(pc'[w], r, s) = "denied"
        BY <2>9, PhaseFacts
      <3>4. Promise!Deny(w)
        BY <2>1, <2>3, <2>5, <3>2, <3>3, SameRequests
           DEF Promise!Deny, Promise!Decide, Promise!table
      <3> QED BY <3>4 DEF Promise!Next
    <2>10. pc'[w] \in {"refused", "second", "commit"}
      BY <1>0, <1>3 DEF FetchFirst, Goto, TypeOK
    <2> QED BY <2>6, <2>7, <2>8, <2>9, <2>10
  <1>4. ASSUME NEW w \in Workers, FetchSecond(w) PROVE Promise!Next \/ Stutters
    <2> DEFINE r == req[w]
               s == session'[w]
    <2>1. /\ r \in Payloads /\ ~Malformed(r) /\ IsTransfer(r)
          /\ r.endpoint # "create_account"
          /\ Fetch(w, Second(r)) /\ Wanted(w) = Second(r) /\ pc[w] = "second"
      BY <1>0, <1>4 DEF FetchSecond, Known, Wanted, Isolated, Checked, IsTransfer
    <2>2. /\ \A v \in Workers : v # w => session'[v] = session[v]
          /\ DOMAIN s = DOMAIN session[w] \cup ({Second(r)} \cap rows)
      BY <1>0, <2>1, FetchIsolated DEF Isolated
    <2>3. UNCHANGED <<rows, owner, balance, req, reply>>
      BY <2>1 DEF Fetch, table
    <2>4. \A a \in DOMAIN s : a \in rows /\ s[a] = balance[a]
      BY <1>0, <2>3 DEF Isolated, ReadsCurrent, Locks
    <2>5. Phase' = [Phase EXCEPT ![w] = PhaseOf(pc'[w], r, s)]
      <3>1. \A v \in Workers : v # w => pc'[v] = pc[v]
        BY <1>0, <1>4 DEF FetchSecond, Goto, TypeOK
      <3> QED BY <2>2, <2>3, <3>1, PhaseMoves
    <2>6. /\ pc'[w] \in {"refused", "commit"}
          /\ pc'[w] = "refused" => RefusedSecond(r, s)
          /\ pc'[w] = "commit" => ~RefusedSecond(r, s)
      BY <1>0, <1>4 DEF FetchSecond, Goto, TypeOK
    <2>7. CASE First(r) \in DOMAIN session[w] /\ pc'[w] = "commit"
      <3>1. Phase[w] = "asked"
        BY <2>1, <2>7, PhaseFacts DEF Phase
      <3>2. PhaseOf(pc'[w], r, s) = "asked"
        BY <2>7, PhaseFacts
      <3>3. Phase' = Phase
        BY <2>5, <3>1, <3>2, PhaseStays
      <3> QED BY <2>3, <3>3 DEF Stutters
    <2>8. CASE First(r) \in DOMAIN session[w] /\ pc'[w] = "refused"
      <3>1. Phase[w] = "asked"
        BY <2>1, <2>8, PhaseFacts DEF Phase
      <3>2. {r.account, r.counterparty} \cap rows \subseteq DOMAIN s
        BY <2>2, <2>8 DEF First, Second
      <3>3. ~Allowed(r, rows, owner, balance)
        BY <1>0, <2>1, <2>4, <2>6, <2>8, <3>2, RefusedSecondOnTable
      <3>4. PhaseOf(pc'[w], r, s) = "denied"
        BY <2>8, PhaseFacts
      <3>5. Promise!Deny(w)
        BY <2>1, <2>3, <2>5, <3>1, <3>3, <3>4, SameRequests
           DEF Promise!Deny, Promise!Decide, Promise!table
      <3> QED BY <3>5 DEF Promise!Next
    <2>9. CASE First(r) \notin DOMAIN session[w]
      <3>1. Phase[w] = "denied"
        BY <2>1, <2>9, PhaseFacts DEF Phase
      <3>2. r.endpoint = "user_transfer"
        BY <1>0, <2>1, <2>9 DEF Isolated, Checked, First, IsTransfer
      <3>3. First(r) # Second(r) /\ First(r) \in {r.account, r.counterparty}
        BY <2>1, <3>2 DEF First, Second, Malformed
      <3>4. RefusedSecond(r, s)
        BY <2>2, <2>9, <3>3 DEF RefusedSecond
      <3>5. PhaseOf(pc'[w], r, s) = "denied"
        BY <2>6, <3>4, PhaseFacts
      <3>6. Phase' = Phase
        BY <2>5, <3>1, <3>5, PhaseStays
      <3> QED BY <2>3, <3>6 DEF Stutters
    <2> QED BY <2>6, <2>7, <2>8, <2>9
  <1>5. ASSUME NEW w \in Workers, CommitPosting(w) PROVE Promise!Next
    <2> DEFINE r == req[w]
               s == session[w]
    <2>1. /\ r \in Payloads /\ r.endpoint # "create_account"
          /\ Allowed(r, DOMAIN s, owner, s) /\ Phase[w] = "asked"
      BY <1>0, <1>5, PhaseFacts DEF CommitPosting, Known, Isolated, Checked, Phase
    <2>2. \A a \in DOMAIN s : s[a] \in Int /\ s[a] = balance[a]
      BY <1>0 DEF Isolated, TypeOK, ReadsCurrent, Locks
    <2>3. balance' = [a \in Accounts |-> balance[a] + Change(r, a)]
      <3>1. ASSUME NEW a \in Accounts PROVE balance'[a] = balance[a] + Change(r, a)
        BY <1>0, <1>5, <2>1, <2>2, PostingFacts, AmountFacts
           DEF CommitPosting, TypeOK
      <3> QED BY <1>5, <3>1 DEF CommitPosting
    <2>4. Phase' = [Phase EXCEPT ![w] = PhaseOf(pc'[w], req'[w], session'[w])]
      <3>1. \A v \in Workers : v # w => /\ pc'[v] = pc[v] /\ req'[v] = req[v]
                                       /\ session'[v] = session[v]
        BY <1>0, <1>5 DEF CommitPosting, EndTransaction, Goto, TypeOK
      <3> QED BY <3>1, PhaseMoves
    <2>5. Phase' = [Phase EXCEPT ![w] = "applied"]
      <3>1. pc'[w] = "refresh"
        BY <1>0, <1>5 DEF CommitPosting, Goto, TypeOK
      <3>2. PhaseOf(pc'[w], req'[w], session'[w]) = "applied"
        BY <3>1, PhaseFacts
      <3> QED BY <2>4, <3>2
    <2>6. Promise!Allowed(r, rows, owner, balance)
      BY <2>1, GrantedOnTable, SameRequests
    <2>7. balance' = [a \in Accounts |-> balance[a] + Promise!Change(r, a)]
      BY <2>3, SameRequests
    <2>8. r.endpoint = "create_transaction" => r.counterparty \in rows \cup {Promise!None}
      BY <1>5 DEF CommitPosting, TransactionRow, Promise!None, None
    <2>9. Promise!ApplyPosting(w)
      BY <1>5, <2>1, <2>5, <2>6, <2>7, <2>8
         DEF CommitPosting, Promise!ApplyPosting, Promise!Decide
    <2> QED BY <2>9 DEF Promise!Next
  <1>6. ASSUME NEW w \in Workers, GenerateNumber(w) PROVE Stutters
    <2>1. Phase[w] = "asked"
      BY <1>6, PhaseFacts DEF GenerateNumber, Phase
    <2>2. Phase' = [Phase EXCEPT ![w] = "asked"]
      BY <1>0, <1>6, PhaseMoves, PhaseFacts DEF GenerateNumber, Goto, TypeOK
    <2>3. Phase' = Phase
      BY <2>1, <2>2, PhaseStays
    <2> QED BY <1>6, <2>3 DEF GenerateNumber, table, Stutters
  <1>7. ASSUME NEW w \in Workers, NoNumberLeft(w) PROVE Promise!Next
    <2>1. Phase[w] \in {"asked", "applied", "denied"}
      BY <1>7, PhaseFacts DEF NoNumberLeft, Phase
    <2>2. Phase' = [Phase EXCEPT ![w] = "broken"]
      BY <1>0, <1>7, PhaseMoves, PhaseFacts DEF NoNumberLeft, Goto, TypeOK
    <2>3. Promise!Break(w)
      BY <1>7, <2>1, <2>2 DEF NoNumberLeft, table, Promise!Break
    <2> QED BY <2>3 DEF Promise!Next
  <1>8. ASSUME NEW w \in Workers, CommitAccount(w) PROVE Promise!Next
    <2>1. Phase[w] = "asked" /\ number[w] \in Accounts \ rows
      BY <1>0, <1>8, PhaseFacts DEF CommitAccount, Known, Phase
    <2>2. Phase' = [Phase EXCEPT ![w] = "applied"]
      BY <1>0, <1>8, PhaseMoves, PhaseFacts DEF CommitAccount, Goto, TypeOK
    <2>3. Promise!ApplyOpening(w)
      BY <1>8, <2>1, <2>2
         DEF CommitAccount, Promise!ApplyOpening, Promise!Decide
    <2> QED BY <2>3 DEF Promise!Next
  <1>9. ASSUME NEW w \in Workers, ConstraintFails(w) PROVE Promise!Next
    <2>1. Phase[w] \in {"asked", "applied", "denied"}
      BY <1>9, PhaseFacts DEF ConstraintFails, Phase
    <2>2. Phase' = [Phase EXCEPT ![w] = "broken"]
      BY <1>0, <1>9, PhaseMoves, PhaseFacts DEF ConstraintFails, Goto, TypeOK
    <2>3. Promise!Break(w)
      BY <1>9, <2>1, <2>2 DEF ConstraintFails, table, Promise!Break
    <2> QED BY <2>3 DEF Promise!Next
  <1>10. ASSUME NEW w \in Workers, VictimAborts(w) PROVE Promise!Next
    <2>1. pc[w] \in {"begin", "second", "commit"}
      BY <1>10 DEF VictimAborts, Deadlocked, BlockedBy
    <2>2. Phase[w] \in {"asked", "applied", "denied"}
      BY <2>1, PhaseFacts DEF Phase
    <2>3. Phase' = [Phase EXCEPT ![w] = "broken"]
      BY <1>0, <1>10, PhaseMoves, PhaseFacts DEF VictimAborts, Goto, TypeOK
    <2>4. Promise!Break(w)
      BY <1>10, <2>2, <2>3 DEF VictimAborts, table, Promise!Break
    <2> QED BY <2>4 DEF Promise!Next
  <1>11. ASSUME NEW w \in Workers, Fail(w) PROVE Promise!Next
    <2>1. Phase[w] \in {"asked", "applied", "denied"}
      BY <1>11, PhaseFacts DEF Fail, Phase
    <2>2. Phase' = [Phase EXCEPT ![w] = "broken"]
      BY <1>0, <1>11, PhaseMoves, PhaseFacts DEF Fail, Goto, TypeOK
    <2>3. Promise!Break(w)
      BY <1>11, <2>1, <2>2 DEF Fail, table, Promise!Break
    <2> QED BY <2>3 DEF Promise!Next
  <1>12. ASSUME NEW w \in Workers, Finish(w) PROVE Promise!Next
    <2>1. /\ pc[w] = "refresh" => Phase[w] = "applied"
          /\ pc[w] = "refused" => Phase[w] = "denied"
          /\ pc[w] = "failed"  => Phase[w] = "broken"
          /\ pc[w] \in {"refresh", "refused", "failed"}
      BY <1>12, PhaseFacts DEF Finish, Phase
    <2>2. Phase' = [Phase EXCEPT ![w] = PhaseOf(pc'[w], req'[w], session'[w])]
      <3>1. \A v \in Workers : v # w => /\ pc'[v] = pc[v] /\ req'[v] = req[v]
                                       /\ session'[v] = session[v]
        BY <1>0, <1>12 DEF Finish, EndTransaction, Goto, TypeOK
      <3> QED BY <3>1, PhaseMoves
    <2>3. Phase' = [Phase EXCEPT ![w] = "idle"]
      <3>1. pc'[w] = "idle"
        BY <1>0, <1>12 DEF Finish, Goto, TypeOK
      <3>2. PhaseOf(pc'[w], req'[w], session'[w]) = "idle"
        BY <3>1, PhaseFacts
      <3> QED BY <2>2, <3>2
    <2>4. reply' = [reply EXCEPT ![w] = CASE Phase[w] = "applied" -> "ok"
                                          [] Phase[w] = "denied" -> "refused"
                                          [] OTHER -> "error"]
      <3>1. CASE pc[w] = "refresh"
        BY <1>12, <2>1, <3>1 DEF Finish
      <3>2. CASE pc[w] = "refused"
        BY <1>12, <2>1, <3>2 DEF Finish
      <3>3. CASE pc[w] = "failed"
        BY <1>12, <2>1, <3>3 DEF Finish
      <3> QED BY <2>1, <3>1, <3>2, <3>3
    <2>5. Promise!Answer(w)
      BY <1>12, <2>1, <2>3, <2>4 DEF Finish, table, Promise!Answer, Promise!table
    <2> QED BY <2>5 DEF Promise!Next
  <1>13. CASE UNCHANGED vars
    <2>1. Phase' = Phase
      BY <1>13 DEF vars, threads, Phase
    <2> QED BY <1>13, <2>1 DEF vars, table, threads, Stutters
  <1> QED
    BY <1>1, <1>2, <1>3, <1>4, <1>5, <1>6, <1>7, <1>8, <1>9, <1>10, <1>11,
       <1>12, <1>13 DEF Next, Handler, Quiet

\* On PostgreSQL the handlers keep the promise of Bank for any number of threads
\* and requests: each request is decided in one atomic step.
THEOREM HandlersImplementBank == ASSUME RowLocks PROVE Spec => KeepsPromise
  <1> QED BY PromiseInit, PromiseNext, IsolatedInit, IsolatedNext, PTL
          DEF Spec, KeepsPromise, Promise!Spec
=============================================================================
