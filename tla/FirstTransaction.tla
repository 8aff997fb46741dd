-------------------------- MODULE FirstTransaction --------------------------
(***************************************************************************)
(* pages/customer/FirstTransaction.jsx, whose receipt leads to             *)
(* pages/customer/TransactionLifecycle.jsx.                                *)
(***************************************************************************)
EXTENDS Transfer

CONSTANT MaxReceipts  \* bound: transactions that FirstTransaction posts

ASSUME MaxReceiptsAssumption == MaxReceipts \in Nat

(* FirstTransaction: the account list is the server's, with balances *)

NoReceipt == [id |-> 0]

FirstState ==
  [accounts |-> <<>>, tab |-> "deposit", account |-> None, amount |-> None, loading |-> FALSE,
   loadingAccounts |-> TRUE, receipt |-> NoReceipt, error |-> FALSE, showConfetti |-> FALSE]

FirstRequest(h) ==
  [type |-> h.tab, account |-> h.account, to |-> None, amount |-> h.amount, fields |-> {"account_id"}]

\* The submit button, and what the input's max lets through.
FirstFilled(h) ==
  /\ h.account # None /\ h.amount # None
  /\ h.tab = "withdrawal" => h.amount <= h.accounts[h.account]

FirstForm(h) ==
  IF h.loadingAccounts THEN {}
  ELSE {"inputs"} \union (IF ~h.loading /\ FirstFilled(h) THEN {"execute"} ELSE {})

ReceiptControls == {"lifecycle", "new"}

FirstControls(h) ==
  IF h.receipt # NoReceipt THEN ReceiptControls ELSE {"tab"} \union FirstForm(h)

\* The type, the account and the amount that the receipt names.
ReceiptView(h) == h.receipt.request

FirstOffers(control) == screen = "first" /\ control \in FirstControls(hooks)

FirstMount == Mount("first", FirstState, <<Get("firstAccounts", "accounts")>>)

FirstAccounts(i) ==
  /\ \/ /\ Back(i, "firstAccounts", "ok")
        /\ Resolve(i, [hooks EXCEPT !.accounts = calls[i].reply.value, !.loadingAccounts = FALSE], <<>>)
     \/ /\ Back(i, "firstAccounts", "failed")
        /\ Resolve(i, [hooks EXCEPT !.loadingAccounts = FALSE], <<>>)
  /\ UNCHANGED timers

FirstTab(t) == FirstOffers("tab") /\ Set([hooks EXCEPT !.tab = t])

FirstInput ==
  /\ FirstOffers("inputs")
  /\ \/ \E a \in DOMAIN hooks.accounts : Set([hooks EXCEPT !.account = a])
     \/ \E n \in Amounts : Set([hooks EXCEPT !.amount = n])

FirstSubmit ==
  /\ FirstOffers("execute")
  /\ SetAndSend([hooks EXCEPT !.loading = TRUE, !.error = FALSE], <<Post("first", FirstRequest(hooks))>>)

\* Faulty form: loading is reset on success only.
FirstDoneStuck(i) ==
  \/ /\ Back(i, "first", "ok")
     /\ Resolve(i, [hooks EXCEPT !.receipt = calls[i].reply.value, !.showConfetti = TRUE,
                                 !.loading = FALSE], <<>>)
     /\ timers' = IF calls[i].live THEN Append(timers, "confetti") ELSE timers
     /\ Len(timers) < MaxTimers
  \/ Back(i, "first", "failed") /\ Resolve(i, [hooks EXCEPT !.error = TRUE], <<>>) /\ UNCHANGED timers

FirstDone(i) ==
  \/ /\ Back(i, "first", "ok")
     /\ Resolve(i, [hooks EXCEPT !.receipt = calls[i].reply.value, !.showConfetti = TRUE,
                                 !.loading = FALSE], <<>>)
     /\ timers' = IF calls[i].live THEN Append(timers, "confetti") ELSE timers
     /\ Len(timers) < MaxTimers
  \/ /\ Back(i, "first", "failed")
     /\ Resolve(i, [hooks EXCEPT !.error = TRUE, !.loading = FALSE], <<>>)
     /\ UNCHANGED timers

FirstConfettiEnds == screen = "first" /\ Fire("confetti", [hooks EXCEPT !.showConfetti = FALSE])

\* resetForm: a new form, and the accounts are fetched again.  Its callback is
\* the same but for loadingAccounts, which is FALSE by then.
FirstReset ==
  /\ FirstOffers("new")
  /\ SetAndSend([hooks EXCEPT !.receipt = NoReceipt, !.account = None, !.amount = None, !.error = FALSE],
                <<Get("firstAccounts", "accounts")>>)

(* TransactionLifecycle: one transaction, named in the address *)

LifecycleState(tx) == [tx |-> tx, data |-> 0, loading |-> TRUE, error |-> FALSE, activeStage |-> None]

LifecycleControls(h) ==
  IF h.loading THEN {} ELSE IF h.error THEN {"first"} ELSE {"first", "stage"}

\* What is on screen: a skeleton, the error, or the transaction and its stages.
LifecycleView(h) ==
  CASE h.loading -> [view |-> "skeleton", tx |-> 0]
    [] ~h.loading /\ h.error -> [view |-> "error", tx |-> 0]
    [] OTHER -> [view |-> "stages", tx |-> h.data]

LifecycleOffers(control) == screen = "lifecycle" /\ control \in LifecycleControls(hooks)

\* The effect on txId.
LifecycleFetch(tx) == <<Post("lifecycle", tx)>>

LifecycleMount == \E tx \in 1..MaxReceipts : Mount("lifecycle", LifecycleState(tx), LifecycleFetch(tx))

\* The address is opened without a transaction: the effect sends nothing.
LifecycleNone ==
  Mount("lifecycle", [LifecycleState(0) EXCEPT !.loading = FALSE, !.error = TRUE], <<>>)

\* The address changes to another transaction: the component stays mounted, and
\* neither the error nor the data of the first goes away.
LifecycleTurn(tx) ==
  /\ screen = "lifecycle" /\ tx # hooks.tx
  /\ SetAndSend([hooks EXCEPT !.tx = tx], LifecycleFetch(tx))

LifecycleServe(i) ==
  /\ calls[i].op = "lifecycle" /\ Unanswered(i)
  /\ calls[i].arg <= Len(server.ledger)
  /\ Write(i, "lifecycle", server, calls[i].arg)

LifecycleDone(i) ==
  /\ \/ /\ Back(i, "lifecycle", "ok")
        /\ Resolve(i, [hooks EXCEPT !.data = calls[i].reply.value, !.loading = FALSE], <<>>)
     \/ /\ Back(i, "lifecycle", "failed")
        /\ Resolve(i, [hooks EXCEPT !.error = TRUE, !.loading = FALSE], <<>>)
  /\ UNCHANGED timers

\* The stages open one at a time; a second click closes the one that is open.
Stages == 1..2

LifecycleStage(s) ==
  /\ LifecycleOffers("stage")
  /\ Set([hooks EXCEPT !.activeStage = IF hooks.activeStage = s THEN None ELSE s])

\* navigate(...) between the two.
FirstToLifecycle ==
  /\ FirstOffers("lifecycle")
  /\ Mount("lifecycle", LifecycleState(hooks.receipt.id), LifecycleFetch(hooks.receipt.id))

LifecycleToFirst == LifecycleOffers("first") /\ FirstMount

FirstTransactionNext ==
  \/ screen = "first" /\ FirstMount
  \/ screen = "lifecycle" /\ (LifecycleMount \/ LifecycleNone)
  \/ \E t \in {"deposit", "withdrawal"} : FirstTab(t)
  \/ FirstInput \/ FirstSubmit \/ FirstReset \/ FirstConfettiEnds
  \/ \E tx \in 1..MaxReceipts : LifecycleTurn(tx)
  \/ \E s \in Stages : LifecycleStage(s)
  \/ FirstToLifecycle \/ LifecycleToFirst
  \/ \E i \in DOMAIN calls :
       \/ FirstAccounts(i) \/ FirstDone(i) \/ BankPosts(i, "first", MaxReceipts)
       \/ LifecycleServe(i) \/ LifecycleDone(i)
=============================================================================
