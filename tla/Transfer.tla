------------------------------ MODULE Transfer ------------------------------
(***************************************************************************)
(* pages/customer/Transfer.jsx: a form, a confirmation and a success view, *)
(* and the routes of routes/banking.py that it posts to.  The tabs and     *)
(* Back stay live while the request is in flight, so the view that the     *)
(* answer finds need not be the one that was confirmed.                    *)
(***************************************************************************)
EXTENDS Screen

CONSTANTS
  Accounts,      \* ids of the accounts in the back end
  DemoAccounts,  \* those of getDemoAccounts(); they may be ids of real accounts
  Amounts,       \* what may be typed as an amount
  MaxPosted      \* bound: transactions that this screen posts

None == 0

ASSUME AccountsAssumption ==
  /\ None \notin Accounts \union DemoAccounts \union Amounts
  /\ Amounts \subseteq Nat /\ MaxPosted \in Nat

Tabs == {"deposit", "withdrawal", "transfer"}

\* The accounts that are listed for the user (a new customer has none, staff has
\* all), the ledger, and whether the user is of the staff.
BankRows ==
  {[accounts |-> b, ledger |-> <<>>, staff |-> staff] :
     b \in {<<>>, [a \in Accounts |-> 1]}, staff \in BOOLEAN}

\* The accounts on offer and whether they are the demo ones.
Offered(ids, demo) == [ids |-> ids, demo |-> demo]

Listed(r) ==
  IF r.status = "ok" /\ r.value # <<>> THEN Offered(DOMAIN r.value, FALSE) ELSE Offered(DemoAccounts, TRUE)

TransferHooks ==
  [accounts: [ids: {{}, Accounts, DemoAccounts}, demo: BOOLEAN], tab: Tabs,
   account: Accounts \union DemoAccounts \union {None}, to: Accounts \union DemoAccounts \union {None},
   amount: Amounts \union {None}, step: {"form", "confirm", "success"},
   loading: BOOLEAN, msg: {"none", "error"}]

TransferState ==
  [accounts |-> Offered({}, FALSE), tab |-> "deposit", account |-> None, to |-> None, amount |-> None,
   step |-> "form", loading |-> FALSE, msg |-> "none"]

\* The request that the confirmed form stands for, with the fields that name
\* its accounts.
TransferRequest(h) ==
  [type |-> h.tab, account |-> h.account, to |-> IF h.tab = "transfer" THEN h.to ELSE None,
   amount |-> h.amount,
   fields |-> IF h.tab = "transfer" THEN {"from_account_id", "to_account_id"} ELSE {"account_id"}]

\* What the browser lets through: the required fields, and a recipient among
\* those the second list offers.
TransferFilled(h) ==
  /\ h.account \in h.accounts.ids /\ h.amount # None
  /\ h.tab = "transfer" => h.to \in h.accounts.ids \ {h.account}

\* The controls of the three views.  The tabs are above all of them.
TransferControls(h) ==
  {"tab"} \union
  CASE h.step = "success" -> {"new"}
    [] h.step = "confirm" -> {"back"} \union (IF h.loading THEN {} ELSE {"confirm"})
    [] OTHER -> {"inputs"} \union (IF TransferFilled(h) THEN {"review"} ELSE {})

Offers(control) == screen = "transfer" /\ control \in TransferControls(hooks)

\* Faulty form: a tab, or a new form, also ends the wait for the answer.
TransferResetReady(h) ==
  [h EXCEPT !.step = "form", !.amount = None, !.msg = "none", !.loading = FALSE]

\* resetForm keeps the accounts that were chosen.
TransferReset(h) == [h EXCEPT !.step = "form", !.amount = None, !.msg = "none"]

\* History: the form was changed while its request was in flight.
Change(h) ==
  /\ hooks' = h
  /\ past' = IF hooks.loading THEN past \union {"edited"} ELSE past
  /\ UNCHANGED <<screen, calls, timers, server>>

TransferMount == Mount("transfer", TransferState, <<Get("transferAccounts", "accounts")>>)

TransferAccounts(i) ==
  /\ calls[i].op = "transferAccounts" /\ ~Unanswered(i)
  /\ Resolve(i, [hooks EXCEPT !.accounts = Listed(calls[i].reply)], <<>>)
  /\ UNCHANGED timers

TransferTab(t) == Offers("tab") /\ Change([TransferReset(hooks) EXCEPT !.tab = t])

TransferInput ==
  /\ Offers("inputs")
  /\ \/ \E a \in hooks.accounts.ids : Change([hooks EXCEPT !.account = a])
     \/ \E a \in hooks.accounts.ids \ {hooks.account} :
          hooks.tab = "transfer" /\ Change([hooks EXCEPT !.to = a])
     \/ \E n \in Amounts : Change([hooks EXCEPT !.amount = n])

TransferReview == Offers("review") /\ Set([hooks EXCEPT !.step = "confirm"])

TransferBack == Offers("back") /\ Set([hooks EXCEPT !.step = "form"])

TransferConfirm ==
  /\ Offers("confirm")
  /\ hooks' = [hooks EXCEPT !.loading = TRUE, !.msg = "none"]
  /\ Send(<<Post("transfer", TransferRequest(hooks))>>)
  /\ past' = past \ {"edited"}
  /\ UNCHANGED <<screen, timers, server>>

\* Faulty form: success is reported before the answer is looked at.
TransferDoneAnyhow(i) ==
  /\ calls[i].op = "transfer" /\ ~Unanswered(i)
  /\ Resolve(i, [hooks EXCEPT !.step = "success", !.loading = FALSE], <<>>)
  /\ UNCHANGED timers

\* The answer to the request.
TransferDone(i) ==
  /\ \/ /\ Back(i, "transfer", "ok")
        /\ Resolve(i, [hooks EXCEPT !.step = "success", !.loading = FALSE], <<>>)
     \/ /\ Back(i, "transfer", "failed")
        /\ Resolve(i, [hooks EXCEPT !.step = "form", !.loading = FALSE, !.msg = "error"], <<>>)
  /\ UNCHANGED timers

TransferNew == Offers("new") /\ Change(TransferReset(hooks))

(* The routes that post, a request at a time: a transfer to user_transfer,     *)
(* what Transfer.jsx sends else to create_transaction, which is for the staff, *)
(* and what FirstTransaction.jsx sends to create_user_transaction.             *)

\* What the route asks of the request before it looks at the accounts.
Accepts(op, r) ==
  CASE op = "first" -> TRUE
    [] op = "transfer" /\ r.type = "transfer" -> {"account_id", "counterparty_account_id"} \subseteq r.fields
    [] OTHER -> server.staff

Debit(r) == IF r.type = "deposit" THEN None ELSE r.account
Credit(r) == CASE r.type = "deposit" -> r.account [] r.type = "transfer" -> r.to [] OTHER -> None

Covered(balance, r) ==
  /\ {r.account} \union ({r.to} \ {None}) \subseteq DOMAIN balance
  /\ r.type # "deposit" => balance[r.account] >= r.amount

Posted(balance, r) ==
  [a \in DOMAIN balance |->
     (balance[a] + (IF a = Credit(r) THEN r.amount ELSE 0)) - (IF a = Debit(r) THEN r.amount ELSE 0)]

\* The reply holds the new transaction; its id is its place in the ledger.
BankPosts(i, op, most) ==
  LET r == calls[i].arg IN
  /\ calls[i].op = op /\ Unanswered(i)
  /\ Len(server.ledger) < most /\ Accepts(op, r) /\ Covered(server.accounts, r)
  /\ Write(i, op, [server EXCEPT !.accounts = Posted(@, r), !.ledger = Append(@, r)],
           [id |-> Len(server.ledger) + 1, request |-> r])

TransferNext ==
  \/ screen = "transfer" /\ TransferMount
  \/ \E t \in Tabs : TransferTab(t)
  \/ TransferInput \/ TransferReview \/ TransferBack \/ TransferConfirm \/ TransferNew
  \/ \E i \in DOMAIN calls : TransferAccounts(i) \/ TransferDone(i) \/ BankPosts(i, "transfer", MaxPosted)
=============================================================================
