-------------------------- MODULE BankingRequests --------------------------
(***************************************************************************)
(* The requests of the money routes of api/routes/banking.py, and what     *)
(* each of them is supposed to do to the accounts table.  No state here:   *)
(* Bank (the promise) and BankingDb (the handlers) are built on it.        *)
(***************************************************************************)
EXTENDS Integers

CONSTANTS
  Accounts,   \* the primary keys an accounts row can have
  Users,      \* the rows of the users table
  Staff,      \* the users whose role is admin or analyst
  Frozen,     \* the accounts whose status column is not "active"; no route
              \* of the repository ever writes that column
  Payloads    \* the request bodies (with their sender) clients send

None == -1        \* a NULL account id
Absent == {None, 0}   \* what Python takes for no id; no row has the key 0

Endpoints == {"create_account", "create_transaction",
              "create_user_transaction", "user_transfer"}

TransactionType == {"deposit", "withdrawal", "transfer", "interest", "emi"}

AccountIds == Accounts \cup Absent

\* schemas/banking.py: TransactionCreate, and AccountCreate, whose
\* initial_deposit is the amount of a create_account request.
Request == [endpoint : Endpoints, user : Users, type : TransactionType,
            account : AccountIds, counterparty : AccountIds, amount : Int]

\* Account ids are positive integers, and Pydantic rejects a transaction whose
\* amount is not positive (Field(gt=0)); an initial deposit has no bound.
ASSUME AccountsAssumption == Accounts \subseteq Nat \ {0}

ASSUME PayloadsAssumption ==
  /\ Payloads \subseteq Request
  /\ \A r \in Payloads : r.endpoint # "create_account" => r.amount > 0

ASSUME StaffAssumption == Staff \subseteq Users

-----------------------------------------------------------------------------

\* user_transfer never looks at payload.type and records a transfer.
Kind(r) == IF r.endpoint = "user_transfer" THEN "transfer" ELSE r.type

\* The request touches two account rows.
IsTransfer(r) == /\ r.endpoint \in {"create_transaction", "user_transfer"}
                 /\ Kind(r) = "transfer"

\* What a handler refuses before it looks at any account: the role_required
\* dependency, the type filter of create_user_transaction, and the first two
\* checks of user_transfer.
Malformed(r) ==
  \/ r.endpoint = "create_transaction" /\ r.user \notin Staff
  \/ r.endpoint = "create_user_transaction"
       /\ r.type \notin {"deposit", "withdrawal"}
  \/ r.endpoint = "user_transfer" /\ r.counterparty \in Absent
  \/ r.endpoint = "user_transfer" /\ r.account = r.counterparty

\* The += and -= of the handlers, as the change to the balance of account a.
DebitAllButEmi(r, a) ==   \* faulty form: an EMI is recorded but not taken
  IF Kind(r) \in {"withdrawal", "transfer"} /\ a = r.account
  THEN r.amount ELSE 0

Debit(r, a) ==
  IF Kind(r) \in {"withdrawal", "emi", "transfer"} /\ a = r.account
  THEN r.amount ELSE 0

Credit(r, a) ==
  IF \/ Kind(r) \in {"deposit", "interest"} /\ a = r.account
     \/ Kind(r) = "transfer" /\ a = r.counterparty
  THEN r.amount ELSE 0

Change(r, a) == Credit(r, a) - Debit(r, a)

\* The checks that make a request acceptable on a given accounts table: rows is
\* the set of ids that exist, own maps ids to users, bal maps ids to balances.
Allowed(r, rows, own, bal) ==
  /\ ~Malformed(r)
  /\ r.account \in rows \ Frozen
  /\ r.endpoint # "create_transaction" =>
       r.user \in Staff \/ own[r.account] = r.user
  /\ Kind(r) \in {"withdrawal", "transfer"} => bal[r.account] >= r.amount
  /\ Kind(r) = "transfer" => r.counterparty \in rows \ Frozen
=============================================================================
