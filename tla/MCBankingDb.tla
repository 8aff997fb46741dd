----------------------------- MODULE MCBankingDb -----------------------------
(* Payload mixes and seed rows for TLC: which requests clients send decides    *)
(* which question a run asks.                                                *)
EXTENDS BankingDb

\* Accounts 1 and 2 belong to alice and bob, 4 is a frozen account of bob, and 3
\* can be created.  The clerk is staff.
MCAccounts == 1 .. 4
MCUsers == {"alice", "bob", "clerk"}
MCStaff == {"clerk"}
MCSeedRows == {1, 2, 4}
MCSeedOwner == [a \in MCAccounts |-> IF a \in {2, 4} THEN "bob" ELSE "alice"]
MCSeedBalance == [a \in MCAccounts |-> IF a = 1 THEN 2 ELSE IF a = 3 THEN 0 ELSE 1]

Body(e, u, t, a, c, m) ==
  [endpoint |-> e, user |-> u, type |-> t, account |-> a, counterparty |-> c,
   amount |-> m]

\* Transfers between 1 and 2 both ways by their owners, one by somebody else, one
\* to an account that may not exist, one to the paying account, one to the id 0,
\* and deposits and withdrawals of the owner.
UserPayloads ==
  {Body("user_transfer", "alice", "transfer", 1, 2, 2),
   Body("user_transfer", "bob", "transfer", 2, 1, 1),
   Body("user_transfer", "bob", "transfer", 1, 2, 1),
   Body("user_transfer", "alice", "deposit", 1, 3, 1),
   Body("user_transfer", "bob", "transfer", 2, 4, 1),
   Body("user_transfer", "bob", "transfer", 3, 2, 1),
   Body("user_transfer", "alice", "transfer", 1, 1, 1),
   Body("user_transfer", "alice", "transfer", 1, 0, 1),
   Body("create_user_transaction", "alice", "withdrawal", 1, None, 2),
   Body("create_user_transaction", "bob", "deposit", 2, None, 1),
   Body("create_user_transaction", "bob", "interest", 2, None, 1),
   Body("create_user_transaction", "bob", "withdrawal", 1, None, 1),
   Body("create_account", "alice", "deposit", None, None, 1),
   Body("create_account", "bob", "deposit", None, None, -1)}

\* Every transaction type through create_transaction, in both transfer
\* directions, with transfers of an account to itself, to none and to the id 0, a
\* deposit that names a counterparty, one whose counterparty may not exist and one
\* whose counterparty is the id 0, and a request whose sender is not staff.
StaffPayloads ==
  {Body("create_transaction", "clerk", "transfer", 2, 1, 1),
   Body("create_transaction", "clerk", "transfer", 1, 2, 2),
   Body("create_transaction", "clerk", "transfer", 1, 1, 2),
   Body("create_transaction", "clerk", "transfer", 1, None, 1),
   Body("create_transaction", "clerk", "transfer", 1, 0, 1),
   Body("create_transaction", "clerk", "withdrawal", 1, None, 2),
   Body("create_transaction", "clerk", "emi", 1, None, 2),
   Body("create_transaction", "clerk", "interest", 2, None, 1),
   Body("create_transaction", "clerk", "deposit", 2, 1, 1),
   Body("create_transaction", "clerk", "deposit", 1, 3, 1),
   Body("create_transaction", "clerk", "deposit", 1, 0, 1),
   Body("create_transaction", "clerk", "deposit", 4, None, 1),
   Body("create_transaction", "alice", "deposit", 1, None, 1)}

AllPayloads == UserPayloads \cup StaffPayloads

\* Contention for both rows from both routes that transfer.
ContendedPayloads ==
  {Body("user_transfer", "alice", "transfer", 1, 2, 1),
   Body("create_transaction", "clerk", "transfer", 2, 1, 1),
   Body("create_user_transaction", "alice", "withdrawal", 1, None, 2)}
=============================================================================
