--------------------------- MODULE MCBankingService ---------------------------
(* Instance of BankingService for TLC: two accounts that exist, one that may be *)
(* created, two threads.                                                      *)
EXTENDS BankingService

J(op, a, b, n, kind) ==
  [op |-> op, account |-> a, target |-> b, amount |-> n, rank |-> n, kind |-> kind]

MCAccounts == {"a", "b", "new"}
MCSeeded == {"a", "b"}
MCOpening == [a \in MCSeeded |-> 1]
MCCredited == [a \in MCSeeded |-> IF a = "a" THEN 1 ELSE 0]
MCSeedLoans == {J("apply_loan", "a", "a", 1, "other")}
MCQueued == <<J("enqueue_transaction", "a", "a", 1, "withdrawal")>>
MCJobs == MCSeedLoans \cup
  { J("deposit", "a", "a", 1, "deposit"), J("withdrawal", "a", "a", 2, "withdrawal"),
    J("transfer", "a", "b", 2, "other"), J("transfer", "b", "new", 1, "other"),
    J("deposit", "new", "new", 1, "deposit"), J("create_account", "new", "new", 1, "other"),
    J("create_account", "new", "new", -1, "other"),
    J("freeze_account", "a", "a", 1, "other"),
    J("undo_last_transaction", "a", "a", 1, "other"),
    MCQueued[1],
    J("enqueue_transaction", "a", "a", 1, "other"),
    J("process_queued_transactions", "a", "a", 1, "other"),
    J("process_next_loan", "a", "a", 1, "approved"),
    J("process_next_loan", "a", "a", 1, "rejected")}
=============================================================================
