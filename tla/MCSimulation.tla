---------------------------- MODULE MCSimulation ----------------------------
(* Instances of Simulation for TLC: one or two handler threads and the tick.  *)
EXTENDS Simulation

MCAccounts == {1, 2}
MCUsers == {"alice", "clerk"}
MCStaff == {"clerk"}
MCSeedOwner == [a \in MCAccounts |-> "alice"]
MCSeedBalance == [a \in MCAccounts |-> 3 - a]

\* Account 1 pays the instalments of two loans, account 2 those of one.
MCLoans == {"loan1", "loan2", "loan3"}
MCLoanAccount == [l \in MCLoans |-> IF l = "loan3" THEN 2 ELSE 1]
MCEmiAmount == [l \in MCLoans |-> 1]

Body(e, u, t, a, c, m) ==
  [endpoint |-> e, user |-> u, type |-> t, account |-> a, counterparty |-> c,
   amount |-> m]

\* Transfers in both directions by both routes, a deposit and a withdrawal.
MCPayloads ==
  {Body("user_transfer", "alice", "transfer", 1, 2, 1),
   Body("user_transfer", "alice", "transfer", 2, 1, 1),
   Body("create_transaction", "clerk", "transfer", 2, 1, 1),
   Body("create_user_transaction", "alice", "withdrawal", 1, None, 2),
   Body("create_user_transaction", "alice", "deposit", 2, None, 1)}
=============================================================================
