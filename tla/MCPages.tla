------------------------------ MODULE MCPages ------------------------------
EXTENDS Pages, TLC

MCRows == <<"deposit", "withdrawal", "deposit">>
MCDemoRows == <<"withdrawal", "deposit">>

\* No accounts of the user are told apart.
AccountsAlike == Permutations(Accounts)
=============================================================================
