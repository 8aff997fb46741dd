----------------------------- MODULE MCApiClient -----------------------------
(* Instance of ApiClient for TLC: two tabs, one of them with two calls.       *)
EXTENDS ApiClient

MCTabs == {"tab1", "tab2"}
MCCalls == {"balance", "history", "profile"}
MCTabOf == [r \in MCCalls |-> IF r = "profile" THEN "tab2" ELSE "tab1"]
=============================================================================
