-------------------------------- MODULE Bank --------------------------------
(***************************************************************************)
(* What the money routes promise: a request that is waiting is decided in  *)
(* one step, on the accounts table as it is at that step.  It is applied   *)
(* in full, only if every check holds there; it is refused only if some    *)
(* check fails there; or it breaks without an effect.  An answer follows   *)
(* the decision, and a broken connection can turn the answer to an applied *)
(* request into an error, but never into a refusal.                        *)
(***************************************************************************)
EXTENDS BankingRequests

CONSTANT Workers    \* the request threads

VARIABLES rows, owner, balance,   \* the accounts table
          request, phase, reply   \* per thread: request, progress, last answer

vars == <<rows, owner, balance, request, phase, reply>>

CONSTANTS SeedRows, SeedOwner, SeedBalance, NoRequest

Phases == {"idle", "asked", "applied", "denied", "broken"}

Init ==
  /\ rows = SeedRows /\ owner = SeedOwner /\ balance = SeedBalance
  /\ request = [w \in Workers |-> NoRequest]
  /\ phase = [w \in Workers |-> "idle"]
  /\ reply = [w \in Workers |-> "none"]

table == <<rows, owner, balance>>

Ask(w, r) ==
  /\ phase[w] = "idle"
  /\ request' = [request EXCEPT ![w] = r]
  /\ phase' = [phase EXCEPT ![w] = "asked"]
  /\ reply' = [reply EXCEPT ![w] = "none"]
  /\ UNCHANGED table

Decide(w, outcome) ==
  /\ phase[w] = "asked"
  /\ phase' = [phase EXCEPT ![w] = outcome]
  /\ UNCHANGED <<request, reply>>

\* All of the money moves, on a table that satisfies every check and has every
\* row that the new Transaction row names.
ApplyPosting(w) ==
  /\ request[w].endpoint # "create_account"
  /\ Allowed(request[w], rows, owner, balance)
  /\ request[w].endpoint = "create_transaction" =>
       request[w].counterparty \in rows \cup {None}
  /\ balance' = [a \in Accounts |-> balance[a] + Change(request[w], a)]
  /\ Decide(w, "applied")
  /\ UNCHANGED <<rows, owner>>

\* A new row appears under an id nobody has.
ApplyOpening(w) ==
  /\ request[w].endpoint = "create_account"
  /\ \E a \in Accounts \ rows :
       /\ rows' = rows \cup {a}
       /\ owner' = [owner EXCEPT ![a] = request[w].user]
       /\ balance' = [balance EXCEPT ![a] = request[w].amount]
  /\ Decide(w, "applied")

Deny(w) ==
  /\ request[w].endpoint # "create_account"
  /\ ~Allowed(request[w], rows, owner, balance)
  /\ Decide(w, "denied")
  /\ UNCHANGED table

\* The handler dies: before the decision nothing happens, after it the client
\* is no longer told what was decided.
Break(w) ==
  /\ phase[w] \in {"asked", "applied", "denied"}
  /\ phase' = [phase EXCEPT ![w] = "broken"]
  /\ UNCHANGED <<rows, owner, balance, request, reply>>

Answer(w) ==
  /\ phase[w] \in {"applied", "denied", "broken"}
  /\ reply' = [reply EXCEPT ![w] = CASE phase[w] = "applied" -> "ok"
                                     [] phase[w] = "denied" -> "refused"
                                     [] OTHER -> "error"]
  /\ phase' = [phase EXCEPT ![w] = "idle"]
  /\ request' = [request EXCEPT ![w] = NoRequest]
  /\ UNCHANGED table

Next ==
  \E w \in Workers :
    \/ \E r \in Payloads : Ask(w, r)
    \/ ApplyPosting(w) \/ ApplyOpening(w) \/ Deny(w)
    \/ Break(w) \/ Answer(w)

Spec == Init /\ [][Next]_vars
=============================================================================
