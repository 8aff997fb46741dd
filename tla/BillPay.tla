------------------------------- MODULE BillPay -------------------------------
(***************************************************************************)
(* pages/customer/BillPay.jsx and services/billpay_service.py.  A failed   *)
(* fetch shows demo payments; a failed change is applied on screen only.   *)
(***************************************************************************)
EXTENDS Screen

CONSTANTS
  Bills,      \* ids of payments in the back end, in the order it hands them out
  DemoBill,   \* the payment of getDemoBillPayData()
  LocalBill   \* the payment handleSchedule makes up when its request fails

ASSUME BillsAssumption == Bills \in Nat \ {0}

\* payments maps the ids that are listed to their status.
NoBills == <<>>

BillRows == {[bills |-> b] : b \in {NoBills, [p \in {1} |-> "active"]}}

DemoBills == [p \in {DemoBill} |-> "active"]

BillStatuses == {"active", "paused", "cancelled"}

BillPayHooks ==
  [payments: UNION {[ids -> BillStatuses] : ids \in SUBSET (1..Bills \union {DemoBill, LocalBill})},
   showForm: BOOLEAN, filled: BOOLEAN, loading: BOOLEAN]

BillPayState == [payments |-> NoBills, showForm |-> FALSE, filled |-> FALSE, loading |-> TRUE]

\* fetchAll: three GETs, each caught, joined by Promise.all.  Payees and summary
\* never change here, so the call for the payments stands for the three.
FetchBills == <<Get("fetchBills", "bills")>>

\* The buttons of a payment in the list.
BillActions(status) ==
  (IF status = "active" THEN {"pause"} ELSE {}) \union
  (IF status = "paused" THEN {"resume"} ELSE {}) \union
  (IF status # "cancelled" THEN {"cancel"} ELSE {})

\* While it loads the screen is a skeleton.  The form is filled once it has a
\* payee, an amount and a date.
BillPayControls(h) ==
  IF h.loading THEN {}
  ELSE {"toggle"} \union (IF h.showForm THEN {"fill", "close"} ELSE {})
                  \union (IF h.showForm /\ h.filled THEN {"schedule"} ELSE {})

BillOffers(control) == screen = "billpay" /\ control \in BillPayControls(hooks)

BillPayMount == Mount("billpay", BillPayState, FetchBills)

ShownBills(r) == IF r.status = "ok" /\ r.value # NoBills THEN r.value ELSE DemoBills

BillsFetched(i) ==
  /\ calls[i].op = "fetchBills" /\ ~Unanswered(i)
  /\ Resolve(i, [hooks EXCEPT !.payments = ShownBills(calls[i].reply), !.loading = FALSE], <<>>)
  /\ UNCHANGED timers

BillForm ==
  \/ BillOffers("toggle") /\ Set([hooks EXCEPT !.showForm = ~hooks.showForm])
  \/ BillOffers("close") /\ Set([hooks EXCEPT !.showForm = FALSE])
  \/ BillOffers("fill") /\ Set([hooks EXCEPT !.filled = TRUE])

\* handleSchedule leaves the form as it is until the answer comes.
BillSchedule ==
  BillOffers("schedule") /\ SetAndSend(hooks, <<Post("schedule", "new")>>)

BillScheduled(i) ==
  /\ \/ /\ Back(i, "schedule", "ok")
        /\ Resolve(i, [hooks EXCEPT !.loading = TRUE, !.showForm = FALSE, !.filled = FALSE], FetchBills)
     \/ /\ Back(i, "schedule", "failed")
        /\ Resolve(i, [hooks EXCEPT !.showForm = FALSE, !.filled = FALSE,
                                    !.payments = [p \in DOMAIN @ \union {LocalBill} |->
                                                    IF p = LocalBill THEN "active" ELSE @[p]]], <<>>)
  /\ UNCHANGED timers

\* handleAction.  Nothing on screen changes before the answer.
BillAction(p, action) ==
  /\ screen = "billpay" /\ ~hooks.loading /\ action \in BillActions(hooks.payments[p])
  /\ SetAndSend(hooks, <<Post("action", [bill |-> p, action |-> action])>>)

Outcome(action) ==
  CASE action = "pause" -> "paused" [] action = "resume" -> "active" [] action = "cancel" -> "cancelled"

\* Faulty form: what was on screen is taken for what the back end has.
BillActedUnread(i) ==
  /\ \/ Back(i, "action", "ok") /\ Resolve(i, hooks, <<>>)
     \/ /\ Back(i, "action", "failed")
        /\ Resolve(i, [hooks EXCEPT !.payments = [q \in DOMAIN @ |->
                         IF q = calls[i].arg.bill THEN Outcome(calls[i].arg.action) ELSE @[q]]], <<>>)
  /\ UNCHANGED timers

BillActed(i) ==
  LET p == calls[i].arg.bill IN
  /\ \/ /\ Back(i, "action", "ok")
        /\ Resolve(i, [hooks EXCEPT !.loading = TRUE], FetchBills)
     \/ /\ Back(i, "action", "failed")
        /\ Resolve(i, [hooks EXCEPT !.payments = [q \in DOMAIN @ |->
                         IF q = p THEN Outcome(calls[i].arg.action) ELSE @[q]]], <<>>)
  /\ UNCHANGED timers

(* The service *)

\* create_scheduled_payment.  Ids are taken to be different.
ScheduleServe(i) ==
  LET p == Cardinality(DOMAIN server.bills) + 1 IN
  /\ calls[i].op = "schedule" /\ Unanswered(i) /\ p <= Bills
  /\ Write(i, "schedule", [server EXCEPT !.bills = [q \in 1..p |-> IF q = p THEN "active" ELSE @[q]]], p)

\* cancel_payment, pause_payment, resume_payment: an unknown payment, or one to
\* resume that is not paused, is a 404.
ActionServe(i) ==
  LET p == calls[i].arg.bill
      action == calls[i].arg.action
  IN /\ calls[i].op = "action" /\ Unanswered(i)
     /\ p \in DOMAIN server.bills
     /\ action = "resume" => server.bills[p] = "paused"
     /\ Write(i, "action", [server EXCEPT !.bills[p] = Outcome(action)], NoValue)

BillPayNext ==
  \/ screen = "billpay" /\ BillPayMount
  \/ BillForm \/ BillSchedule
  \/ \E p \in 1..Bills \union {DemoBill, LocalBill}, action \in {"pause", "resume", "cancel"} :
       screen = "billpay" /\ p \in DOMAIN hooks.payments /\ BillAction(p, action)
  \/ \E i \in DOMAIN calls :
       \/ BillsFetched(i) \/ BillScheduled(i) \/ BillActed(i)
       \/ ScheduleServe(i) \/ ActionServe(i)
=============================================================================
