------------------------------- MODULE Pages -------------------------------
(***************************************************************************)
(* The screens of the front end together, one of them open in each         *)
(* behaviour; the links between FirstTransaction and its receipt are       *)
(* followed.  What can go wrong on a screen has four sources: calls that   *)
(* come back in another order, calls that fail, timeouts, and the user who *)
(* goes on while a call is under way or leaves and comes back.             *)
(***************************************************************************)
EXTENDS FirstTransaction, BillPay, MultiCurrency, Listings, AdminScreens, CustomerScreens,
        LiveScreens, LegacyPages

\* A screen that has just been opened.
Opened(s, rows, h, cs) ==
  /\ server \in rows /\ screen = s /\ hooks = h /\ calls = cs /\ timers = <<>>

PagesInit ==
  /\ past = {}
  /\ \/ Opened("transfer", BankRows, TransferState, <<Get("transferAccounts", "accounts")>>)
     \/ Opened("first", {r \in BankRows : ~r.staff}, FirstState, <<Get("firstAccounts", "accounts")>>)
     \/ Opened("billpay", BillRows, BillPayState, FetchBills)
     \/ Opened("fx", FxRows, FxState, <<Get("fxWallet", "wallet")>>)
     \/ Opened("transactions", ListingRows, TransactionsState, <<Get("transactions", "transactions")>>)
     \/ Opened("dashboard", ListingRows, DashboardState, <<Get("dashboard", "transactions")>>)
     \/ Opened("accounts", ListingRows, AccountsState, <<Get("accountList", "list")>>)
     \/ Opened("markets", ListingRows, MarketsState, <<>>)
     \/ Opened("users", AdminRows, UsersState, <<Get("users", "users")>>)
     \/ Opened("flags", AdminRows, FlagsState, FetchFlags)
     \/ \E s \in AdminLists : Opened(s, AdminRows, AdminListState, <<Get(s, "events")>>)
     \/ Opened("backups", AdminRows, BackupsState, <<>>)
     \/ Opened("showcase", AdminRows, ShowcaseState, <<>>)
     \/ Opened("roadmap", AdminRows, RoadmapState, <<>>)
     \/ Opened("notifications", CustomerRows, NoticesState, <<Get("notices", "notices")>>)
     \/ Opened("cards", CustomerRows, CardsState, <<>>)
     \/ Opened("goals", CustomerRows, GoalsState, <<>>)
     \/ Opened("profile", CustomerRows, ProfileState, FetchSessions)
     \/ \E s \in Chats : Opened(s, CustomerRows, ChatState(s), <<>>)
     \/ \E s \in Layouts : Opened(s, LiveRows, ShellState, <<>>)
     \/ Opened("contact", LiveRows, ContactState, <<>>)
     \/ Opened("legacy", LegacyRows, LegacyState("login", FALSE), <<>>)
     \/ /\ server \in LiveRows /\ calls = <<>>
        /\ \/ screen = "globe" /\ hooks = GlobeState /\ timers = GlobeTimers
           \/ screen = "landing" /\ hooks = LandingState /\ timers = LandingTimers

PagesNext ==
  \/ TransferNext \/ FirstTransactionNext \/ BillPayNext \/ FxNext \/ ListingsNext
  \/ AdminNext \/ CustomerNext \/ LiveNext \/ LegacyNext
  \/ \E i \in DOMAIN calls : Read(i) \/ Reject(i) \/ Lose(i)

PagesSpec == PagesInit /\ [][PagesNext]_vars

(* Properties *)

\* Calls, timeouts and history have their shape, and so have the hooks of the
\* screens that a form or a late answer writes to, whichever answer came in.
PagesTypeOK ==
  /\ Len(calls) <= MaxCalls /\ Len(timers) <= MaxTimers
  /\ past \subseteq {"failed", "overtaken", "outlived", "edited", "overlapped"}
  /\ \A i \in DOMAIN calls : calls[i].reply.status \in {"waiting", "ok", "failed"}
  /\ screen = "transfer" => hooks \in TransferHooks
  /\ screen = "billpay" => hooks \in BillPayHooks
  /\ screen = "fx" => hooks \in FxHooks
  /\ screen = "legacy" => hooks \in LegacyHooks

Count(kind) == Cardinality({k \in DOMAIN timers : timers[k] = kind})

\* The revocations under way: of one session, and of all of them.
RevokesOne == {i \in InFlight("revoke") : calls[i].arg # "all"}
RevokesAll == {i \in InFlight("revoke") : calls[i].arg = "all"}

\* No screen waits for nothing: wherever one shows that it loads, sends, revokes,
\* restores, types or celebrates, a call or a timeout that ends it is pending,
\* whatever failed, came late or was done meanwhile.
BusyHasCause ==
  CASE screen = "transfer" -> hooks.loading => InFlight("transfer") # {}
    [] screen = "first" ->
         /\ hooks.loading => InFlight("first") # {}
         /\ hooks.loadingAccounts => InFlight("firstAccounts") # {}
         /\ hooks.showConfetti => Pending("confetti")
    [] screen = "lifecycle" -> hooks.loading => InFlight("lifecycle") # {}
    [] screen = "billpay" -> hooks.loading => InFlight("fetchBills") # {}
    [] screen = "fx" -> hooks.converting => InFlight("convert") # {}
    [] screen = "transactions" -> hooks.loading => InFlight("transactions") # {}
    [] screen = "dashboard" -> hooks.loading => InFlight("dashboard") # {}
    [] screen = "accounts" -> hooks.loading => InFlight("accountList") # {}
    [] screen = "users" -> hooks.loading => InFlight("users") # {}
    [] screen \in AdminLists -> hooks.loading => InFlight(screen) # {}
    [] screen = "backups" -> hooks.restoring # "none" => Pending("restored")
    [] screen = "notifications" -> hooks.loading => InFlight("notices") # {}
    [] screen = "cards" -> hooks.copied => Pending("copied")
    [] screen = "profile" ->
         /\ hooks.sessionsLoading => InFlight("fetchSessions") # {}
         /\ hooks.revokingId # "none" => RevokesOne # {}
         /\ hooks.revokingAll => RevokesAll # {}
    [] screen \in Chats -> hooks.typing => Pending("reply")
    [] screen = "contact" -> hooks.submitted => Pending("submitted")
    [] screen = "landing" -> hooks.count < CountEnd => Pending("count")
    [] screen = "legacy" -> hooks.toasts = Count("legacyToast")
    [] OTHER -> TRUE

\* The writes whose button is disabled or replaced while they are under way go
\* out once, however the user goes back and forth meanwhile: a transfer, a first
\* transaction, a conversion, the revocation of all sessions.  The schedule of
\* BillPay is none of them: its button stays live (BillPay.jsx:263), and a second
\* click posts the form again.
OneWriteAtATime ==
  /\ \A op \in {"transfer", "first", "convert"} : Cardinality(InFlight(op)) <= 1
  /\ Cardinality(RevokesAll) <= 1

\* What a screen reports as done is what was asked of the back end: the success
\* view of Transfer names a transaction of the ledger and the result of a
\* conversion belongs to the inputs beside it, unless they were changed while
\* the request was under way; the receipt of FirstTransaction always does.  And
\* a demo account, whose id another account may have, is only ever posted to
\* where the list of accounts could not be fetched.
ReceiptShowsWhatWasPosted ==
  /\ screen = "transfer" /\ hooks.step = "success" /\ "edited" \notin past =>
       \E k \in DOMAIN server.ledger : server.ledger[k] = TransferRequest(hooks)
  /\ screen = "transfer" /\ hooks.step = "success" /\ "failed" \notin past => ~hooks.accounts.demo
  /\ screen = "first" /\ hooks.receipt # NoReceipt =>
       server.ledger[hooks.receipt.id] = ReceiptView(hooks)
  /\ screen = "fx" /\ hooks.result # NoResult /\ "edited" \notin past => hooks.result = Inputs(hooks)

\* Once nothing is under way, a screen shows what the back end has, or demo rows
\* where it has none, unless a call failed, an answer was overtaken by a later
\* one, two changes overlapped or a request outlived the screen that sent it.  A
\* form that was edited while its request was under way ("edited") is no excuse.
FreshUnlessOvertaken ==
  (past \subseteq {"edited"} /\ \A i \in DOMAIN calls : ~calls[i].live) =>
    CASE screen = "transfer" -> hooks.accounts = Listed(Ok(server.accounts))
      [] screen = "first" -> hooks.receipt = NoReceipt => hooks.accounts = server.accounts
      [] screen = "lifecycle" -> LifecycleView(hooks) \in {[view |-> "error", tx |-> 0], [view |-> "stages", tx |-> hooks.tx]}
      [] screen = "billpay" -> hooks.payments = ShownBills(Ok(server.bills))
      [] screen \in {"transactions", "dashboard"} ->
           hooks.transactions = RowsOr(Ok(server.transactions), DemoRows)
      [] screen = "accounts" -> hooks.accounts = (IF server.list = "some" THEN "server" ELSE "demo")
      [] screen = "users" -> hooks.users = server.users
      [] screen = "flags" -> hooks.flags = server.flags
      [] screen \in AdminLists -> hooks.events = server.events
      [] screen = "notifications" ->
           \A n \in DOMAIN hooks.items : hooks.items[n] = server.notices[n]
      [] screen = "profile" -> hooks.sessions = server.sessions
      [] screen = "legacy" ->
           hooks.page # "login" /\ hooks.said = "none" => hooks.shown = Len(LegacyPages[hooks.page].fetches)
      [] OTHER -> TRUE

\* What goes away by itself matches the timeouts that take it away: the arcs on
\* the globe are the newest of those in the air, the feed holds the newest
\* payments, the globe turns exactly while a frame is asked for, and the toasts
\* end with the last message and are no more than their timeouts.
TransientsMatchTimers ==
  /\ screen = "globe" =>
       LET Newest(n) == [k \in 1..n |-> hooks.totalTx - n + k] IN
       /\ hooks.livePayments = Newest(Min({Cardinality(ArcTimers), ArcLimit + 1}))
       /\ hooks.txFeed = Reverse(Newest(Min({hooks.totalTx, FeedLimit})))
       /\ hooks.autoRotate <=> Pending("frame")
  /\ screen = "customerLayout" =>
       /\ Len(hooks.wsNotifs) <= Count("toast")
       /\ hooks.wsNotifs # <<>> => Last(hooks.wsNotifs) = hooks.received

\* README.md:302: POST /api/banking/transfer will "Execute atomic internal/wire
\* transfer": what Transfer.jsx posts there is not refused for its form.
TransfersAreAccepted ==
  \A i \in DOMAIN calls :
    calls[i].op = "transfer" /\ calls[i].arg.type = "transfer" => Accepts("transfer", calls[i].arg)

\* Whatever was filtered, searched and turned before, a list of transactions that
\* is not empty has a row on the page that is shown.
PageHasRows ==
  screen = "transactions" /\ Filtered(hooks) # {} => Paginated(hooks) # {}
=============================================================================
