------------------------------ MODULE Listings ------------------------------
(***************************************************************************)
(* The screens that only list what they fetched when they were opened:     *)
(* Dashboard.jsx, Accounts.jsx, Transactions.jsx and Markets.jsx of        *)
(* pages/customer.  They show demo rows where the server has none.         *)
(***************************************************************************)
EXTENDS Screen

CONSTANTS
  Rows,     \* the transactions of the server, newest first: a sequence of types
  DemoRows, \* those of getDemoTransactions()
  PerPage   \* rows on a page

ASSUME PerPageAssumption ==
  /\ PerPage \in Nat \ {0}
  /\ \A rows \in {Rows, DemoRows} : rows \in Seq({rows[k] : k \in DOMAIN rows})

ListingRows == {[transactions |-> rows, list |-> found] : rows \in {<<>>, Rows}, found \in {"none", "some"}}

\* r.data?.length > 0 ? r.data : demo, and demo again where the call failed.
RowsOr(r, demo) == IF r.status = "ok" /\ r.value # <<>> THEN r.value ELSE demo

(* Transactions.jsx: a filter, a search and pages *)

TransactionsState ==
  [transactions |-> <<>>, loading |-> TRUE, filter |-> "all", search |-> "", page |-> 1, view |-> "personal"]

Types(h) == {"all"} \union {h.transactions[k] : k \in DOMAIN h.transactions}

\* The rows that the filter and the search leave.  A search term is abstracted to the
\* type whose descriptions contain it.
Filtered(h) ==
  {k \in DOMAIN h.transactions :
     h.filter \in {"all", h.transactions[k]} /\ h.search \in {"", h.transactions[k]}}

TotalPages(h) == (Cardinality(Filtered(h)) + PerPage - 1) \div PerPage

\* filtered.slice((page - 1) * perPage, page * perPage)
Paginated(h) ==
  {k \in Filtered(h) : Cardinality({j \in Filtered(h) : j < k}) \div PerPage = h.page - 1}

TransactionsControls(h) ==
  IF h.loading THEN {}
  ELSE {"view"} \union
       (IF h.view = "personal" THEN {"search", "filter"} ELSE {}) \union
       (IF h.view = "personal" /\ TotalPages(h) > 1 /\ h.page # 1 THEN {"previous"} ELSE {}) \union
       (IF h.view = "personal" /\ TotalPages(h) > 1 /\ h.page # TotalPages(h) THEN {"next"} ELSE {})

ListOffers(control) == screen = "transactions" /\ control \in TransactionsControls(hooks)

TransactionsMount == Mount("transactions", TransactionsState, <<Get("transactions", "transactions")>>)

TransactionsFetched(i) ==
  /\ calls[i].op = "transactions" /\ ~Unanswered(i)
  /\ Resolve(i, [hooks EXCEPT !.transactions = RowsOr(calls[i].reply, DemoRows), !.loading = FALSE], <<>>)
  /\ UNCHANGED timers

TransactionsView(v) == ListOffers("view") /\ Set([hooks EXCEPT !.view = v])

\* Faulty form: the page stays.
TransactionsFilterHere(t) == ListOffers("filter") /\ Set([hooks EXCEPT !.filter = t])

\* Both go back to the first page.
TransactionsFilter(t) == ListOffers("filter") /\ Set([hooks EXCEPT !.filter = t, !.page = 1])
TransactionsSearch(s) == ListOffers("search") /\ Set([hooks EXCEPT !.search = s, !.page = 1])

TransactionsPage ==
  \/ ListOffers("previous") /\ Set([hooks EXCEPT !.page = IF @ > 1 THEN @ - 1 ELSE 1])
  \/ ListOffers("next") /\ Set([hooks EXCEPT !.page = IF @ < TotalPages(hooks) THEN @ + 1 ELSE @])

(* Dashboard.jsx: accounts and transactions together, and the network map *)

Links == 3  \* the links of the map, whose pulse goes round

DashboardState ==
  [transactions |-> <<>>, loading |-> TRUE, pulsePhase |-> 0, activeNode |-> "none"]

\* Promise.all of two caught GETs; the second stands for both.
DashboardMount == Mount("dashboard", DashboardState, <<Get("dashboard", "transactions")>>)

DashboardFetched(i) ==
  /\ calls[i].op = "dashboard" /\ ~Unanswered(i)
  /\ Resolve(i, [hooks EXCEPT !.transactions = RowsOr(calls[i].reply, DemoRows), !.loading = FALSE], <<>>)
  /\ UNCHANGED timers

\* The map is not there while the dashboard loads; its interval starts with it.
NetworkPulse ==
  /\ screen = "dashboard" /\ ~hooks.loading
  /\ Set([hooks EXCEPT !.pulsePhase = (@ + 1) % Links])

NetworkHover(n) ==
  /\ screen = "dashboard" /\ ~hooks.loading
  /\ Set([hooks EXCEPT !.activeNode = n])

(* Accounts.jsx *)

AccountsState == [accounts |-> "none", loading |-> TRUE, view |-> "personal"]

AccountsMount == Mount("accounts", AccountsState, <<Get("accountList", "list")>>)

AccountsFetched(i) ==
  /\ calls[i].op = "accountList" /\ ~Unanswered(i)
  /\ Resolve(i, [hooks EXCEPT !.accounts = IF calls[i].reply.value = "some" THEN "server" ELSE "demo",
                              !.loading = FALSE], <<>>)
  /\ UNCHANGED timers

AccountsView(v) ==
  screen = "accounts" /\ ~hooks.loading /\ Set([hooks EXCEPT !.view = v])

(* Markets.jsx: the chart is made up for the range that is chosen *)

Ranges == {"1D", "1W", "1M", "3M", "1Y"}

MarketsState == [timeRange |-> "1M", chart |-> "1M", chartType |-> "area"]

MarketsMount == Mount("markets", MarketsState, <<>>)

\* setTimeRange, and the effect on timeRange that follows.
MarketsRange(r) ==
  screen = "markets" /\ Set([hooks EXCEPT !.timeRange = r, !.chart = r])

MarketsType(t) == screen = "markets" /\ Set([hooks EXCEPT !.chartType = t])

ListingsNext ==
  \/ screen = "transactions" /\ TransactionsMount
  \/ screen = "dashboard" /\ DashboardMount
  \/ screen = "accounts" /\ AccountsMount
  \/ screen = "markets" /\ MarketsMount
  \/ \E v \in {"personal", "global"} : TransactionsView(v) \/ AccountsView(v)
  \/ screen = "transactions" /\ \E t \in Types(hooks) : TransactionsFilter(t)
  \/ screen = "transactions" /\ \E s \in {""} \union Types(hooks) : TransactionsSearch(s)
  \/ TransactionsPage \/ NetworkPulse
  \/ \E n \in {"none", "hub"} : NetworkHover(n)
  \/ \E r \in Ranges : MarketsRange(r)
  \/ \E t \in {"area", "candle"} : MarketsType(t)
  \/ \E i \in DOMAIN calls : TransactionsFetched(i) \/ DashboardFetched(i) \/ AccountsFetched(i)
=============================================================================
