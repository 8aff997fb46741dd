---------------------------- MODULE LegacyPages ----------------------------
(***************************************************************************)
(* The server-rendered pages (bank_system/frontend/static/js).  Each loads *)
(* dashboard.js and a script of its own, which fetches one or two lists    *)
(* with the token it finds in localStorage when it is loaded.              *)
(***************************************************************************)
EXTENDS Screen

CONSTANT LegacyUsers  \* names that may be typed into the form of login.js

\* Of a page: what it fetches, in that order; the answers that may be empty and
\* end it with a message; and whether it says so when a fetch fails.
LegacyPage(fetches, ends, says) == [fetches |-> fetches, ends |-> ends, says |-> says]

LegacyTransactions == LegacyPage(<<"accounts", "rows">>, {1, 2}, TRUE)
LegacyPortfolio    == LegacyPage(<<"accounts", "rows">>, {1, 2}, FALSE)
LegacyAiPortfolio  == LegacyPage(<<"accounts", "rows">>, {1, 2}, FALSE)
LegacyLoans        == LegacyPage(<<"rows">>, {1}, TRUE)
LegacySecurityLogs == LegacyPage(<<"rows">>, {1}, TRUE)
LegacyFraud        == LegacyPage(<<"rows">>, {1}, TRUE)
LegacyAdmin        == LegacyPage(<<"online", "rows">>, {2}, FALSE)
LegacyAnalytics    == LegacyPage(<<"rows">>, {}, FALSE)
LegacyForecasting  == LegacyPage(<<"rows">>, {}, FALSE)
LegacyAml          == LegacyPage(<<"rows">>, {}, TRUE)
LegacyHealth       == LegacyPage(<<"rows">>, {}, TRUE)
LegacyDashboard    == LegacyPage(<<"online", "rows">>, {}, FALSE)

LegacyPages ==
  [transactions |-> LegacyTransactions, portfolio |-> LegacyPortfolio, aiPortfolio |-> LegacyAiPortfolio,
   loans |-> LegacyLoans, securityLogs |-> LegacySecurityLogs, fraud |-> LegacyFraud,
   admin |-> LegacyAdmin, analytics |-> LegacyAnalytics, forecasting |-> LegacyForecasting,
   aml |-> LegacyAml, health |-> LegacyHealth, dashboard |-> LegacyDashboard]

LegacyNames == DOMAIN LegacyPages

LegacyRows == {[accounts |-> a, online |-> 1, rows |-> n] : a \in 0..1, n \in 0..1}

\* shown: how many of its lists a page has put on screen; said: the message in
\* their place.  token is that of localStorage, ws the state of the socket.
LegacyHooks ==
  [page: LegacyNames \union {"login"}, token: BOOLEAN, shown: 0..2, said: {"none", "empty", "failed"},
   ws: {"opening", "open", "closed"}, toasts: Nat, theme: {"dark", "light"},
   form: {"login", "otp"}, username: LegacyUsers \union {"none"}]

LegacyState(p, token) ==
  [page |-> p, token |-> token, shown |-> 0, said |-> "none", ws |-> "opening", toasts |-> 0,
   theme |-> "dark", form |-> "login", username |-> "none"]

\* The k-th fetch of a page.
LegacyFetch(p, k) == Get("legacy", LegacyPages[p].fetches[k])

\* A page is loaded: without a token it goes to the login page instead.
LegacyLoad(p, token) ==
  IF p = "login" \/ ~token
    THEN Mount("legacy", LegacyState("login", token), <<>>)
    ELSE Mount("legacy", LegacyState(p, token), <<LegacyFetch(p, 1)>>)

LegacyMount(p) == screen = "legacy" /\ LegacyLoad(p, hooks.token)

\* A load abandons the requests of the page before it.
LegacyStale(i) ==
  /\ calls[i].op \in {"legacy", "legacyLogin", "legacyOtp"} /\ ~calls[i].live
  /\ calls' = RemoveAt(calls, i)
  /\ UNCHANGED <<screen, hooks, timers, server, past>>

\* fetchJSON and the page's own function: the answers are awaited one by one.
LegacyAnswered(i) ==
  LET page == LegacyPages[hooks.page]
      k == hooks.shown + 1
      empty == calls[i].reply.value = 0 /\ k \in page.ends
      more == IF empty \/ k = Len(page.fetches) THEN <<>> ELSE <<LegacyFetch(hooks.page, k + 1)>>
  IN /\ Back(i, "legacy", "ok") /\ calls[i].live
     /\ Resolve(i, [hooks EXCEPT !.shown = IF empty THEN @ ELSE k, !.said = IF empty THEN "empty" ELSE @], more)
     /\ UNCHANGED timers

LegacyFailed(i) ==
  /\ Back(i, "legacy", "failed") /\ calls[i].live
  /\ Resolve(i, [hooks EXCEPT !.said = IF LegacyPages[hooks.page].says THEN "failed" ELSE @], <<>>)
  /\ UNCHANGED timers

\* loadDashboard alone looks at the status: a 401 takes the token away.
LegacyExpired(i) ==
  /\ Back(i, "legacy", "failed") /\ calls[i].live /\ hooks.page = "dashboard"
  /\ LegacyLoad("login", FALSE)

(* login.js *)

LegacyInForm(form) == screen = "legacy" /\ hooks.page = "login" /\ hooks.form = form

\* handleLogin keeps the name for the second form.  The buttons are never disabled.
LegacyLogin(u) ==
  /\ LegacyInForm("login")
  /\ hooks' = [hooks EXCEPT !.username = u] /\ Send(<<Post("legacyLogin", u)>>)
  /\ past' = IF InFlight("legacyLogin") # {} THEN past \union {"overlapped"} ELSE past
  /\ UNCHANGED <<screen, timers, server>>

\* The answer is 202 where a code was sent; 200 does nothing at all.
LegacyLoginServe(i) ==
  \E status \in {200, 202} : calls[i].op = "legacyLogin" /\ Write(i, "legacyLogin", server, status)

LegacyLoggedIn(i) ==
  /\ calls[i].op = "legacyLogin" /\ ~Unanswered(i) /\ calls[i].live
  /\ Resolve(i, [hooks EXCEPT !.form = IF calls[i].reply = Ok(202) THEN "otp" ELSE @], <<>>)
  /\ UNCHANGED timers

LegacyOtp == LegacyInForm("otp") /\ SetAndSend(hooks, <<Post("legacyOtp", hooks.username)>>)

LegacyOtpServe(i) == calls[i].op = "legacyOtp" /\ Write(i, "legacyOtp", server, NoValue)

LegacyVerified(i) ==
  /\ calls[i].op = "legacyOtp" /\ calls[i].live
  /\ \/ calls[i].reply.status = "ok" /\ LegacyLoad("dashboard", TRUE)
     \/ calls[i].reply.status = "failed" /\ Resolve(i, hooks, <<>>) /\ UNCHANGED timers

(* dashboard.js: theme, socket and toasts *)

LegacyTheme ==
  /\ screen = "legacy" /\ hooks.page # "login"
  /\ Set([hooks EXCEPT !.theme = IF @ = "light" THEN "dark" ELSE "light"])

\* The socket opens or not, and does not come back once it is closed.
LegacySocket ==
  /\ screen = "legacy" /\ hooks.page # "login"
  /\ \/ hooks.ws = "opening" /\ Set([hooks EXCEPT !.ws = "open"])
     \/ hooks.ws # "closed" /\ Set([hooks EXCEPT !.ws = "closed"])

\* showToast, on the dashboard's feed of ticks, and its timeout.
LegacyTick ==
  /\ screen = "legacy" /\ hooks.page = "dashboard" /\ hooks.ws = "open"
  /\ SetAndDelay([hooks EXCEPT !.toasts = @ + 1], "legacyToast")

LegacyToastEnds == screen = "legacy" /\ Fire("legacyToast", [hooks EXCEPT !.toasts = @ - 1])

LegacyNext ==
  \/ \E p \in LegacyNames \union {"login"} : LegacyMount(p)
  \/ \E u \in LegacyUsers : LegacyLogin(u)
  \/ LegacyOtp \/ LegacyTheme \/ LegacySocket \/ LegacyTick \/ LegacyToastEnds
  \/ \E i \in DOMAIN calls :
       \/ LegacyStale(i) \/ LegacyAnswered(i) \/ LegacyFailed(i) \/ LegacyExpired(i)
       \/ LegacyLoginServe(i) \/ LegacyLoggedIn(i) \/ LegacyOtpServe(i) \/ LegacyVerified(i)
=============================================================================
