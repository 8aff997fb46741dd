------------------------------- MODULE SignIn -------------------------------
(***************************************************************************)
(* Signing in and out: context/AuthContext.jsx, the guards and routes of   *)
(* App.jsx, pages/auth (Login, Register, ForgotPassword) and the log-out   *)
(* of layouts/DashboardLayout.jsx, with the statements of routes/auth.py   *)
(* behind them.                                                            *)
(*                                                                         *)
(* The context outlives the screens: an answer to one of its calls changes *)
(* who is signed in, whichever screen is open by then.                     *)
(***************************************************************************)
EXTENDS Screen

CONSTANTS
  Users,       \* names that may be typed
  Registered,  \* those with an account at first
  Mfa,         \* those whose account asks for a code
  Admins,      \* those with the role admin
  MaxSessions  \* bound: sessions the back end hands out

ASSUME UsersAssumption == Registered \subseteq Users /\ "none" \notin Users /\ MaxSessions \in Nat

VARIABLE auth  \* who is signed in (the context and localStorage), with which
               \* session, and whose password waits for a code

signVars == <<vars, auth>>

\* The requests of the forms that are open.
SignInCalls == UNION {InFlight(op) : op \in {"login", "verify", "register", "forgot"}}

SignedOut == [user |-> "none", stored |-> "none", session |-> 0, pending |-> "none"]

Public == {"landing", "login", "register", "forgot"}
Guarded == {"app", "admin"}

\* ProtectedRoute and AdminRoute.
Dest(s, user) ==
  CASE s \in Guarded /\ user = "none" -> "login"
    [] s = "admin" /\ user # "none" /\ user \notin Admins -> "app"
    [] OTHER -> s

LoginState ==
  [username |-> "none", loading |-> FALSE, loginSuccess |-> FALSE,
   mfaRequired |-> FALSE, otp |-> FALSE]

\* accepted: the terms are accepted, the passwords match, the password is strong.
RegisterState == [username |-> "none", accepted |-> FALSE, loading |-> FALSE]

\* email: an address has been typed; whose it is makes no difference.
ForgotState == [step |-> "email", email |-> FALSE, loading |-> FALSE]

Fresh(s) ==
  CASE s = "login" -> LoginState [] s = "register" -> RegisterState [] s = "forgot" -> ForgotState
    [] OTHER -> [loading |-> FALSE]

\* A timeout that navigates does so whatever is open; the others set hooks only,
\* and are gone.
Kept(ts) ==
  [k \in 1..Cardinality({j \in DOMAIN ts : ts[j] = "dashboard"}) |-> "dashboard"]

\* The router opens s, or where the guards send it.
Open(s) ==
  /\ screen' = Dest(s, auth.user) /\ hooks' = Fresh(Dest(s, auth.user))
  /\ calls' = Left(calls) /\ timers' = Kept(timers)
  /\ UNCHANGED <<server, past, auth>>

\* Faulty form: the guards are looked at when a screen is opened only.
SettledInPlace(i, a, h, ts) ==
  /\ auth' = a /\ calls' = RemoveAt(calls, i) /\ timers' = ts
  /\ hooks' = IF calls[i].live THEN h ELSE hooks
  /\ UNCHANGED <<screen, server, past>>

\* The i-th call has come back and makes a the context, h the hooks and ts the
\* timeouts; the guards look at the new context.
Settled(i, a, h, ts) ==
  LET s == Dest(screen, a.user) IN
  /\ auth' = a /\ screen' = s
  /\ IF s = screen
       THEN /\ calls' = RemoveAt(calls, i) /\ timers' = ts
            /\ hooks' = IF calls[i].live THEN h ELSE hooks
       ELSE calls' = Left(RemoveAt(calls, i)) /\ timers' = Kept(ts) /\ hooks' = Fresh(s)
  /\ UNCHANGED <<server, past>>

(* Login.jsx *)

\* The inputs are not disabled while a request is under way, nor is the button
\* that goes back to them from the code.
LoginControls(h) ==
  CASE h.loginSuccess -> {}
    [] ~h.loginSuccess /\ h.mfaRequired ->
         {"otp", "different"} \union (IF h.loading \/ ~h.otp THEN {} ELSE {"verify"})
    [] OTHER ->
         {"credentials"} \union (IF h.loading THEN {} ELSE {"social"})
                         \union (IF h.loading \/ h.username = "none" THEN {} ELSE {"login"})

OnLogin(control) == screen = "login" /\ control \in LoginControls(hooks)

\* Faulty form: the way back from the code also ends the wait for the answer.
LoginInputReady ==
  /\ UNCHANGED auth
  /\ \/ \E u \in Users : OnLogin("credentials") /\ Set([hooks EXCEPT !.username = u])
     \/ OnLogin("otp") /\ Set([hooks EXCEPT !.otp = TRUE])
     \/ OnLogin("different") /\ Set([hooks EXCEPT !.mfaRequired = FALSE, !.otp = FALSE, !.loading = FALSE])

LoginInput ==
  /\ UNCHANGED auth
  /\ \/ \E u \in Users : OnLogin("credentials") /\ Set([hooks EXCEPT !.username = u])
     \/ OnLogin("otp") /\ Set([hooks EXCEPT !.otp = TRUE])
     \/ OnLogin("different") /\ Set([hooks EXCEPT !.mfaRequired = FALSE, !.otp = FALSE])

Busy(h) == [h EXCEPT !.loading = TRUE]

HandleLogin ==
  /\ OnLogin("login") /\ UNCHANGED auth
  /\ SetAndSend(Busy(hooks), <<Post("login", hooks.username)>>)

HandleVerifyOtp ==
  /\ OnLogin("verify") /\ UNCHANGED auth
  /\ SetAndSend(Busy(hooks), <<Post("verify", [user |-> hooks.username, password |-> auth.pending])>>)

\* login() and verifyOtp() of the context: the tokens, then the user.
SignedIn(reply) ==
  [user |-> reply.user, stored |-> reply.user, session |-> reply.session, pending |-> "none"]

\* Faulty form: any 2xx is a sign-in, the 202 that asks for a code included.
LoggedInAtOnce(i) ==
  /\ Back(i, "login", "ok") \/ Back(i, "verify", "ok")
  /\ Len(timers) < MaxTimers
  /\ Settled(i, SignedIn(calls[i].reply.value),
             [hooks EXCEPT !.loginSuccess = TRUE, !.loading = FALSE], Append(timers, "dashboard"))

LoggedIn(i) ==
  LET r == calls[i].reply.value IN
  \/ /\ Back(i, "login", "ok") /\ r.mfa
     /\ Settled(i, [auth EXCEPT !.pending = r.user],
                [hooks EXCEPT !.mfaRequired = TRUE, !.loading = FALSE], timers)
  \/ /\ Back(i, "login", "ok") /\ ~r.mfa /\ Len(timers) < MaxTimers
     /\ Settled(i, [SignedIn(r) EXCEPT !.pending = auth.pending],
                [hooks EXCEPT !.loginSuccess = TRUE, !.loading = FALSE], Append(timers, "dashboard"))
  \/ /\ Back(i, "verify", "ok") /\ Len(timers) < MaxTimers
     /\ Settled(i, SignedIn(r),
                [hooks EXCEPT !.loginSuccess = TRUE, !.loading = FALSE], Append(timers, "dashboard"))

LoginFailed(i) ==
  /\ Back(i, "login", "failed") \/ Back(i, "verify", "failed")
  /\ Settled(i, auth, [hooks EXCEPT !.loading = FALSE], timers)

\* navigate('/dashboard'), 600 ms after a sign-in.
ToDashboard ==
  /\ Pending("dashboard")
  /\ screen' = Dest("app", auth.user) /\ hooks' = Fresh(Dest("app", auth.user))
  /\ calls' = Left(calls) /\ timers' = Kept(RemoveAt(timers, First("dashboard")))
  /\ UNCHANGED <<server, past, auth>>

\* handleSocialLogin and handleSocialSignup: an apology after 1.2 s.
Social ==
  /\ screen \in {"login", "register"} /\ ~hooks.loading /\ UNCHANGED auth
  /\ screen = "login" => OnLogin("social")
  /\ SetAndDelay(Busy(hooks), "social")

SocialEnds ==
  /\ UNCHANGED auth
  /\ Fire("social", [hooks EXCEPT !.loading = FALSE])

(* Register.jsx *)

RegisterInput ==
  /\ screen = "register" /\ UNCHANGED auth
  /\ \/ \E u \in Users : Set([hooks EXCEPT !.username = u])
     \/ Set([hooks EXCEPT !.accepted = ~@])

HandleRegister ==
  /\ screen = "register" /\ ~hooks.loading /\ hooks.username # "none" /\ UNCHANGED auth
  /\ IF hooks.accepted
       THEN SetAndSend(Busy(hooks), <<Post("register", hooks.username)>>)
       ELSE Set(hooks)

\* navigate('/login') comes whether or not the form is still open.
RegisterDone(i) ==
  \/ /\ Back(i, "register", "ok")
     /\ screen' = "login" /\ hooks' = LoginState
     /\ calls' = Left(RemoveAt(calls, i)) /\ timers' = Kept(timers)
     /\ UNCHANGED <<server, past, auth>>
  \/ /\ Back(i, "register", "failed")
     /\ Settled(i, auth, [hooks EXCEPT !.loading = FALSE], timers)

(* ForgotPassword.jsx, as far as its second step *)

\* OtpInputGroup renders an input for each character of value.padEnd(6, ''), which
\* pads nothing: no digit can be entered, and the second step can only be left.
ForgotInput ==
  /\ screen = "forgot" /\ UNCHANGED auth
  /\ \/ hooks.step = "email" /\ Set([hooks EXCEPT !.email = TRUE])
     \/ hooks.step = "otp" /\ Set([hooks EXCEPT !.step = "email"])

HandleEmail ==
  /\ screen = "forgot" /\ hooks.step = "email" /\ ~hooks.loading /\ hooks.email
  /\ UNCHANGED auth
  /\ SetAndSend(Busy(hooks), <<Post("forgot", NoValue)>>)

EmailDone(i) ==
  \/ /\ Back(i, "forgot", "ok")
     /\ Settled(i, auth, [hooks EXCEPT !.step = "otp", !.loading = FALSE], timers)
  \/ /\ Back(i, "forgot", "failed")
     /\ Settled(i, auth, [hooks EXCEPT !.loading = FALSE], timers)

(* Log-out and navigation *)

\* handleLogout: logout() is not awaited, and the landing page opens at once.
HandleLogout ==
  /\ screen = "app" /\ Len(calls) < MaxCalls
  /\ screen' = "landing" /\ hooks' = Fresh("landing") /\ timers' = Kept(timers)
  /\ calls' = Left(Append(calls, Post("logout", auth.session)))
  /\ UNCHANGED <<server, past, auth>>

\* Faulty form: an error leaves the user signed in.
LoggedOutIfTold(i) ==
  \/ Back(i, "logout", "ok") /\ Settled(i, [SignedOut EXCEPT !.pending = auth.pending], hooks, timers)
  \/ Back(i, "logout", "failed") /\ Settled(i, auth, hooks, timers)

\* Errors are ignored.
LoggedOut(i) ==
  /\ calls[i].op = "logout" /\ ~Unanswered(i)
  /\ Settled(i, [SignedOut EXCEPT !.pending = auth.pending], hooks, timers)

Visit(s) == screen # s /\ Open(s)

LoggingOut(n) == \E i \in DOMAIN calls : calls[i].op = "logout" /\ calls[i].arg = n

\* The page is loaded again: what was in memory is gone.  History: a log-out of
\* the stored session was under way, and nothing is left of it.
Reload ==
  /\ auth' = [auth EXCEPT !.user = auth.stored, !.pending = "none"]
  /\ screen' = Dest(screen, auth.stored) /\ hooks' = Fresh(Dest(screen, auth.stored))
  /\ calls' = <<>> /\ timers' = <<>>
  /\ past' = IF LoggingOut(auth.session) THEN past \union {"cut"} ELSE past
  /\ UNCHANGED server

(* routes/auth.py *)

\* The server serves a call, whether or not anybody still waits for it.
Serve(i, op, rows, value) ==
  /\ calls[i].op = op /\ Unanswered(i)
  /\ Answer(i, Ok(value)) /\ server' = rows
  /\ UNCHANGED <<screen, hooks, timers, past>>

\* A new row of SessionToken and the tokens with its jti.
Grant(i, op, u, codes) ==
  LET n == Len(server.owner) + 1 IN
  /\ n <= MaxSessions
  /\ Serve(i, op, [server EXCEPT !.owner = Append(@, u), !.valid = @ \union {n}, !.codes = codes],
           [user |-> u, mfa |-> FALSE, session |-> n])

LoginServe(i) ==
  LET u == calls[i].arg IN
  /\ calls[i].op = "login" /\ u \in server.registered
  /\ IF u \in Mfa
       THEN Serve(i, "login", [server EXCEPT !.codes = @ \union {u}],
                  [user |-> u, mfa |-> TRUE, session |-> 0])
       ELSE Grant(i, "login", u, server.codes)

\* The password is that of the user, and the code has not been used.
VerifyServe(i) ==
  LET u == calls[i].arg.user IN
  /\ calls[i].op = "verify" /\ calls[i].arg.password = u /\ u \in server.codes
  /\ Grant(i, "verify", u, server.codes \ {u})

RegisterServe(i) ==
  /\ calls[i].op = "register" /\ calls[i].arg \notin server.registered
  /\ Serve(i, "register", [server EXCEPT !.registered = @ \union {calls[i].arg}], NoValue)

\* forgot_password answers alike whether or not there is such a user.
ForgotServe(i) == calls[i].op = "forgot" /\ Serve(i, "forgot", server, NoValue)

LogoutServe(i) ==
  /\ calls[i].op = "logout" /\ calls[i].arg \in server.valid
  /\ Serve(i, "logout", [server EXCEPT !.valid = @ \ {calls[i].arg}], NoValue)

SignInServer(i) ==
  \/ LoginServe(i) \/ VerifyServe(i) \/ RegisterServe(i) \/ ForgotServe(i) \/ LogoutServe(i)
  \/ Reject(i) \/ Lose(i)

SignInCallback(i) ==
  LoggedIn(i) \/ LoginFailed(i) \/ RegisterDone(i) \/ EmailDone(i) \/ LoggedOut(i)

SignInInit ==
  /\ screen = "landing" /\ hooks = Fresh("landing") /\ calls = <<>> /\ timers = <<>>
  /\ server = [registered |-> Registered, owner |-> <<>>, valid |-> {}, codes |-> {}]
  /\ past = {} /\ auth = SignedOut

SignInNext ==
  \/ LoginInput \/ HandleLogin \/ HandleVerifyOtp \/ ToDashboard \/ Social \/ SocialEnds
  \/ RegisterInput \/ HandleRegister \/ ForgotInput \/ HandleEmail
  \/ HandleLogout \/ Reload
  \/ \E s \in Public \union Guarded : Visit(s)
  \/ \E i \in DOMAIN calls : (SignInServer(i) /\ UNCHANGED auth) \/ SignInCallback(i)

SignInSpec == SignInInit /\ [][SignInNext]_signVars

(* Properties *)

\* What the form of a screen may hold.
SignInHooks(s) ==
  CASE s = "login" ->
         [username: Users \union {"none"}, loading: BOOLEAN,
          loginSuccess: BOOLEAN, mfaRequired: BOOLEAN, otp: BOOLEAN]
    [] s = "register" ->
         [username: Users \union {"none"}, accepted: BOOLEAN, loading: BOOLEAN]
    [] s = "forgot" ->
         [step: {"email", "otp"}, email: BOOLEAN, loading: BOOLEAN]
    [] OTHER -> [loading: {FALSE}]

\* The state has its shape, and somebody is signed in exactly with a session.
SignInTypeOK ==
  /\ screen \in Public \union Guarded
  /\ hooks \in SignInHooks(screen)
  /\ Len(calls) <= MaxCalls /\ Len(timers) <= MaxTimers
  /\ auth.stored = auth.user /\ auth.pending \in Mfa \union {"none"}
  /\ \/ auth.user \in Users /\ auth.session \in DOMAIN server.owner
     \/ auth.user = "none" /\ auth.session = 0

\* However late an answer signs somebody in or out: a screen of the customer is
\* open for a signed-in user only, one of the administration for an admin only.
GuardsHold == screen \in Guarded => auth.user # "none" /\ (screen = "admin" => auth.user \in Admins)

\* A screen never has two requests under way, though the way back from the code
\* is open while the code is verified, nor one together with a social sign-in.
OneSignInAtATime ==
  /\ Cardinality(SignInCalls) + (IF Pending("social") THEN 1 ELSE 0) <= 1
  /\ (SignInCalls # {} \/ Pending("social")) => hooks.loading

\* Who is signed in holds a session of their own that the back end still takes,
\* unless a log-out of that very session is on its way or was cut short by a reload.
TokensAreLive ==
  auth.session # 0 /\ "cut" \notin past =>
    /\ server.owner[auth.session] = auth.user
    /\ \/ auth.session \in server.valid
       \/ LoggingOut(auth.session)
=============================================================================
