---------------------------- MODULE SignInProofs ----------------------------
(***************************************************************************)
(* What signing in and out guarantees for any users, roles and bounds.     *)
(***************************************************************************)
EXTENDS SignIn, ScreenProofs

(* GuardsHold: every step either leaves the screen and the context alone, or
   opens a public screen, or opens what the guards make of some screen and of
   the context it leaves. *)

\* The context is a record with a user.  A reload makes the stored user the user,
\* which is all the guards need to know of the record.
ContextShape == "user" \in DOMAIN auth

GInv == ContextShape /\ GuardsHold

\* What the guards let through is allowed: a screen of the customer needs a user,
\* one of the administration an admin.
LEMMA GuardedDest ==
  ASSUME NEW s, NEW u
  PROVE  Dest(s, u) \in Guarded => u # "none" /\ (Dest(s, u) = "admin" => u \in Admins)
<1>1. CASE s \in Guarded /\ u = "none"
  BY <1>1 DEF Dest, Guarded
<1>2. CASE s = "admin" /\ u # "none" /\ u \notin Admins
  BY <1>2 DEF Dest, Guarded
<1>3. CASE ~(s \in Guarded /\ u = "none") /\ ~(s = "admin" /\ u # "none" /\ u \notin Admins)
  <2>1. Dest(s, u) = s
    BY <1>3 DEF Dest
  <2> QED
    BY <1>3, <2>1 DEF Guarded
<1> QED
  BY <1>1, <1>2, <1>3

\* A step that opens what the guards make of a screen keeps the property.
LEMMA OpenedIsGuarded ==
  ASSUME NEW s, screen' = Dest(s, auth'.user)
  PROVE  GuardsHold'
<1>1. Dest(s, auth'.user) \in Guarded =>
        auth'.user # "none" /\ (Dest(s, auth'.user) = "admin" => auth'.user \in Admins)
  BY GuardedDest
<1> QED
  BY <1>1 DEF GuardsHold

\* So does one that leaves the screen and the context alone, or that opens a
\* public screen.
LEMMA QuietStep ==
  ASSUME GInv, UNCHANGED auth, screen' = screen \/ screen' \in Public
  PROVE  GInv'
BY DEF GInv, ContextShape, GuardsHold, Public, Guarded

\* An answer that settles makes a the context and shows what its guards allow.
LEMMA SettledStep ==
  ASSUME NEW i, NEW a, NEW h, NEW ts, "user" \in DOMAIN a, Settled(i, a, h, ts)
  PROVE  GInv'
<1>1. screen' = Dest(screen, auth'.user) /\ auth' = a
  BY DEF Settled
<1>2. GuardsHold'
  BY <1>1, OpenedIsGuarded
<1> QED
  BY <1>1, <1>2 DEF GInv, ContextShape

\* The steps of the server and of the network touch neither screen nor context.
LEMMA ServerStep ==
  ASSUME NEW i, SignInServer(i)
  PROVE  UNCHANGED screen
BY DEF SignInServer, LoginServe, VerifyServe, RegisterServe, ForgotServe, LogoutServe, Grant,
       Serve, Reject, Lose

\* An answer comes back.
LEMMA CallbackStep ==
  ASSUME GInv, NEW i, SignInCallback(i)
  PROVE  GInv'
<1>1. "user" \in DOMAIN auth
  BY DEF GInv, ContextShape
<1>2. CASE LoggedIn(i)
  <2> DEFINE r == calls[i].reply.value
  <2>1. "user" \in DOMAIN [auth EXCEPT !.pending = r.user]
    BY <1>1
  <2>2. "user" \in DOMAIN [SignedIn(r) EXCEPT !.pending = auth.pending] /\ "user" \in DOMAIN SignedIn(r)
    BY DEF SignedIn
  <2> QED
    BY <1>2, <2>1, <2>2, SettledStep DEF LoggedIn
<1>3. CASE LoginFailed(i)
  BY <1>1, <1>3, SettledStep DEF LoginFailed
<1>4. CASE RegisterDone(i)
  <2>1. CASE screen' = "login" /\ UNCHANGED auth
    BY <2>1, QuietStep DEF Public
  <2>2. CASE Settled(i, auth, [hooks EXCEPT !.loading = FALSE], timers)
    BY <1>1, <2>2, SettledStep
  <2> QED
    BY <1>4, <2>1, <2>2 DEF RegisterDone
<1>5. CASE EmailDone(i)
  BY <1>1, <1>5, SettledStep DEF EmailDone
<1>6. CASE LoggedOut(i)
  <2>1. "user" \in DOMAIN [SignedOut EXCEPT !.pending = auth.pending]
    BY DEF SignedOut
  <2> QED
    BY <1>6, <2>1, SettledStep DEF LoggedOut
<1> QED
  BY <1>2, <1>3, <1>4, <1>5, <1>6 DEF SignInCallback

\* The forms set hooks, send calls and set timeouts.
LEMMA FormStep ==
  ASSUME \/ LoginInput \/ HandleLogin \/ HandleVerifyOtp \/ Social \/ SocialEnds
         \/ RegisterInput \/ HandleRegister \/ ForgotInput \/ HandleEmail
  PROVE  UNCHANGED <<screen, auth>>
<1>1. ASSUME NEW h, Set(h) PROVE UNCHANGED screen
  BY <1>1 DEF Set
<1>2. ASSUME NEW h, NEW cs, SetAndSend(h, cs) PROVE UNCHANGED screen
  BY <1>2 DEF SetAndSend
<1>3. ASSUME NEW h, NEW kind, SetAndDelay(h, kind) \/ Fire(kind, h) PROVE UNCHANGED screen
  BY <1>3 DEF SetAndDelay, Fire
<1>4. CASE LoginInput
  BY <1>1, <1>4 DEF LoginInput
<1>5. CASE HandleLogin \/ HandleVerifyOtp \/ HandleEmail
  BY <1>2, <1>5 DEF HandleLogin, HandleVerifyOtp, HandleEmail
<1>6. CASE Social \/ SocialEnds
  BY <1>3, <1>6 DEF Social, SocialEnds
<1>7. CASE RegisterInput \/ ForgotInput
  BY <1>1, <1>7 DEF RegisterInput, ForgotInput
<1>8. CASE HandleRegister
  BY <1>1, <1>2, <1>8 DEF HandleRegister
<1> QED
  BY <1>4, <1>5, <1>6, <1>7, <1>8

\* Every step keeps the invariant.
LEMMA StepKeepsGuards == GInv /\ [SignInNext]_signVars => GInv'
<1> SUFFICES ASSUME GInv, [SignInNext]_signVars PROVE GInv'
  OBVIOUS
<1>1. CASE \/ LoginInput \/ HandleLogin \/ HandleVerifyOtp \/ Social \/ SocialEnds
           \/ RegisterInput \/ HandleRegister \/ ForgotInput \/ HandleEmail
  BY <1>1, FormStep, QuietStep
<1>2. CASE ToDashboard
  <2>1. screen' = Dest("app", auth'.user) /\ UNCHANGED auth
    BY <1>2 DEF ToDashboard
  <2>2. GuardsHold'
    BY <2>1, OpenedIsGuarded
  <2> QED
    BY <2>1, <2>2 DEF GInv, ContextShape
<1>3. CASE HandleLogout
  BY <1>3, QuietStep DEF HandleLogout, Public
<1>4. CASE Reload
  <2>1. auth' = [auth EXCEPT !.user = auth.stored, !.pending = "none"]
    BY <1>4 DEF Reload
  <2>2. "user" \in DOMAIN auth' /\ auth'.user = auth.stored
    BY <2>1 DEF GInv, ContextShape
  <2>3. screen' = Dest(screen, auth'.user)
    BY <1>4, <2>2 DEF Reload
  <2>4. GuardsHold'
    BY <2>3, OpenedIsGuarded
  <2> QED
    BY <2>2, <2>4 DEF GInv, ContextShape
<1>5. ASSUME NEW s \in Public \union Guarded, Visit(s) PROVE GInv'
  <2>1. screen' = Dest(s, auth'.user) /\ UNCHANGED auth
    BY <1>5 DEF Visit, Open
  <2>2. GuardsHold'
    BY <2>1, OpenedIsGuarded
  <2> QED
    BY <2>1, <2>2 DEF GInv, ContextShape
<1>6. ASSUME NEW i \in DOMAIN calls, SignInServer(i), UNCHANGED auth PROVE GInv'
  BY <1>6, ServerStep, QuietStep
<1>7. ASSUME NEW i \in DOMAIN calls, SignInCallback(i) PROVE GInv'
  BY <1>7, CallbackStep
<1>8. CASE UNCHANGED signVars
  BY <1>8, QuietStep DEF signVars, vars, tab
<1> QED
  BY <1>1, <1>2, <1>3, <1>4, <1>5, <1>6, <1>7, <1>8 DEF SignInNext

\* However late an answer signs somebody in or out, a screen of the customer is
\* open for a signed-in user only and one of the administration for an admin only:
\* ProtectedRoute and AdminRoute of App.jsx look at every context the answers make.
THEOREM GuardsAlwaysHold == SignInSpec => []GuardsHold
<1>1. SignInInit => GInv
  BY DEF SignInInit, GInv, ContextShape, GuardsHold, SignedOut, Guarded
<1>2. GInv /\ [SignInNext]_signVars => GInv'
  BY StepKeepsGuards
<1>3. GInv => GuardsHold
  BY DEF GInv
<1> QED
  BY <1>1, <1>2, <1>3, PTL DEF SignInSpec

(* The invariant behind the other properties *)

\* The calls that the form of a screen makes.
FormCalls(s) ==
  CASE s = "login" -> {"login", "verify"} [] s = "register" -> {"register"}
    [] s = "forgot" -> {"forgot"} [] OTHER -> {}

\* The back end has handed a session to whoever waits for the answer.
Granted(c) == c.op \in {"login", "verify"} /\ c.reply.status = "ok" /\ ~c.reply.value.mfa

\* What an answer to a sign-in says.
ValueTyped(c, owner) ==
  LET v == c.reply.value IN
  /\ v = [user |-> v.user, mfa |-> v.mfa, session |-> v.session]
  /\ v.user \in Users /\ v.mfa \in BOOLEAN
  /\ v.mfa => c.op = "login" /\ v.user \in Mfa
  /\ ~v.mfa => v.session \in DOMAIN owner

\* A call, for which the form of the open screen alone may wait.
CallTyped(c, s, owner) ==
  /\ c \in [op : {"login", "verify", "register", "forgot", "logout"}, resource : {"none"},
            arg : {c.arg}, live : BOOLEAN, reply : {c.reply}, overtaken : {FALSE}]
  /\ c.reply \in [status : {"waiting", "ok", "failed"}, value : {c.reply.value}]
  /\ c.live => c.op \in FormCalls(s)
  /\ c.op \in {"login", "register"} => c.arg \in Users
  /\ c.op = "logout" => c.arg \in DOMAIN owner
  /\ c.op \in {"login", "verify"} /\ c.reply.status = "ok" => ValueTyped(c, owner)

CallsTyped(cs, s, owner) ==
  /\ IsSequence(cs) /\ Len(cs) <= MaxCalls
  /\ \A i \in DOMAIN cs : CallTyped(cs[i], s, owner)

TimersTyped(ts) ==
  /\ IsSequence(ts) /\ Len(ts) <= MaxTimers
  /\ \A k \in DOMAIN ts : ts[k] \in {"dashboard", "social"}

ServerTyped(sv) ==
  /\ sv \in [registered : SUBSET Users, owner : {sv.owner}, valid : {sv.valid},
             codes : SUBSET sv.registered]
  /\ IsSequence(sv.owner)

\* A context: somebody is signed in exactly with a session.
AuthTyped(a, owner) ==
  /\ a \in [user : Users \union {"none"}, stored : {a.user}, session : {a.session},
            pending : Mfa \union {"none"}]
  /\ \/ a.user \in Users /\ a.session \in DOMAIN owner
     \/ a.user = "none" /\ a.session = 0

ScreenTyped(s, h) == s \in Public \union Guarded /\ h \in SignInHooks(s)

\* A form waits for one thing only, and shows that it does.
OneForm(cs, ts, s, h) ==
  /\ \A i, j \in DOMAIN cs : cs[i].live /\ cs[j].live => i = j
  /\ \A j, k \in DOMAIN ts : ts[j] = "social" /\ ts[k] = "social" => j = k
  /\ \A i \in DOMAIN cs : cs[i].live => h.loading
  /\ \A k \in DOMAIN ts : ts[k] = "social" => h.loading /\ s \in {"login", "register"}
  /\ \A i \in DOMAIN cs, k \in DOMAIN ts : ~(cs[i].live /\ ts[k] = "social")

LogsOut(cs, n) == \E i \in DOMAIN cs : cs[i].op = "logout" /\ cs[i].arg = n

\* The sessions on their way to a user are the user's, valid, not in use, and
\* nobody logs them out; no two answers bring the same one.
SafeSession(c, cs, sv, n) ==
  LET v == c.reply.value IN
  /\ sv.owner[v.session] = v.user /\ v.session \in sv.valid
  /\ v.session # n /\ ~LogsOut(cs, v.session)

OnTheirWay(cs, sv, n) ==
  /\ \A i \in DOMAIN cs : Granted(cs[i]) => SafeSession(cs[i], cs, sv, n)
  /\ \A i, j \in DOMAIN cs :
       /\ Granted(cs[i]) /\ Granted(cs[j])
       /\ cs[i].reply.value.session = cs[j].reply.value.session
       => i = j

\* The session in use is the user's, and valid or on its way out.
InUse(cs, sv, a, p) ==
  a.session # 0 =>
    /\ sv.owner[a.session] = a.user
    /\ "cut" \notin p => a.session \in sv.valid \/ LogsOut(cs, a.session)

SInv ==
  /\ ScreenTyped(screen, hooks) /\ TimersTyped(timers)
  /\ CallsTyped(calls, screen, server.owner) /\ ServerTyped(server)
  /\ AuthTyped(auth, server.owner) /\ GuardsHold
  /\ OneForm(calls, timers, screen, hooks)
  /\ OnTheirWay(calls, server, auth.session) /\ InUse(calls, server, auth, past)

(* Calls come back and screens are left *)

\* A call that nobody waits for any more is the same call.
LEMMA AbandonedCall ==
  ASSUME NEW c, NEW s, NEW s2, NEW owner, CallTyped(c, s, owner)
  PROVE  /\ Abandoned(c).op = c.op /\ Abandoned(c).arg = c.arg /\ Abandoned(c).reply = c.reply
         /\ Abandoned(c).live = FALSE
         /\ CallTyped(Abandoned(c), s2, owner)
<1> DEFINE R == [op : {"login", "verify", "register", "forgot", "logout"}, resource : {"none"},
                 arg : {c.arg}, live : BOOLEAN, reply : {c.reply}, overtaken : {FALSE}]
<1>1. c \in R
  BY DEF CallTyped
<1>2. /\ Abandoned(c).op = c.op /\ Abandoned(c).arg = c.arg /\ Abandoned(c).reply = c.reply
      /\ Abandoned(c).live = FALSE
      /\ Abandoned(c) \in R
  BY <1>1 DEF Abandoned
<1> QED
  BY <1>2 DEF CallTyped, ValueTyped

\* What remains of typed calls is typed and the same.
LEMMA RemainingCalls ==
  ASSUME NEW new, NEW old, NEW gone, NEW s, NEW owner, NEW f,
         Matches(f, new, old, gone), CallsTyped(old, s, owner), NEW k \in DOMAIN new
  PROVE  /\ f[k] \in DOMAIN old \ gone
         /\ new[k].op = old[f[k]].op /\ new[k].arg = old[f[k]].arg /\ new[k].reply = old[f[k]].reply
         /\ new[k].live => old[f[k]].live
         /\ Granted(new[k]) <=> Granted(old[f[k]])
         /\ CallTyped(new[k], s, owner)
<1> DEFINE c == old[f[k]]
<1>1. f[k] \in DOMAIN old \ gone /\ (new[k] = c \/ new[k] = Abandoned(c))
  BY DEF Matches
<1>2. CallTyped(c, s, owner)
  BY <1>1 DEF CallsTyped
<1> HIDE DEF c
<1>3. /\ new[k].op = c.op /\ new[k].arg = c.arg /\ new[k].reply = c.reply
      /\ new[k].live => c.live
      /\ CallTyped(new[k], s, owner)
  BY <1>1, <1>2, AbandonedCall
<1>4. Granted(new[k]) <=> Granted(c)
  BY <1>3 DEF Granted
<1> QED
  BY <1>1, <1>3, <1>4 DEF c

\* The types stay, if the screen does or nobody waits.
LEMMA TypedRemain ==
  ASSUME NEW new, NEW old, NEW gone, NEW s, NEW s2, NEW owner,
         Remains(new, old, gone), CallsTyped(old, s, owner),
         \A k \in DOMAIN new : new[k].live => new[k].op \in FormCalls(s2)
  PROVE  CallsTyped(new, s2, owner)
<1>1. PICK f : Matches(f, new, old, gone)
  BY DEF Remains
<1>2. \A k \in DOMAIN new : CallTyped(new[k], s, owner)
  BY <1>1, RemainingCalls
<1>3. \A k \in DOMAIN new : CallTyped(new[k], s2, owner)
  BY <1>2 DEF CallTyped
<1>4. Len(new) \in Nat /\ Len(old) \in Nat /\ Len(new) <= Len(old) /\ Len(old) <= MaxCalls
  BY DEF Remains, CallsTyped, IsSequence
<1>5. Len(new) <= MaxCalls
  BY <1>4, BoundsAssumption
<1> QED
  BY <1>3, <1>5 DEF CallsTyped, Remains

\* A form that waits for one thing does so when calls come back.
LEMMA FormRemain ==
  ASSUME NEW new, NEW old, NEW gone, NEW s, NEW owner, NEW ts, NEW h,
         Remains(new, old, gone), CallsTyped(old, s, owner), OneForm(old, ts, s, h)
  PROVE  OneForm(new, ts, s, h)
<1>1. PICK f : Matches(f, new, old, gone)
  BY DEF Remains
<1>2. \A k \in DOMAIN new : f[k] \in DOMAIN old /\ (new[k].live => old[f[k]].live)
  BY <1>1, RemainingCalls
<1>3. \A j, k \in DOMAIN new : f[j] = f[k] => j = k
  BY <1>1 DEF Matches
<1> QED
  BY <1>2, <1>3 DEF OneForm

\* When what it waits for has come back it waits for nothing.
LEMMA FormEnds ==
  ASSUME NEW new, NEW old, NEW gone, NEW s, NEW owner, NEW ts, NEW h,
         Remains(new, old, gone), CallsTyped(old, s, owner), OneForm(old, ts, s, h),
         NEW i \in DOMAIN old, i \in gone, old[i].live
  PROVE  /\ \A k \in DOMAIN new : ~new[k].live
         /\ \A k \in DOMAIN ts : ts[k] # "social"
<1>1. PICK f : Matches(f, new, old, gone)
  BY DEF Remains
<1>2. \A k \in DOMAIN new : f[k] \in DOMAIN old \ gone /\ (new[k].live => old[f[k]].live)
  BY <1>1, RemainingCalls
<1> QED
  BY <1>2 DEF OneForm

\* The sessions on their way are as safe as before.
LEMMA WayRemain ==
  ASSUME NEW new, NEW old, NEW gone, NEW s, NEW sv, NEW n, NEW m,
         Remains(new, old, gone), CallsTyped(old, s, sv.owner), OnTheirWay(old, sv, n),
         \A i \in DOMAIN old \ gone : Granted(old[i]) => old[i].reply.value.session # m
  PROVE  OnTheirWay(new, sv, m)
<1>1. PICK f : Matches(f, new, old, gone)
  BY DEF Remains
<1>2. \A k \in DOMAIN new :
        /\ f[k] \in DOMAIN old \ gone
        /\ new[k].op = old[f[k]].op /\ new[k].arg = old[f[k]].arg /\ new[k].reply = old[f[k]].reply
        /\ Granted(new[k]) <=> Granted(old[f[k]])
  BY <1>1, RemainingCalls
<1>3. \A j, k \in DOMAIN new : f[j] = f[k] => j = k
  BY <1>1 DEF Matches
<1>4. ASSUME NEW x, LogsOut(new, x) PROVE LogsOut(old, x)
  BY <1>2, <1>4 DEF LogsOut
<1>5. ASSUME NEW k \in DOMAIN new, Granted(new[k]) PROVE SafeSession(new[k], new, sv, m)
  <2>1. Granted(old[f[k]]) /\ SafeSession(old[f[k]], old, sv, n)
    BY <1>2, <1>5 DEF OnTheirWay
  <2> QED
    BY <1>2, <1>4, <1>5, <2>1 DEF SafeSession
<1>6. ASSUME NEW j \in DOMAIN new, NEW k \in DOMAIN new, Granted(new[j]), Granted(new[k]),
             new[j].reply.value.session = new[k].reply.value.session
      PROVE  j = k
  <2>1. f[j] = f[k]
    BY <1>2, <1>6 DEF OnTheirWay
  <2> QED
    BY <1>3, <2>1
<1> QED
  BY <1>5, <1>6 DEF OnTheirWay

\* So is the session in use, unless a log-out has come back.
LEMMA UseRemain ==
  ASSUME NEW new, NEW old, NEW gone, NEW s, NEW sv, NEW a, NEW p,
         Remains(new, old, gone), CallsTyped(old, s, sv.owner), InUse(old, sv, a, p),
         \A i \in DOMAIN old : i \in gone => old[i].op # "logout"
  PROVE  InUse(new, sv, a, p)
<1>1. PICK f : Matches(f, new, old, gone)
  BY DEF Remains
<1>2. \A k \in DOMAIN new : new[k].op = old[f[k]].op /\ new[k].arg = old[f[k]].arg
  BY <1>1, RemainingCalls
<1>3. ASSUME NEW x, LogsOut(old, x) PROVE LogsOut(new, x)
  <2>1. PICK i \in DOMAIN old : old[i].op = "logout" /\ old[i].arg = x
    BY <1>3 DEF LogsOut
  <2>2. PICK k \in DOMAIN new : f[k] = i
    BY <1>1, <2>1 DEF Matches
  <2> QED
    BY <1>2, <2>1, <2>2 DEF LogsOut
<1> QED
  BY <1>3 DEF InUse

(* A new screen *)

\* A screen that opens is one of the program's, with a form of its own.
LEMMA FreshTyped ==
  ASSUME NEW s \in Public \union Guarded, NEW u
  PROVE  ScreenTyped(s, Fresh(s)) /\ Dest(s, u) \in Public \union Guarded
<1>1. Dest(s, u) \in Public \union Guarded
  BY DEF Dest, Public, Guarded
<1>2. s \in {"landing", "login", "register", "forgot", "app", "admin"}
  BY DEF Public, Guarded
<1>3. Fresh(s) \in SignInHooks(s)
  <2>1. CASE s = "login"
    BY <2>1 DEF Fresh, SignInHooks, LoginState
  <2>2. CASE s = "register"
    BY <2>2 DEF Fresh, SignInHooks, RegisterState
  <2>3. CASE s = "forgot"
    BY <2>3 DEF Fresh, SignInHooks, ForgotState
  <2>4. CASE s \notin {"login", "register", "forgot"}
    BY <2>4 DEF Fresh, SignInHooks
  <2> QED
    BY <1>2, <2>1, <2>2, <2>3, <2>4
<1> QED
  BY <1>1, <1>3 DEF ScreenTyped

\* The timeouts that outlive a screen navigate.
LEMMA KeptFacts ==
  ASSUME NEW ts, TimersTyped(ts)
  PROVE  TimersTyped(Kept(ts)) /\ \A k \in DOMAIN Kept(ts) : Kept(ts)[k] # "social"
<1> DEFINE T == {j \in DOMAIN ts : ts[j] = "dashboard"}
           n == Cardinality(T)
<1>1. DOMAIN ts = 1 .. Len(ts) /\ Len(ts) \in Nat /\ Len(ts) <= MaxTimers
  BY SequenceFacts DEF TimersTyped, IsSequence
<1>2. IsFiniteSet(1 .. Len(ts)) /\ Cardinality(1 .. Len(ts)) = Len(ts)
  <2>1. 1 \in Int /\ Len(ts) \in Int
    BY <1>1
  <2>2. Cardinality(1 .. Len(ts)) = IF 1 > Len(ts) THEN 0 ELSE Len(ts) - 1 + 1
    BY <2>1, FS_Interval
  <2> QED
    BY <1>1, <2>1, <2>2, FS_Interval
<1>3. IsFiniteSet(T) /\ n <= Len(ts) /\ n \in Nat
  <2>1. T \subseteq 1 .. Len(ts)
    BY <1>1
  <2> HIDE DEF T
  <2> QED
    BY <1>2, <2>1, FS_Subset, FS_CardinalityType
<1>4. Kept(ts) = [k \in 1 .. n |-> "dashboard"]
  BY DEF Kept
<1> HIDE DEF n
<1>5. /\ Kept(ts) = [k \in 1 .. n |-> Kept(ts)[k]]
      /\ \A k \in DOMAIN Kept(ts) : Kept(ts)[k] = "dashboard"
  BY <1>4
<1>6. IsSequence(Kept(ts)) /\ Len(Kept(ts)) = n
  BY <1>3, <1>5, FunctionIsSequence
<1> QED
  BY <1>1, <1>3, <1>5, <1>6, BoundsAssumption DEF TimersTyped

\* Nobody waits on a screen that was left.
LEMMA NobodyWaits ==
  ASSUME NEW cs, NEW s, NEW owner, CallsTyped(cs, s, owner)
  PROVE  \A k \in DOMAIN Left(cs) : ~Left(cs)[k].live
<1>1. \A k \in DOMAIN cs : Left(cs)[k] = Abandoned(cs[k]) /\ DOMAIN Left(cs) = DOMAIN cs
  BY DEF Left, Abandoned
<1>2. \A k \in DOMAIN cs : Abandoned(cs[k]).live = FALSE
  BY AbandonedCall DEF CallsTyped
<1>3. DOMAIN Left(cs) = DOMAIN cs
  BY DEF Left
<1> QED
  BY <1>1, <1>2, <1>3

\* A screen s2 opens with what remains of the calls: the parts of the invariant that
\* are not about the context.
LEMMA Opened ==
  ASSUME NEW new, NEW old, NEW gone, NEW s, NEW s2 \in Public \union Guarded, NEW owner, NEW ts,
         Remains(new, old, gone), CallsTyped(old, s, owner), TimersTyped(ts)
  PROVE  /\ Remains(Left(new), old, gone)
         /\ ScreenTyped(s2, Fresh(s2)) /\ TimersTyped(Kept(ts))
         /\ CallsTyped(Left(new), s2, owner)
         /\ OneForm(Left(new), Kept(ts), s2, Fresh(s2))
<1>1. CallsTyped(new, s, owner)
  <2>1. PICK f : Matches(f, new, old, gone)
    BY DEF Remains
  <2>2. \A k \in DOMAIN new : new[k].live => new[k].op \in FormCalls(s)
    BY <2>1, RemainingCalls DEF CallTyped
  <2> QED
    BY <2>2, TypedRemain
<1>2. Remains(Left(new), old, gone)
  BY LeftRemains
<1>3. \A k \in DOMAIN Left(new) : ~Left(new)[k].live
  BY <1>1, NobodyWaits
<1>4. CallsTyped(Left(new), s2, owner)
  BY <1>2, <1>3, TypedRemain
<1>5. TimersTyped(Kept(ts)) /\ \A k \in DOMAIN Kept(ts) : Kept(ts)[k] # "social"
  BY KeptFacts
<1>6. OneForm(Left(new), Kept(ts), s2, Fresh(s2))
  BY <1>3, <1>5 DEF OneForm
<1> QED
  BY <1>2, <1>4, <1>5, <1>6, FreshTyped

(* The callbacks *)

\* What an answer makes of the context: the same user in the same session, nobody, or
\* the user and the session that the answer brings.
Follows(a, b, c) ==
  \/ a.session = b.session /\ a.user = b.user /\ c.op # "logout"
  \/ a.session = 0
  \/ Granted(c) /\ a.session = c.reply.value.session /\ a.user = c.reply.value.user

\* The sessions stay safe when the i-th call has come back and made a the context.
LEMMA SessionsSettled ==
  ASSUME NEW new, NEW old, NEW i \in DOMAIN old, NEW s, NEW sv, NEW a, NEW b, NEW p,
         Remains(new, old, {i}), CallsTyped(old, s, sv.owner), IsSequence(sv.owner),
         OnTheirWay(old, sv, b.session), InUse(old, sv, b, p), Follows(a, b, old[i])
  PROVE  OnTheirWay(new, sv, a.session) /\ InUse(new, sv, a, p)
<1>1. \A j \in DOMAIN old : Granted(old[j]) =>
        /\ old[j].reply.value.session \in DOMAIN sv.owner
        /\ SafeSession(old[j], old, sv, b.session)
  BY DEF CallsTyped, CallTyped, ValueTyped, Granted, OnTheirWay
<1>2. 0 \notin DOMAIN sv.owner
  BY SequenceFacts DEF IsSequence
<1>3. CASE a.session = b.session /\ a.user = b.user /\ old[i].op # "logout"
  <2>1. OnTheirWay(new, sv, a.session)
    BY <1>1, <1>3, WayRemain DEF SafeSession
  <2>2. InUse(old, sv, a, p)
    BY <1>3 DEF InUse
  <2>3. InUse(new, sv, a, p)
    BY <1>3, <2>2, UseRemain
  <2> QED
    BY <2>1, <2>3
<1>4. CASE a.session = 0
  <2>1. \A j \in DOMAIN old \ {i} : Granted(old[j]) => old[j].reply.value.session # a.session
    BY <1>1, <1>2, <1>4
  <2> QED
    BY <1>4, <2>1, WayRemain DEF InUse
<1>5. CASE Granted(old[i]) /\ a.session = old[i].reply.value.session /\ a.user = old[i].reply.value.user
  <2>1. \A j \in DOMAIN old \ {i} : Granted(old[j]) => old[j].reply.value.session # a.session
    BY <1>5 DEF OnTheirWay
  <2>2. OnTheirWay(new, sv, a.session)
    BY <2>1, WayRemain
  <2>3. InUse(new, sv, a, p)
    BY <1>1, <1>5 DEF SafeSession, InUse
  <2> QED
    BY <2>2, <2>3
<1> QED
  BY <1>3, <1>4, <1>5 DEF Follows

\* An answer that settles keeps the invariant.
LEMMA SettledKeeps ==
  ASSUME SInv, NEW i \in DOMAIN calls, NEW a, NEW h, NEW ts,
         AuthTyped(a, server.owner), Follows(a, auth, calls[i]),
         calls[i].live => h \in SignInHooks(screen),
         TimersTyped(ts), ts \in {timers, Append(timers, "dashboard")},
         Settled(i, a, h, ts)
  PROVE  SInv'
<1> DEFINE rest == RemoveAt(calls, i)
           s == Dest(screen, a.user)
<1>1. Remains(rest, calls, {i})
  BY OneGone DEF SInv, CallsTyped
<1> HIDE DEF rest
<1>2. auth' = a /\ screen' = s /\ UNCHANGED <<server, past>>
  BY DEF Settled
<1>3. GuardsHold'
  <2>1. "user" \in DOMAIN a
    BY DEF AuthTyped
  <2> QED
    BY <2>1, SettledStep DEF GInv
<1>4. ServerTyped(server') /\ AuthTyped(auth', server'.owner)
  BY <1>2 DEF SInv
<1>5. s \in Public \union Guarded
  BY FreshTyped DEF SInv, ScreenTyped
<1>6. OnTheirWay(rest, server, a.session) /\ InUse(rest, server, a, past)
  BY <1>1, SessionsSettled DEF SInv, ServerTyped
<1>7. CASE s = screen
  <2>1. calls' = rest /\ timers' = ts /\ hooks' = IF calls[i].live THEN h ELSE hooks
    BY <1>7 DEF Settled, rest
  <2>2. ScreenTyped(screen', hooks')
    BY <1>2, <1>7, <2>1 DEF SInv, ScreenTyped
  <2>3. CallsTyped(rest, screen, server.owner)
    <3>1. PICK f : Matches(f, rest, calls, {i})
      BY <1>1 DEF Remains
    <3>a. CallsTyped(calls, screen, server.owner)
      BY DEF SInv
    <3>b. \A k \in DOMAIN rest : CallTyped(rest[k], screen, server.owner)
      BY <3>1, <3>a, RemainingCalls
    <3>2. \A k \in DOMAIN rest : rest[k].live => rest[k].op \in FormCalls(screen)
      BY <3>b DEF CallTyped
    <3> QED
      BY <1>1, <3>2, TypedRemain DEF SInv
  <2>4. \A k \in DOMAIN ts : ts[k] = "social" => k \in DOMAIN timers /\ timers[k] = "social"
    BY AppendFacts DEF SInv, TimersTyped
  <2>5. OneForm(rest, ts, screen, hooks')
    <3>1. CASE calls[i].live
      <4>1. /\ \A k \in DOMAIN rest : ~rest[k].live
            /\ \A k \in DOMAIN timers : timers[k] # "social"
        BY <1>1, <3>1, FormEnds DEF SInv
      <4> QED
        BY <2>4, <4>1 DEF OneForm
    <3>2. CASE ~calls[i].live
      <4>1. OneForm(rest, timers, screen, hooks)
        BY <1>1, FormRemain DEF SInv
      <4> QED
        BY <2>1, <2>4, <3>2, <4>1 DEF OneForm
    <3> QED
      BY <3>1, <3>2
  <2> QED
    BY <1>2, <1>3, <1>4, <1>6, <1>7, <2>1, <2>2, <2>3, <2>5 DEF SInv
<1>8. CASE s # screen
  <2>1. calls' = Left(rest) /\ timers' = Kept(ts) /\ hooks' = Fresh(s)
    BY <1>8 DEF Settled, rest
  <2>2. /\ Remains(Left(rest), calls, {i})
        /\ ScreenTyped(s, Fresh(s)) /\ TimersTyped(Kept(ts))
        /\ CallsTyped(Left(rest), s, server.owner)
        /\ OneForm(Left(rest), Kept(ts), s, Fresh(s))
    BY <1>1, <1>5, Opened DEF SInv
  <2>3. OnTheirWay(Left(rest), server, a.session) /\ InUse(Left(rest), server, a, past)
    BY <2>2, SessionsSettled DEF SInv, ServerTyped
  <2> QED
    BY <1>2, <1>3, <1>4, <2>1, <2>2, <2>3 DEF SInv
<1> QED
  BY <1>7, <1>8

\* What has come back for a sign-in.
LEMMA AnswerTyped ==
  ASSUME SInv, NEW i \in DOMAIN calls,
         Back(i, "login", "ok") \/ Back(i, "verify", "ok")
  PROVE  ValueTyped(calls[i], server.owner)
BY DEF SInv, CallsTyped, CallTyped, Back

\* The hooks that an answer sets are those of the form that waits for it.
LEMMA AnswerHooks ==
  ASSUME SInv, NEW i \in DOMAIN calls, calls[i].live
  PROVE  /\ calls[i].op \in {"login", "verify"} =>
              /\ [hooks EXCEPT !.loginSuccess = TRUE, !.loading = FALSE] \in SignInHooks(screen)
              /\ [hooks EXCEPT !.mfaRequired = TRUE, !.loading = FALSE] \in SignInHooks(screen)
              /\ [hooks EXCEPT !.loading = FALSE] \in SignInHooks(screen)
         /\ calls[i].op = "register" => [hooks EXCEPT !.loading = FALSE] \in SignInHooks(screen)
         /\ calls[i].op = "forgot" =>
              /\ [hooks EXCEPT !.step = "otp", !.loading = FALSE] \in SignInHooks(screen)
              /\ [hooks EXCEPT !.loading = FALSE] \in SignInHooks(screen)
         /\ calls[i].op # "logout"
<1>1. calls[i].op \in FormCalls(screen) /\ hooks \in SignInHooks(screen)
      /\ screen \in Public \union Guarded
  BY DEF SInv, CallsTyped, CallTyped, ScreenTyped
<1>2. CASE screen = "login"
  BY <1>1, <1>2 DEF FormCalls, SignInHooks
<1>3. CASE screen = "register"
  BY <1>1, <1>3 DEF FormCalls, SignInHooks
<1>4. CASE screen = "forgot"
  BY <1>1, <1>4 DEF FormCalls, SignInHooks
<1>5. CASE screen \notin {"login", "register", "forgot"}
  BY <1>1, <1>5 DEF FormCalls
<1> QED
  BY <1>2, <1>3, <1>4, <1>5

\* One more timeout.
LEMMA TimersAppended ==
  ASSUME NEW ts, TimersTyped(ts), Len(ts) < MaxTimers, NEW kind \in {"dashboard", "social"}
  PROVE  TimersTyped(Append(ts, kind))
<1>1. IsSequence(ts) /\ Len(ts) \in Nat
  BY DEF TimersTyped, IsSequence
<1>2. /\ IsSequence(Append(ts, kind)) /\ Len(Append(ts, kind)) = Len(ts) + 1
      /\ DOMAIN Append(ts, kind) = DOMAIN ts \union {Len(ts) + 1}
      /\ \A k \in DOMAIN ts : Append(ts, kind)[k] = ts[k]
      /\ Append(ts, kind)[Len(ts) + 1] = kind
  BY <1>1, AppendFacts
<1> QED
  BY <1>1, <1>2, BoundsAssumption DEF TimersTyped

\* Every callback keeps the invariant.
LEMMA CallbackKeeps ==
  ASSUME SInv, NEW i \in DOMAIN calls, SignInCallback(i)
  PROVE  SInv'
<1> DEFINE r == calls[i].reply.value
<1>0. AuthTyped(auth, server.owner) /\ TimersTyped(timers)
  BY DEF SInv
<1>1. auth.user \in Users \union {"none"} /\ auth.pending \in Mfa \union {"none"}
  BY <1>0 DEF AuthTyped
<1>2. calls[i].op # "logout" => Follows(auth, auth, calls[i])
  BY DEF Follows
<1>3. CASE Back(i, "login", "ok") /\ r.mfa
           /\ Settled(i, [auth EXCEPT !.pending = r.user],
                      [hooks EXCEPT !.mfaRequired = TRUE, !.loading = FALSE], timers)
  <2> DEFINE a == [auth EXCEPT !.pending = r.user]
  <2>1. r.user \in Mfa
    BY <1>3, AnswerTyped DEF ValueTyped
  <2>2. AuthTyped(a, server.owner) /\ a.session = auth.session /\ a.user = auth.user
    BY <1>0, <2>1 DEF AuthTyped
  <2>3. Follows(a, auth, calls[i])
    BY <1>3, <2>2 DEF Follows, Back
  <2> HIDE DEF a
  <2>4. calls[i].live => [hooks EXCEPT !.mfaRequired = TRUE, !.loading = FALSE] \in SignInHooks(screen)
    BY <1>3, AnswerHooks DEF Back
  <2> QED
    BY <1>0, <1>3, <2>2, <2>3, <2>4, SettledKeeps DEF a
<1>4. ASSUME NEW a, a.user = r.user, a.session = r.session, AuthTyped(a, server.owner), ~r.mfa,
             Back(i, "login", "ok") \/ Back(i, "verify", "ok"), Len(timers) < MaxTimers,
             Settled(i, a, [hooks EXCEPT !.loginSuccess = TRUE, !.loading = FALSE],
                     Append(timers, "dashboard"))
      PROVE  SInv'
  <2>1. Follows(a, auth, calls[i])
    BY <1>4 DEF Follows, Granted, Back
  <2>2. calls[i].live => [hooks EXCEPT !.loginSuccess = TRUE, !.loading = FALSE] \in SignInHooks(screen)
    BY <1>4, AnswerHooks DEF Back
  <2>3. TimersTyped(Append(timers, "dashboard"))
    BY <1>0, <1>4, TimersAppended
  <2> QED
    BY <1>4, <2>1, <2>2, <2>3, SettledKeeps
<1>5. CASE LoggedIn(i)
  <2>1. CASE Back(i, "login", "ok") /\ ~r.mfa /\ Len(timers) < MaxTimers
             /\ Settled(i, [SignedIn(r) EXCEPT !.pending = auth.pending],
                        [hooks EXCEPT !.loginSuccess = TRUE, !.loading = FALSE],
                        Append(timers, "dashboard"))
    <3> DEFINE a == [SignedIn(r) EXCEPT !.pending = auth.pending]
    <3>1. r.user \in Users /\ r.session \in DOMAIN server.owner
      BY <2>1, AnswerTyped DEF ValueTyped
    <3>2. AuthTyped(a, server.owner) /\ a.user = r.user /\ a.session = r.session
      BY <1>1, <3>1 DEF AuthTyped, SignedIn
    <3> HIDE DEF a
    <3> QED
      BY <1>4, <2>1, <3>2 DEF a
  <2>2. CASE Back(i, "verify", "ok") /\ Len(timers) < MaxTimers
             /\ Settled(i, SignedIn(r),
                        [hooks EXCEPT !.loginSuccess = TRUE, !.loading = FALSE],
                        Append(timers, "dashboard"))
    <3>1. r.user \in Users /\ r.session \in DOMAIN server.owner /\ ~r.mfa
      BY <2>2, AnswerTyped DEF ValueTyped, Back
    <3>2. AuthTyped(SignedIn(r), server.owner) /\ SignedIn(r).user = r.user
          /\ SignedIn(r).session = r.session
      BY <3>1 DEF AuthTyped, SignedIn
    <3> QED
      BY <1>4, <2>2, <3>1, <3>2
  <2> QED
    BY <1>3, <1>5, <2>1, <2>2 DEF LoggedIn
<1>6. CASE LoginFailed(i)
  <2>1. calls[i].op \in {"login", "verify"}
    BY <1>6 DEF LoginFailed, Back
  <2>2. Settled(i, auth, [hooks EXCEPT !.loading = FALSE], timers)
    BY <1>6 DEF LoginFailed
  <2> QED
    BY <1>0, <1>2, <2>1, <2>2, AnswerHooks, SettledKeeps
<1>7. CASE RegisterDone(i)
  <2>1. calls[i].op = "register"
    BY <1>7 DEF RegisterDone, Back
  <2>2. CASE Settled(i, auth, [hooks EXCEPT !.loading = FALSE], timers)
    BY <1>0, <1>2, <2>1, <2>2, AnswerHooks, SettledKeeps
  <2>3. CASE /\ screen' = "login" /\ hooks' = LoginState
             /\ calls' = Left(RemoveAt(calls, i)) /\ timers' = Kept(timers)
             /\ UNCHANGED <<server, past, auth>>
    <3> DEFINE rest == RemoveAt(calls, i)
    <3>1. Remains(rest, calls, {i})
      BY OneGone DEF SInv, CallsTyped
    <3> HIDE DEF rest
    <3>2. "login" \in Public \union Guarded /\ Fresh("login") = LoginState
      BY DEF Public, Fresh
    <3>3. /\ Remains(Left(rest), calls, {i})
          /\ ScreenTyped("login", LoginState) /\ TimersTyped(Kept(timers))
          /\ CallsTyped(Left(rest), "login", server.owner)
          /\ OneForm(Left(rest), Kept(timers), "login", LoginState)
      BY <3>1, <3>2, Opened DEF SInv
    <3>4. OnTheirWay(Left(rest), server, auth.session) /\ InUse(Left(rest), server, auth, past)
      BY <1>2, <2>1, <3>3, SessionsSettled DEF SInv, ServerTyped
    <3>5. GuardsHold'
      BY <2>3 DEF GuardsHold, Guarded
    <3> QED
      BY <2>3, <3>3, <3>4, <3>5 DEF SInv, rest
  <2> QED
    BY <1>7, <2>2, <2>3 DEF RegisterDone
<1>8. CASE EmailDone(i)
  <2>1. calls[i].op = "forgot"
    BY <1>8 DEF EmailDone, Back
  <2>2. calls[i].live =>
          /\ [hooks EXCEPT !.step = "otp", !.loading = FALSE] \in SignInHooks(screen)
          /\ [hooks EXCEPT !.loading = FALSE] \in SignInHooks(screen)
    BY <2>1, AnswerHooks
  <2>3. CASE Settled(i, auth, [hooks EXCEPT !.step = "otp", !.loading = FALSE], timers)
    BY <1>0, <1>2, <2>1, <2>2, <2>3, SettledKeeps
  <2>4. CASE Settled(i, auth, [hooks EXCEPT !.loading = FALSE], timers)
    BY <1>0, <1>2, <2>1, <2>2, <2>4, SettledKeeps
  <2> QED
    BY <1>8, <2>3, <2>4 DEF EmailDone
<1>9. CASE LoggedOut(i)
  <2> DEFINE a == [SignedOut EXCEPT !.pending = auth.pending]
  <2>1. AuthTyped(a, server.owner) /\ a.session = 0
    BY <1>1 DEF AuthTyped, SignedOut
  <2>2. Settled(i, a, hooks, timers) /\ ~calls[i].live
    BY <1>9, AnswerHooks DEF LoggedOut
  <2>3. Follows(a, auth, calls[i])
    BY <2>1 DEF Follows
  <2> HIDE DEF a
  <2> QED
    BY <1>0, <2>1, <2>2, <2>3, SettledKeeps
<1> QED
  BY <1>5, <1>6, <1>7, <1>8, <1>9 DEF SignInCallback

(* The forms and the navigation *)

\* A step that sets hooks of the open form and changes its wait for the better keeps
\* the invariant.
LEMMA FormSets ==
  ASSUME SInv, NEW h, h \in SignInHooks(screen), h.loading = hooks.loading, Set(h), UNCHANGED auth
  PROVE  SInv'
<1>1. hooks' = h /\ UNCHANGED <<screen, calls, timers, server, past, auth>>
  BY DEF Set
<1>2. ScreenTyped(screen, h)
  BY DEF SInv, ScreenTyped
<1>3. OneForm(calls, timers, screen, h)
  BY DEF SInv, OneForm
<1> QED
  BY <1>1, <1>2, <1>3 DEF SInv, GuardsHold

\* Where nothing is waited for, nobody waits.
LEMMA NothingUnderWay ==
  ASSUME SInv, ~hooks.loading
  PROVE  /\ \A k \in DOMAIN calls : ~calls[k].live
         /\ \A k \in DOMAIN timers : timers[k] # "social"
BY DEF SInv, OneForm

\* A form that waits for nothing sends a call.
LEMMA FormSends ==
  ASSUME SInv, ~hooks.loading, NEW op, op \in FormCalls(screen), NEW arg,
         op \in {"login", "register"} => arg \in Users,
         Busy(hooks) \in SignInHooks(screen), Busy(hooks).loading = TRUE,
         SetAndSend(Busy(hooks), <<Post(op, arg)>>), UNCHANGED auth
  PROVE  SInv'
<1> DEFINE c == Post(op, arg)
           h == Busy(hooks)
<1>1. IsSequence(calls) /\ Len(calls) \in Nat
  BY DEF SInv, CallsTyped, IsSequence
<1>2. /\ c.op = op /\ c.arg = arg /\ c.live = TRUE /\ c.reply = Waiting
      /\ c \in [op : {"login", "verify", "register", "forgot", "logout"}, resource : {"none"},
                arg : {c.arg}, live : BOOLEAN, reply : {c.reply}, overtaken : {FALSE}]
  BY DEF Post, Sent, FormCalls
<1> HIDE DEF c, h
<1>3. /\ calls \o <<c>> = Append(calls, c) /\ Len(<<c>>) = 1
      /\ IsSequence(Append(calls, c)) /\ Len(Append(calls, c)) = Len(calls) + 1
      /\ DOMAIN Append(calls, c) = DOMAIN calls \union {Len(calls) + 1}
      /\ \A k \in DOMAIN calls : Append(calls, c)[k] = calls[k]
      /\ Append(calls, c)[Len(calls) + 1] = c
  BY <1>1, AppendFacts, ConcatOne
<1>4. /\ calls' = Append(calls, c) /\ Len(calls) + 1 <= MaxCalls /\ hooks' = h
      /\ UNCHANGED <<screen, timers, server, past, auth>>
  BY <1>3 DEF SetAndSend, Send, c, h
<1>5. c.reply.status = "waiting" /\ c.reply \in [status : {"waiting", "ok", "failed"}, value : {c.reply.value}]
  BY <1>2 DEF Waiting
<1>6. CallTyped(c, screen, server.owner)
  <2>1. op # "logout"
    BY DEF FormCalls
  <2> QED
    BY <1>2, <1>5, <2>1 DEF CallTyped
<1>7. CallsTyped(Append(calls, c), screen, server.owner)
  BY <1>1, <1>3, <1>4, <1>6 DEF SInv, CallsTyped
<1>8. OneForm(Append(calls, c), timers, screen, h)
  <2>1. h.loading
    BY DEF h
  <2> QED
    BY <1>3, <2>1, NothingUnderWay DEF OneForm
<1>9. ~Granted(c) /\ c.op # "logout"
  BY <1>2, <1>5 DEF Granted, FormCalls
<1>10. \A x : LogsOut(Append(calls, c), x) <=> LogsOut(calls, x)
  BY <1>3, <1>9 DEF LogsOut
<1>11. OnTheirWay(Append(calls, c), server, auth.session)
  BY <1>3, <1>9, <1>10 DEF SInv, OnTheirWay, SafeSession
<1>12. InUse(Append(calls, c), server, auth, past)
  BY <1>10 DEF SInv, InUse
<1>13. ScreenTyped(screen, h)
  BY DEF SInv, ScreenTyped, h
<1> QED
  BY <1>4, <1>7, <1>8, <1>11, <1>12, <1>13 DEF SInv, GuardsHold

\* The forms keep the invariant.
LEMMA FormKeeps ==
  ASSUME SInv,
         \/ LoginInput \/ HandleLogin \/ HandleVerifyOtp \/ RegisterInput \/ HandleRegister
         \/ ForgotInput \/ HandleEmail
  PROVE  SInv'
<1>1. hooks \in SignInHooks(screen)
  BY DEF SInv, ScreenTyped
<1>2. CASE LoginInput
  <2>1. screen = "login"
    BY <1>2 DEF LoginInput, OnLogin
  <2>2. hooks \in [username: Users \union {"none"}, loading: BOOLEAN,
                   loginSuccess: BOOLEAN, mfaRequired: BOOLEAN, otp: BOOLEAN]
    BY <1>1, <2>1 DEF SignInHooks
  <2>3. \A u \in Users : [hooks EXCEPT !.username = u] \in SignInHooks(screen)
                         /\ [hooks EXCEPT !.username = u].loading = hooks.loading
    BY <2>1, <2>2 DEF SignInHooks
  <2>4. /\ [hooks EXCEPT !.otp = TRUE] \in SignInHooks(screen)
        /\ [hooks EXCEPT !.otp = TRUE].loading = hooks.loading
        /\ [hooks EXCEPT !.mfaRequired = FALSE, !.otp = FALSE] \in SignInHooks(screen)
        /\ [hooks EXCEPT !.mfaRequired = FALSE, !.otp = FALSE].loading = hooks.loading
    BY <2>1, <2>2 DEF SignInHooks
  <2>5. UNCHANGED auth
    BY <1>2 DEF LoginInput
  <2>6. \/ \E u \in Users : Set([hooks EXCEPT !.username = u])
        \/ Set([hooks EXCEPT !.otp = TRUE])
        \/ Set([hooks EXCEPT !.mfaRequired = FALSE, !.otp = FALSE])
    BY <1>2 DEF LoginInput
  <2> QED
    BY <2>3, <2>4, <2>5, <2>6, FormSets
<1>3. CASE HandleLogin \/ HandleVerifyOtp
  <2>1. screen = "login" /\ ~hooks.loading /\ UNCHANGED auth
    BY <1>3 DEF HandleLogin, HandleVerifyOtp, OnLogin, LoginControls
  <2>2. hooks \in [username: Users \union {"none"}, loading: BOOLEAN,
                   loginSuccess: BOOLEAN, mfaRequired: BOOLEAN, otp: BOOLEAN]
    BY <1>1, <2>1 DEF SignInHooks
  <2>3. Busy(hooks) \in SignInHooks(screen) /\ Busy(hooks).loading = TRUE
    BY <2>1, <2>2 DEF SignInHooks, Busy
  <2>4. "login" \in FormCalls(screen) /\ "verify" \in FormCalls(screen)
    BY <2>1 DEF FormCalls
  <2>5. CASE HandleLogin
    <3>1. hooks.username \in Users
      BY <2>2, <2>5 DEF HandleLogin, OnLogin, LoginControls
    <3>2. SetAndSend(Busy(hooks), <<Post("login", hooks.username)>>)
      BY <2>5 DEF HandleLogin
    <3> QED
      BY <2>1, <2>3, <2>4, <3>1, <3>2, FormSends
  <2>6. CASE HandleVerifyOtp
    <3>1. SetAndSend(Busy(hooks),
            <<Post("verify", [user |-> hooks.username, password |-> auth.pending])>>)
      BY <2>6 DEF HandleVerifyOtp
    <3> QED
      BY <2>1, <2>3, <2>4, <3>1, FormSends
  <2> QED
    BY <1>3, <2>5, <2>6
<1>4. CASE RegisterInput \/ HandleRegister
  <2>1. screen = "register" /\ UNCHANGED auth
    BY <1>4 DEF RegisterInput, HandleRegister
  <2>2. hooks \in [username: Users \union {"none"}, accepted: BOOLEAN, loading: BOOLEAN]
    BY <1>1, <2>1 DEF SignInHooks
  <2>3. CASE RegisterInput
    <3>1. \A u \in Users : [hooks EXCEPT !.username = u] \in SignInHooks(screen)
                           /\ [hooks EXCEPT !.username = u].loading = hooks.loading
      BY <2>1, <2>2 DEF SignInHooks
    <3>2. [hooks EXCEPT !.accepted = ~@] \in SignInHooks(screen)
          /\ [hooks EXCEPT !.accepted = ~@].loading = hooks.loading
      BY <2>1, <2>2 DEF SignInHooks
    <3>3. (\E u \in Users : Set([hooks EXCEPT !.username = u])) \/ Set([hooks EXCEPT !.accepted = ~@])
      BY <2>3 DEF RegisterInput
    <3> QED
      BY <2>1, <3>1, <3>2, <3>3, FormSets
  <2>4. CASE HandleRegister
    <3>1. ~hooks.loading /\ hooks.username \in Users /\ "register" \in FormCalls(screen)
      BY <2>1, <2>2, <2>4 DEF HandleRegister, FormCalls
    <3>2. Busy(hooks) \in SignInHooks(screen) /\ Busy(hooks).loading = TRUE
      BY <2>1, <2>2 DEF SignInHooks, Busy
    <3>3. SetAndSend(Busy(hooks), <<Post("register", hooks.username)>>) \/ Set(hooks)
      BY <2>4 DEF HandleRegister
    <3>4. CASE SetAndSend(Busy(hooks), <<Post("register", hooks.username)>>)
      BY <2>1, <3>1, <3>2, <3>4, FormSends
    <3>5. CASE Set(hooks)
      BY <1>1, <2>1, <3>5, FormSets
    <3> QED
      BY <3>3, <3>4, <3>5
  <2> QED
    BY <1>4, <2>3, <2>4
<1>5. CASE ForgotInput \/ HandleEmail
  <2>1. screen = "forgot" /\ UNCHANGED auth
    BY <1>5 DEF ForgotInput, HandleEmail
  <2>2. hooks \in [step: {"email", "otp"}, email: BOOLEAN, loading: BOOLEAN]
    BY <1>1, <2>1 DEF SignInHooks
  <2>3. CASE ForgotInput
    <3>1. /\ [hooks EXCEPT !.email = TRUE] \in SignInHooks(screen)
          /\ [hooks EXCEPT !.email = TRUE].loading = hooks.loading
          /\ [hooks EXCEPT !.step = "email"] \in SignInHooks(screen)
          /\ [hooks EXCEPT !.step = "email"].loading = hooks.loading
      BY <2>1, <2>2 DEF SignInHooks
    <3>2. Set([hooks EXCEPT !.email = TRUE]) \/ Set([hooks EXCEPT !.step = "email"])
      BY <2>3 DEF ForgotInput
    <3> QED
      BY <2>1, <3>1, <3>2, FormSets
  <2>4. CASE HandleEmail
    <3>1. Busy(hooks) \in SignInHooks(screen) /\ Busy(hooks).loading = TRUE
          /\ "forgot" \in FormCalls(screen)
      BY <2>1, <2>2 DEF SignInHooks, Busy, FormCalls
    <3>2. ~hooks.loading /\ SetAndSend(Busy(hooks), <<Post("forgot", NoValue)>>)
      BY <2>4 DEF HandleEmail
    <3> QED
      BY <2>1, <3>1, <3>2, FormSends
  <2> QED
    BY <1>5, <2>3, <2>4
<1> QED
  BY <1>2, <1>3, <1>4, <1>5

\* The buttons of the other sign-ins wait alone, too.
LEMMA SocialKeeps ==
  ASSUME SInv, Social \/ SocialEnds
  PROVE  SInv'
<1>1. hooks \in SignInHooks(screen) /\ TimersTyped(timers) /\ IsSequence(timers)
      /\ Len(timers) \in Nat
  BY DEF SInv, ScreenTyped, TimersTyped, IsSequence
<1>2. CASE Social
  <2>1. /\ screen \in {"login", "register"} /\ ~hooks.loading /\ Len(timers) < MaxTimers
        /\ hooks' = Busy(hooks) /\ timers' = Append(timers, "social")
        /\ UNCHANGED <<screen, calls, server, past, auth>>
    BY <1>2 DEF Social, SetAndDelay
  <2>2. ScreenTyped(screen, Busy(hooks)) /\ Busy(hooks).loading = TRUE
    <3>1. CASE screen = "login"
      BY <1>1, <3>1 DEF SignInHooks, Busy, ScreenTyped, Public
    <3>2. CASE screen = "register"
      BY <1>1, <3>2 DEF SignInHooks, Busy, ScreenTyped, Public
    <3> QED
      BY <2>1, <3>1, <3>2
  <2>3. TimersTyped(Append(timers, "social"))
    BY <1>1, <2>1, TimersAppended
  <2>4. /\ DOMAIN Append(timers, "social") = DOMAIN timers \union {Len(timers) + 1}
        /\ \A k \in DOMAIN timers : Append(timers, "social")[k] = timers[k]
    BY <1>1, AppendFacts
  <2>5. OneForm(calls, Append(timers, "social"), screen, Busy(hooks))
    BY <2>1, <2>2, <2>4, NothingUnderWay DEF OneForm
  <2> QED
    BY <2>1, <2>2, <2>3, <2>5 DEF SInv, GuardsHold
<1>3. CASE SocialEnds
  <2> DEFINE h == [hooks EXCEPT !.loading = FALSE]
             k0 == First("social")
             ts == RemoveAt(timers, k0)
  <2>1. /\ Pending("social") /\ hooks' = h /\ timers' = ts
        /\ UNCHANGED <<screen, calls, server, past, auth>>
    BY <1>3 DEF SocialEnds, Fire
  <2>2. k0 \in DOMAIN timers /\ timers[k0] = "social"
    BY <1>1, <2>1, FirstFacts
  <2>3. screen \in {"login", "register"} /\ \A k \in DOMAIN calls : ~calls[k].live
    BY <2>2 DEF SInv, OneForm
  <2>4. ScreenTyped(screen, h)
    <3>1. CASE screen = "login"
      BY <1>1, <3>1 DEF SignInHooks, ScreenTyped, Public
    <3>2. CASE screen = "register"
      BY <1>1, <3>2 DEF SignInHooks, ScreenTyped, Public
    <3> QED
      BY <2>3, <3>1, <3>2
  <2> HIDE DEF k0
  <2>5. /\ IsSequence(ts) /\ Len(ts) = Len(timers) - 1
        /\ \A k \in DOMAIN ts : \E j \in DOMAIN timers \ {k0} : ts[k] = timers[j]
    BY <1>1, <2>2, RemoveAtFacts
  <2> HIDE DEF ts, h
  <2>6. TimersTyped(ts)
    BY <1>1, <2>5, BoundsAssumption DEF TimersTyped
  <2>7. \A k \in DOMAIN ts : ts[k] # "social"
    BY <2>2, <2>5 DEF SInv, OneForm
  <2>8. OneForm(calls, ts, screen, h)
    BY <2>3, <2>7 DEF OneForm
  <2> QED
    BY <2>1, <2>4, <2>6, <2>8 DEF SInv, GuardsHold
<1> QED
  BY <1>2, <1>3

\* A navigation leaves the calls and who is signed in alone.
LEMMA NavigationKeeps ==
  ASSUME SInv, NEW s \in Public \union Guarded, NEW ts, TimersTyped(ts),
         screen' = Dest(s, auth.user), hooks' = Fresh(Dest(s, auth.user)),
         calls' = Left(calls), timers' = Kept(ts), UNCHANGED <<server, past, auth>>
  PROVE  SInv'
<1> DEFINE d == Dest(s, auth.user)
<1>1. d \in Public \union Guarded
  BY FreshTyped
<1>2. GuardsHold'
  BY OpenedIsGuarded
<1> HIDE DEF d
<1>3. Remains(calls, calls, {})
  BY NoneGone DEF SInv, CallsTyped
<1>4. /\ Remains(Left(calls), calls, {})
      /\ ScreenTyped(d, Fresh(d)) /\ TimersTyped(Kept(ts))
      /\ CallsTyped(Left(calls), d, server.owner)
      /\ OneForm(Left(calls), Kept(ts), d, Fresh(d))
  BY <1>1, <1>3, Opened DEF SInv
<1>5. OnTheirWay(Left(calls), server, auth.session)
  <2>1. \A i \in DOMAIN calls \ {} : Granted(calls[i]) => calls[i].reply.value.session # auth.session
    BY DEF SInv, OnTheirWay, SafeSession
  <2> QED
    BY <1>4, <2>1, WayRemain DEF SInv
<1>6. InUse(Left(calls), server, auth, past)
  BY <1>4, UseRemain DEF SInv
<1> QED
  BY <1>2, <1>4, <1>5, <1>6 DEF SInv, d

\* A log-out is sent and nobody waits for it: the session in use is on its way out.
LEMMA LogoutKeeps ==
  ASSUME SInv, HandleLogout
  PROVE  SInv'
<1> DEFINE c == Post("logout", auth.session)
           cs == Append(calls, c)
<1>1. /\ screen = "app" /\ Len(calls) < MaxCalls
      /\ screen' = "landing" /\ hooks' = Fresh("landing") /\ timers' = Kept(timers)
      /\ calls' = Left(cs) /\ UNCHANGED <<server, past, auth>>
  BY DEF HandleLogout
<1>2. auth.user # "none" /\ auth.session \in DOMAIN server.owner
  BY <1>1 DEF SInv, GuardsHold, Guarded, AuthTyped
<1>3. /\ c.op = "logout" /\ c.arg = auth.session /\ c.reply = Waiting
      /\ c \in [op : {"login", "verify", "register", "forgot", "logout"}, resource : {"none"},
                arg : {c.arg}, live : BOOLEAN, reply : {c.reply}, overtaken : {FALSE}]
  BY DEF Post, Sent
<1> HIDE DEF c
<1>4. IsSequence(calls) /\ Len(calls) \in Nat
  BY DEF SInv, CallsTyped, IsSequence
<1>5. /\ IsSequence(cs) /\ Len(cs) = Len(calls) + 1
      /\ DOMAIN cs = DOMAIN calls \union {Len(calls) + 1}
      /\ \A k \in DOMAIN calls : cs[k] = calls[k]
      /\ cs[Len(calls) + 1] = c
  BY <1>4, AppendFacts
<1> HIDE DEF cs
<1> DEFINE new == Left(cs)
<1>6. IsSequence(new) /\ Len(new) = Len(cs) /\ DOMAIN new = DOMAIN cs
      /\ \A k \in DOMAIN cs : new[k] = Abandoned(cs[k])
  <2>1. Remains(new, cs, {}) /\ DOMAIN new = DOMAIN cs
    BY <1>5, NoneGone, LeftRemains
  <2>2. \A k \in DOMAIN cs : new[k] = Abandoned(cs[k])
    BY DEF Left, Abandoned
  <2>3. Len(new) = Len(cs)
    <3>1. new = [k \in 1 .. Len(cs) |-> new[k]] /\ Len(cs) \in Nat
      BY <1>4, <1>5, SequenceFacts DEF Left
    <3> QED
      BY <3>1, FunctionIsSequence
  <2> QED
    BY <2>1, <2>2, <2>3 DEF Remains
<1> HIDE DEF new
<1>7. /\ Abandoned(c).op = "logout" /\ Abandoned(c).arg = auth.session
      /\ Abandoned(c).reply = Waiting /\ Abandoned(c).live = FALSE
      /\ Abandoned(c) \in [op : {"login", "verify", "register", "forgot", "logout"}, resource : {"none"},
                arg : {c.arg}, live : BOOLEAN, reply : {c.reply}, overtaken : {FALSE}]
  BY <1>3 DEF Abandoned
<1>8. CallTyped(Abandoned(c), "landing", server.owner) /\ ~Granted(Abandoned(c))
  <2> DEFINE e == Abandoned(c)
  <2> HIDE DEF e
  <2>1. /\ e.op = "logout" /\ e.arg = auth.session /\ e.reply = Waiting /\ e.live = FALSE
        /\ e \in [op : {"login", "verify", "register", "forgot", "logout"}, resource : {"none"},
                  arg : {e.arg}, live : BOOLEAN, reply : {e.reply}, overtaken : {FALSE}]
    BY <1>3, <1>7 DEF e
  <2>2. e.reply.status = "waiting" /\ e.reply \in [status : {"waiting", "ok", "failed"}, value : {e.reply.value}]
    BY <2>1 DEF Waiting
  <2>3. CallTyped(e, "landing", server.owner) /\ ~Granted(e)
    BY <1>2, <2>1, <2>2 DEF CallTyped, Granted
  <2> QED
    BY <2>3 DEF e
<1>9. \A k \in DOMAIN calls :
        /\ new[k].op = calls[k].op /\ new[k].arg = calls[k].arg /\ new[k].reply = calls[k].reply
        /\ ~new[k].live /\ CallTyped(new[k], "landing", server.owner)
        /\ Granted(new[k]) <=> Granted(calls[k])
  <2> TAKE k \in DOMAIN calls
  <2>1. new[k] = Abandoned(calls[k]) /\ CallTyped(calls[k], screen, server.owner)
    BY <1>5, <1>6 DEF SInv, CallsTyped
  <2>2. /\ new[k].op = calls[k].op /\ new[k].arg = calls[k].arg /\ new[k].reply = calls[k].reply
        /\ new[k].live = FALSE /\ CallTyped(new[k], "landing", server.owner)
    BY <2>1, AbandonedCall
  <2> QED
    BY <2>2 DEF Granted
<1>10. new[Len(calls) + 1] = Abandoned(c) /\ DOMAIN new = DOMAIN calls \union {Len(calls) + 1}
  BY <1>5, <1>6
<1>11. CallsTyped(new, "landing", server.owner)
  BY <1>1, <1>4, <1>5, <1>6, <1>8, <1>9, <1>10, BoundsAssumption DEF CallsTyped
<1>12. \A x : LogsOut(new, x) <=> LogsOut(calls, x) \/ x = auth.session
  BY <1>7, <1>9, <1>10 DEF LogsOut
<1>13. OnTheirWay(new, server, auth.session)
  BY <1>8, <1>9, <1>10, <1>12 DEF SInv, OnTheirWay, SafeSession
<1>14. InUse(new, server, auth, past)
  BY <1>12 DEF SInv, InUse
<1>15. ScreenTyped("landing", Fresh("landing"))
  BY FreshTyped DEF Public
<1>16. TimersTyped(Kept(timers)) /\ \A k \in DOMAIN Kept(timers) : Kept(timers)[k] # "social"
  BY KeptFacts DEF SInv
<1>17. OneForm(new, Kept(timers), "landing", Fresh("landing"))
  BY <1>7, <1>9, <1>10, <1>16 DEF OneForm
<1>18. GuardsHold'
  BY <1>1 DEF GuardsHold, Guarded
<1> QED
  BY <1>1, <1>11, <1>13, <1>14, <1>15, <1>16, <1>17, <1>18 DEF SInv, new

\* A reload forgets the calls; what was to end a session is then recorded as cut.
LEMMA ReloadKeeps ==
  ASSUME SInv, Reload
  PROVE  SInv'
<1> DEFINE a == [auth EXCEPT !.user = auth.stored, !.pending = "none"]
<1>1. AuthTyped(auth, server.owner) /\ auth.stored = auth.user
  BY DEF SInv, AuthTyped
<1>2. AuthTyped(a, server.owner) /\ a.user = auth.user /\ a.session = auth.session
  BY <1>1 DEF AuthTyped
<1> HIDE DEF a
<1>3. /\ auth' = a /\ screen' = Dest(screen, auth'.user) /\ hooks' = Fresh(Dest(screen, auth'.user))
      /\ calls' = <<>> /\ timers' = <<>> /\ server' = server
      /\ past' = IF LoggingOut(auth.session) THEN past \union {"cut"} ELSE past
  BY <1>1, <1>2 DEF Reload, a
<1>4. GuardsHold'
  BY <1>3, OpenedIsGuarded
<1>5. ScreenTyped(screen', hooks')
  BY <1>3, FreshTyped DEF SInv, ScreenTyped
<1>6. IsSequence(<<>>) /\ Len(<<>>) = 0 /\ DOMAIN <<>> = {}
  BY DEF IsSequence
<1>7. CallsTyped(calls', screen', server'.owner) /\ TimersTyped(timers')
  BY <1>3, <1>6, BoundsAssumption DEF CallsTyped, TimersTyped
<1>8. OneForm(calls', timers', screen', hooks') /\ OnTheirWay(calls', server', auth'.session)
  BY <1>3, <1>6 DEF OneForm, OnTheirWay
<1>9. InUse(calls', server', auth', past')
  BY <1>2, <1>3 DEF SInv, InUse, LoggingOut, LogsOut
<1> QED
  BY <1>2, <1>3, <1>4, <1>5, <1>7, <1>8, <1>9 DEF SInv

(* The server *)

\* The reply of one call is written and the rest of the calls stays.
LEMMA AnswerFacts ==
  ASSUME SInv, NEW i \in DOMAIN calls, NEW reply, Answer(i, reply),
         reply \in [status : {"ok", "failed"}, value : {reply.value}]
  PROVE  /\ IsSequence(calls') /\ Len(calls') = Len(calls) /\ DOMAIN calls' = DOMAIN calls
         /\ \A j \in DOMAIN calls \ {i} : calls'[j] = calls[j]
         /\ calls'[i].op = calls[i].op /\ calls'[i].arg = calls[i].arg
         /\ calls'[i].live = calls[i].live /\ calls'[i].reply = reply
         /\ \A owner : (calls[i].op \in {"login", "verify"} /\ reply.status = "ok"
                          => ValueTyped(calls'[i], owner))
                       /\ (calls[i].op = "logout" => calls[i].arg \in DOMAIN owner)
                       => CallTyped(calls'[i], screen, owner)
         /\ \A x : LogsOut(calls', x) <=> LogsOut(calls, x)
<1>1. IsSequence(calls) /\ CallTyped(calls[i], screen, server.owner)
      /\ DOMAIN calls = 1 .. Len(calls) /\ Len(calls) \in Nat
  BY SequenceFacts DEF SInv, CallsTyped, IsSequence
<1>2. calls' = [calls EXCEPT ![i].reply = reply]
  BY DEF Answer
<1>3. /\ DOMAIN calls' = 1 .. Len(calls)
      /\ \A j \in DOMAIN calls \ {i} : calls'[j] = calls[j]
      /\ calls'[i] = [calls[i] EXCEPT !.reply = reply]
      /\ calls' = [k \in 1 .. Len(calls) |-> calls'[k]]
  BY <1>1, <1>2
<1>4. IsSequence(calls') /\ Len(calls') = Len(calls)
  BY <1>1, <1>3, FunctionIsSequence
<1>5. /\ calls'[i].op = calls[i].op /\ calls'[i].arg = calls[i].arg
      /\ calls'[i].live = calls[i].live /\ calls'[i].reply = reply
      /\ calls'[i] \in [op : {"login", "verify", "register", "forgot", "logout"},
                        resource : {"none"}, arg : {calls'[i].arg}, live : BOOLEAN,
                        reply : {calls'[i].reply}, overtaken : {FALSE}]
  BY <1>1, <1>3 DEF CallTyped
<1>6. \A x : LogsOut(calls', x) <=> LogsOut(calls, x)
  BY <1>1, <1>3, <1>5 DEF LogsOut
<1>7. ASSUME NEW owner,
             calls[i].op \in {"login", "verify"} /\ reply.status = "ok" => ValueTyped(calls'[i], owner),
             calls[i].op = "logout" => calls[i].arg \in DOMAIN owner
      PROVE  CallTyped(calls'[i], screen, owner)
  BY <1>1, <1>5, <1>7 DEF CallTyped
<1> QED
  BY <1>1, <1>3, <1>4, <1>5, <1>6, <1>7

\* A step of the server or the network that grants no session and ends none but one
\* that is being logged out.
LEMMA AnswerKeeps ==
  ASSUME SInv, NEW i \in DOMAIN calls, NEW reply, Answer(i, reply),
         reply \in [status : {"ok", "failed"}, value : {reply.value}],
         calls[i].op \in {"login", "verify"} /\ reply.status = "ok" =>
           calls[i].op = "login" /\ reply.value.mfa /\ ValueTyped(calls'[i], server.owner),
         ServerTyped(server'), server'.owner = server.owner,
         \A n \in server.valid : n \in server'.valid \/ LogsOut(calls, n),
         UNCHANGED <<screen, hooks, timers, past, auth>>
  PROVE  SInv'
<1>1. /\ IsSequence(calls') /\ Len(calls') = Len(calls) /\ DOMAIN calls' = DOMAIN calls
      /\ \A j \in DOMAIN calls \ {i} : calls'[j] = calls[j]
      /\ calls'[i].op = calls[i].op /\ calls'[i].live = calls[i].live /\ calls'[i].reply = reply
      /\ \A x : LogsOut(calls', x) <=> LogsOut(calls, x)
  BY AnswerFacts
<1>2. CallTyped(calls'[i], screen, server.owner)
  <2>1. calls[i].op = "logout" => calls[i].arg \in DOMAIN server.owner
    BY DEF SInv, CallsTyped, CallTyped
  <2> QED
    BY <2>1, AnswerFacts
<1>3. CallsTyped(calls', screen', server'.owner)
  BY <1>1, <1>2 DEF SInv, CallsTyped
<1>4. OneForm(calls', timers', screen', hooks')
  BY <1>1 DEF SInv, OneForm
<1>5. ~Granted(calls'[i])
  BY <1>1 DEF Granted
<1>6. OnTheirWay(calls', server', auth'.session)
  <2>1. ASSUME NEW j \in DOMAIN calls', Granted(calls'[j])
        PROVE  SafeSession(calls'[j], calls', server', auth'.session)
    <3>1. calls'[j] = calls[j] /\ SafeSession(calls[j], calls, server, auth.session)
      BY <1>1, <1>5, <2>1 DEF SInv, OnTheirWay
    <3> QED
      BY <1>1, <3>1 DEF SafeSession
  <2>2. \A j, k \in DOMAIN calls' :
          /\ Granted(calls'[j]) /\ Granted(calls'[k])
          /\ calls'[j].reply.value.session = calls'[k].reply.value.session
          => j = k
    BY <1>1, <1>5 DEF SInv, OnTheirWay
  <2> QED
    BY <2>1, <2>2 DEF OnTheirWay
<1>7. InUse(calls', server', auth', past')
  BY <1>1 DEF SInv, InUse
<1> QED
  BY <1>3, <1>4, <1>6, <1>7 DEF SInv, GuardsHold

\* A session is granted: it is new, so nobody has it or logs it out.
LEMMA GrantKeeps ==
  ASSUME SInv, NEW i \in DOMAIN calls, NEW op \in {"login", "verify"}, NEW u \in Users,
         NEW codes, codes \subseteq server.registered, Grant(i, op, u, codes), UNCHANGED auth
  PROVE  SInv'
<1> DEFINE n == Len(server.owner) + 1
           v == [user |-> u, mfa |-> FALSE, session |-> n]
           owner == Append(server.owner, u)
<1>1. ServerTyped(server) /\ IsSequence(server.owner) /\ Len(server.owner) \in Nat
      /\ DOMAIN server.owner = 1 .. Len(server.owner)
  BY SequenceFacts DEF SInv, ServerTyped, IsSequence
<1>2. /\ calls[i].op = op /\ Unanswered(i) /\ Answer(i, Ok(v))
      /\ server' = [server EXCEPT !.owner = owner, !.valid = server.valid \union {n}, !.codes = codes]
      /\ UNCHANGED <<screen, hooks, timers, past, auth>>
  BY DEF Grant, Serve
<1>3. /\ IsSequence(owner) /\ DOMAIN owner = DOMAIN server.owner \union {n}
      /\ \A k \in DOMAIN server.owner : owner[k] = server.owner[k]
      /\ owner[n] = u
  BY <1>1, AppendFacts
<1> HIDE DEF owner
<1>4. /\ server'.owner = owner /\ server'.valid = server.valid \union {n}
      /\ ServerTyped(server')
  BY <1>1, <1>2, <1>3 DEF ServerTyped
<1>5. n \notin DOMAIN server.owner /\ n # 0
  BY <1>1
<1>v. v.user = u /\ v.mfa = FALSE /\ v.session = n
      /\ v = [user |-> v.user, mfa |-> v.mfa, session |-> v.session]
  OBVIOUS
<1> HIDE DEF n, v
<1>6. Ok(v).status = "ok" /\ Ok(v).value = v
      /\ Ok(v) \in [status : {"ok", "failed"}, value : {Ok(v).value}]
  BY DEF Ok
<1>7. /\ IsSequence(calls') /\ Len(calls') = Len(calls) /\ DOMAIN calls' = DOMAIN calls
      /\ \A j \in DOMAIN calls \ {i} : calls'[j] = calls[j]
      /\ calls'[i].op = calls[i].op /\ calls'[i].live = calls[i].live /\ calls'[i].reply = Ok(v)
      /\ \A x : LogsOut(calls', x) <=> LogsOut(calls, x)
  BY <1>2, <1>6, AnswerFacts
<1>8. CallTyped(calls'[i], screen, owner)
  <2>1. ValueTyped(calls'[i], owner)
    BY <1>3, <1>6, <1>7, <1>v DEF ValueTyped
  <2> QED
    BY <1>2, <1>6, <2>1, AnswerFacts
<1>9. CallsTyped(calls', screen', server'.owner)
  <2>1. \A j \in DOMAIN calls : CallTyped(calls[j], screen, server.owner)
    BY DEF SInv, CallsTyped
  <2>2. ASSUME NEW c, CallTyped(c, screen, server.owner) PROVE CallTyped(c, screen, owner)
    BY <1>3, <2>2 DEF CallTyped, ValueTyped
  <2>3. \A j \in DOMAIN calls' : CallTyped(calls'[j], screen, owner)
    BY <1>7, <1>8, <2>1, <2>2
  <2> QED
    BY <1>2, <1>4, <1>7, <2>3 DEF SInv, CallsTyped
<1>10. OneForm(calls', timers', screen', hooks')
  BY <1>2, <1>7 DEF SInv, OneForm
<1>11. AuthTyped(auth', server'.owner)
  BY <1>2, <1>3, <1>4 DEF SInv, AuthTyped
<1>12. auth.session # n /\ ~LogsOut(calls, n)
  <2>1. auth.session # n
    BY <1>5 DEF SInv, AuthTyped
  <2>2. ~LogsOut(calls, n)
    BY <1>5 DEF SInv, CallsTyped, CallTyped, LogsOut
  <2> QED
    BY <2>1, <2>2
<1>13. \A j \in DOMAIN calls : Granted(calls[j]) =>
         /\ calls[j].reply.value.session \in DOMAIN server.owner
         /\ SafeSession(calls[j], calls, server, auth.session)
  BY DEF SInv, CallsTyped, CallTyped, ValueTyped, Granted, OnTheirWay
<1>14. OnTheirWay(calls', server', auth'.session)
  <2>1. SafeSession(calls'[i], calls', server', auth'.session)
    BY <1>2, <1>3, <1>4, <1>6, <1>7, <1>12, <1>v DEF SafeSession
  <2>2. ASSUME NEW j \in DOMAIN calls \ {i}, Granted(calls'[j])
        PROVE  SafeSession(calls'[j], calls', server', auth'.session)
               /\ calls'[j].reply.value.session # n
    BY <1>2, <1>3, <1>4, <1>5, <1>7, <1>13, <2>2 DEF SafeSession
  <2>3. calls'[i].reply.value.session = n
    BY <1>6, <1>7, <1>v
  <2>4. \A j, k \in DOMAIN calls' :
          /\ Granted(calls'[j]) /\ Granted(calls'[k])
          /\ calls'[j].reply.value.session = calls'[k].reply.value.session
          => j = k
    BY <1>7, <2>2, <2>3 DEF SInv, OnTheirWay
  <2> QED
    BY <1>7, <2>1, <2>2, <2>4 DEF OnTheirWay
<1>15. InUse(calls', server', auth', past')
  <2>1. auth.session # 0 => auth.session \in DOMAIN server.owner
    BY DEF SInv, AuthTyped
  <2> QED
    BY <1>2, <1>3, <1>4, <1>7, <2>1 DEF SInv, InUse
<1> QED
  BY <1>2, <1>4, <1>9, <1>10, <1>11, <1>14, <1>15 DEF SInv, GuardsHold

\* The server's and the network's steps keep the invariant.
LEMMA ServerKeeps ==
  ASSUME SInv, NEW i \in DOMAIN calls, SignInServer(i), UNCHANGED auth
  PROVE  SInv'
<1>0. ServerTyped(server) /\ CallTyped(calls[i], screen, server.owner)
  BY DEF SInv, CallsTyped
<1>r. \A v : Ok(v) \in [status : {"ok", "failed"}, value : {Ok(v).value}]
             /\ Ok(v).status = "ok" /\ Ok(v).value = v
  BY DEF Ok
<1>1. CASE LoginServe(i)
  <2> DEFINE u == calls[i].arg
             v == [user |-> u, mfa |-> TRUE, session |-> 0]
  <2>1. calls[i].op = "login" /\ u \in server.registered /\ u \in Users
    BY <1>0, <1>1 DEF LoginServe, ServerTyped
  <2>2. CASE u \in Mfa
    <3>1. Serve(i, "login", [server EXCEPT !.codes = @ \union {u}], v)
      BY <1>1, <2>2 DEF LoginServe
    <3>2. /\ Answer(i, Ok(v)) /\ server' = [server EXCEPT !.codes = server.codes \union {u}]
          /\ UNCHANGED <<screen, hooks, timers, past, auth>>
      BY <3>1 DEF Serve
    <3>3. ServerTyped(server') /\ server'.owner = server.owner /\ server'.valid = server.valid
      BY <1>0, <2>1, <3>2 DEF ServerTyped
    <3>4. /\ v.user = u /\ v.mfa = TRUE
          /\ v = [user |-> v.user, mfa |-> v.mfa, session |-> v.session]
      OBVIOUS
    <3> HIDE DEF v
    <3>5. calls'[i].reply = Ok(v) /\ calls'[i].op = calls[i].op
      BY <1>r, <3>2, AnswerFacts
    <3>6. ValueTyped(calls'[i], server.owner)
      <4> DEFINE c == calls'[i]
      <4>1. c.reply.value = v /\ c.op = "login"
        BY <1>r, <2>1, <3>5
      <4> HIDE DEF c, u
      <4> QED
        BY <2>1, <2>2, <3>4, <4>1 DEF ValueTyped, c
    <3> QED
      BY <1>r, <2>1, <3>2, <3>3, <3>4, <3>6, AnswerKeeps
  <2>3. CASE u \notin Mfa
    <3>1. Grant(i, "login", u, server.codes)
      BY <1>1, <2>3 DEF LoginServe
    <3>2. server.codes \subseteq server.registered
      BY <1>0 DEF ServerTyped
    <3> QED
      BY <2>1, <3>1, <3>2, GrantKeeps
  <2> QED
    BY <2>2, <2>3
<1>2. CASE VerifyServe(i)
  <2> DEFINE u == calls[i].arg.user
  <2>1. u \in server.codes /\ Grant(i, "verify", u, server.codes \ {u})
    BY <1>2 DEF VerifyServe
  <2>2. u \in Users /\ server.codes \ {u} \subseteq server.registered
    BY <1>0, <2>1 DEF ServerTyped
  <2> QED
    BY <2>1, <2>2, GrantKeeps
<1>3. CASE RegisterServe(i)
  <2>1. /\ calls[i].op = "register" /\ Answer(i, Ok(NoValue))
        /\ server' = [server EXCEPT !.registered = server.registered \union {calls[i].arg}]
        /\ UNCHANGED <<screen, hooks, timers, past, auth>>
    BY <1>3 DEF RegisterServe, Serve
  <2>2. calls[i].arg \in Users
    BY <1>0, <2>1 DEF CallTyped
  <2>3. ServerTyped(server') /\ server'.owner = server.owner /\ server'.valid = server.valid
    BY <1>0, <2>1, <2>2 DEF ServerTyped
  <2> QED
    BY <1>r, <2>1, <2>3, AnswerKeeps
<1>4. CASE ForgotServe(i)
  <2>1. /\ calls[i].op = "forgot" /\ Answer(i, Ok(NoValue)) /\ server' = server
        /\ UNCHANGED <<screen, hooks, timers, past, auth>>
    BY <1>4 DEF ForgotServe, Serve
  <2> QED
    BY <1>0, <1>r, <2>1, AnswerKeeps
<1>5. CASE LogoutServe(i)
  <2>1. /\ calls[i].op = "logout" /\ Answer(i, Ok(NoValue))
        /\ server' = [server EXCEPT !.valid = server.valid \ {calls[i].arg}]
        /\ UNCHANGED <<screen, hooks, timers, past, auth>>
    BY <1>5 DEF LogoutServe, Serve
  <2>2. LogsOut(calls, calls[i].arg)
    BY <2>1 DEF LogsOut
  <2>3. /\ ServerTyped(server') /\ server'.owner = server.owner
        /\ server'.valid = server.valid \ {calls[i].arg}
    BY <1>0, <2>1 DEF ServerTyped
  <2> QED
    BY <1>r, <2>1, <2>2, <2>3, AnswerKeeps
<1>6. CASE Reject(i) \/ Lose(i)
  <2>1. /\ Answer(i, Failed) /\ UNCHANGED <<screen, hooks, timers, server, past, auth>>
    BY <1>6 DEF Reject, Lose
  <2>2. Failed.status = "failed" /\ Failed \in [status : {"ok", "failed"}, value : {Failed.value}]
    BY DEF Failed
  <2> QED
    BY <1>0, <2>1, <2>2, AnswerKeeps
<1> QED
  BY <1>1, <1>2, <1>3, <1>4, <1>5, <1>6 DEF SignInServer

(* The theorems *)

\* Every step keeps the invariant.
LEMMA StepKeepsSignIn == SInv /\ [SignInNext]_signVars => SInv'
<1> SUFFICES ASSUME SInv, [SignInNext]_signVars PROVE SInv'
  OBVIOUS
<1>0. TimersTyped(timers) /\ IsSequence(timers) /\ Len(timers) \in Nat
  BY DEF SInv, TimersTyped, IsSequence
<1>1. CASE \/ LoginInput \/ HandleLogin \/ HandleVerifyOtp \/ RegisterInput \/ HandleRegister
           \/ ForgotInput \/ HandleEmail
  BY <1>1, FormKeeps
<1>2. CASE Social \/ SocialEnds
  BY <1>2, SocialKeeps
<1>3. CASE ToDashboard
  <2> DEFINE k == First("dashboard")
             ts == RemoveAt(timers, k)
  <2>1. /\ Pending("dashboard")
        /\ screen' = Dest("app", auth.user) /\ hooks' = Fresh(Dest("app", auth.user))
        /\ calls' = Left(calls) /\ timers' = Kept(ts) /\ UNCHANGED <<server, past, auth>>
    BY <1>3 DEF ToDashboard
  <2>2. k \in DOMAIN timers
    BY <1>0, <2>1, FirstFacts
  <2> HIDE DEF k
  <2>3. /\ IsSequence(ts) /\ Len(ts) = Len(timers) - 1
        /\ \A j \in DOMAIN ts : \E l \in DOMAIN timers : ts[j] = timers[l]
    BY <1>0, <2>2, RemoveAtFacts
  <2> HIDE DEF ts
  <2>4. TimersTyped(ts)
    BY <1>0, <2>3, BoundsAssumption DEF TimersTyped
  <2>5. "app" \in Public \union Guarded
    BY DEF Guarded
  <2> QED
    BY <2>1, <2>4, <2>5, NavigationKeeps
<1>4. CASE HandleLogout
  BY <1>4, LogoutKeeps
<1>5. CASE Reload
  BY <1>5, ReloadKeeps
<1>6. ASSUME NEW s \in Public \union Guarded, Visit(s) PROVE SInv'
  BY <1>0, <1>6, NavigationKeeps DEF Visit, Open
<1>7. ASSUME NEW i \in DOMAIN calls, SignInServer(i), UNCHANGED auth PROVE SInv'
  BY <1>7, ServerKeeps
<1>8. ASSUME NEW i \in DOMAIN calls, SignInCallback(i) PROVE SInv'
  BY <1>8, CallbackKeeps
<1>9. CASE UNCHANGED signVars
  BY <1>9 DEF signVars, vars, tab, SInv, GuardsHold
<1> QED
  BY <1>1, <1>2, <1>3, <1>4, <1>5, <1>6, <1>7, <1>8, <1>9 DEF SignInNext

\* Nobody is signed in at first.
LEMMA InitSignIn == SignInInit => SInv
<1> SUFFICES ASSUME SignInInit PROVE SInv
  OBVIOUS
<1>1. /\ screen = "landing" /\ hooks = Fresh("landing") /\ calls = <<>> /\ timers = <<>>
      /\ server = [registered |-> Registered, owner |-> <<>>, valid |-> {}, codes |-> {}]
      /\ past = {} /\ auth = SignedOut
  BY DEF SignInInit
<1>2. IsSequence(<<>>) /\ Len(<<>>) = 0 /\ DOMAIN <<>> = {}
  BY DEF IsSequence
<1>3. ScreenTyped(screen, hooks)
  BY <1>1, FreshTyped DEF Public
<1>4. CallsTyped(calls, screen, server.owner) /\ TimersTyped(timers)
  BY <1>1, <1>2, BoundsAssumption DEF CallsTyped, TimersTyped
<1>5. ServerTyped(server)
  BY <1>1, <1>2, UsersAssumption DEF ServerTyped
<1>6. AuthTyped(auth, server.owner) /\ auth.session = 0
  BY <1>1 DEF AuthTyped, SignedOut
<1>7. OneForm(calls, timers, screen, hooks) /\ OnTheirWay(calls, server, auth.session)
      /\ InUse(calls, server, auth, past)
  BY <1>1, <1>2, <1>6 DEF OneForm, OnTheirWay, InUse
<1>8. GuardsHold
  BY <1>1 DEF GuardsHold, Guarded
<1> QED
  BY <1>3, <1>4, <1>5, <1>6, <1>7, <1>8 DEF SInv

\* The invariant holds in every state the tab can be in.
THEOREM SignInInvariant == SignInSpec => []SInv
BY InitSignIn, StepKeepsSignIn, PTL DEF SignInSpec

\* The context, the form and what waits keep their shape, and somebody is signed in
\* exactly with a session of the back end: AuthContext.jsx keeps the user, the stored
\* user and the token in step.
THEOREM SignInTypeCorrect == SignInSpec => []SignInTypeOK
<1>1. SInv => SignInTypeOK
  BY DEF SInv, ScreenTyped, CallsTyped, TimersTyped, AuthTyped, SignInTypeOK
<1> QED
  BY <1>1, SignInInvariant, PTL

\* Login.jsx, Register.jsx and ForgotPassword.jsx never have two requests under way, nor
\* one together with a social sign-in, and show the one that is.
THEOREM OneSignInWaits == SignInSpec => []OneSignInAtATime
<1>1. SInv => OneSignInAtATime
  <2> SUFFICES ASSUME SInv PROVE OneSignInAtATime
    OBVIOUS
  <2>1. \A i \in SignInCalls : i \in DOMAIN calls /\ calls[i].live
    BY DEF SignInCalls, InFlight
  <2>2. OneForm(calls, timers, screen, hooks)
    BY DEF SInv
  <2>3. (SignInCalls # {} \/ Pending("social")) => hooks.loading
    BY <2>1, <2>2 DEF OneForm, Pending
  <2>4. CASE SignInCalls = {}
    <3>1. Cardinality(SignInCalls) = 0
      BY <2>4, FS_EmptySet
    <3> QED
      BY <2>3, <3>1 DEF OneSignInAtATime
  <2>5. CASE SignInCalls # {}
    <3>1. PICK i \in SignInCalls : TRUE
      BY <2>5
    <3>2. SignInCalls = {i}
      BY <2>1, <2>2, <3>1 DEF OneForm
    <3>3. Cardinality(SignInCalls) = 1
      BY <3>2, FS_Singleton
    <3>4. ~Pending("social")
      BY <2>1, <2>2, <3>1 DEF OneForm, Pending
    <3> QED
      BY <2>3, <3>3, <3>4 DEF OneSignInAtATime
  <2> QED
    BY <2>4, <2>5
<1> QED
  BY <1>1, SignInInvariant, PTL

\* Whoever is signed in holds a session of their own that routes/auth.py still takes,
\* unless a log-out of it is on its way or was cut short by a reload: no answer that
\* comes late brings another's session, a spent one or one that is being ended.
THEOREM SessionsStayLive == SignInSpec => []TokensAreLive
<1>1. SInv => TokensAreLive
  BY DEF SInv, InUse, TokensAreLive, LoggingOut, LogsOut
<1> QED
  BY <1>1, SignInInvariant, PTL
=============================================================================
