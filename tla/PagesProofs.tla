---------------------------- MODULE PagesProofs ----------------------------
(***************************************************************************)
(* What TLAPS proves of Pages: no screen waits for nothing, the writes     *)
(* whose button is disabled go out once, what a screen reports as done was *)
(* posted, and what it shows once nothing is under way is what the back    *)
(* end has, unless something went wrong on the way.                        *)
(*                                                                         *)
(* A behaviour never leaves its family of screens, because each call in    *)
(* flight is one that the screen makes.  So the proof has three parts: what*)
(* each step that Screen offers does to the screen (ScreenProofs has what  *)
(* it does to the calls), then, family by family, its invariant, and last  *)
(* that no other family has a step.  The proof of what is shown is laid    *)
(* out likewise, on top of that invariant.                                 *)
(***************************************************************************)
EXTENDS Pages, ScreenProofs

(* The screen *)

\* The screens on which a call is made.
Home(op) ==
  CASE op \in {"transferAccounts", "transfer"} -> {"transfer"}
    [] op \in {"firstAccounts", "first", "lifecycle"} -> {"first", "lifecycle"}
    [] op \in {"fetchBills", "schedule", "action"} -> {"billpay"}
    [] op \in {"fxWallet", "convert"} -> {"fx"}
    [] op = "transactions" -> {"transactions"}
    [] op = "dashboard" -> {"dashboard"}
    [] op = "accountList" -> {"accounts"}
    [] op \in {"users", "patchUser"} -> {"users"}
    [] op \in {"flags"} \union FlagWrites -> {"flags"}
    [] op \in AdminLists -> {op}
    [] op \in {"notices", "markRead"} -> {"notifications"}
    [] op \in {"fetchSessions", "revoke"} -> {"profile"}
    [] op \in {"legacy", "legacyLogin", "legacyOtp"} -> {"legacy"}
    [] OTHER -> {}

\* The jobs whose button is disabled or replaced while they are under way.
Writes == {"transfer", "first", "convert", "revokeAll"}

\* What history may know.
Pasts == {"failed", "overtaken", "outlived", "edited", "overlapped"}

\* The calls are the screen's own, and no such job is done twice at a time.
OwnCalls(cs, s) == \A k \in DOMAIN cs : s \in Home(cs[k].op)
AloneAll(cs) == \A job \in Writes : Alone(cs, job)

\* What holds of the calls on every screen, and of the timeouts.
Base ==
  /\ Shaped(calls) /\ OwnCalls(calls, screen) /\ AloneAll(calls)
  /\ past \subseteq Pasts

Timed == IsSequence(timers) /\ Len(timers) <= MaxTimers

\* A call that comes back sets h where someone waits for it.
Settled(i, h) ==
  /\ hooks' = IF calls[i].live THEN h ELSE hooks
  /\ past \subseteq past'
  /\ past' \subseteq past \union {"failed", "overtaken"}
  /\ calls[i].live /\ calls[i].reply.status = "failed" => "failed" \in past'
  /\ calls[i].live /\ calls[i].overtaken => "overtaken" \in past'
  /\ screen' = screen /\ server' = server

\* A call that is sent has its shape.
LEMMA GetShape ==
  ASSUME NEW op, NEW resource
  PROVE  LET c == Get(op, resource) IN
         /\ Shape(c) /\ c.op = op /\ c.resource = resource /\ c.live /\ c.reply.status = "waiting"
  BY DEF Get, Sent, Shape, Waiting

\* What a write starts as.
LEMMA PostShape ==
  ASSUME NEW op, NEW arg
  PROVE  LET c == Post(op, arg) IN
         /\ Shape(c) /\ c.op = op /\ c.resource = "none" /\ c.arg = arg
         /\ c.live /\ c.reply.status = "waiting"
  BY DEF Post, Sent, Shape, Waiting

\* Where the calls are made.
LEMMA HomeFacts ==
  /\ Home("transferAccounts") = {"transfer"} /\ Home("transfer") = {"transfer"}
  /\ Home("firstAccounts") = {"first", "lifecycle"} /\ Home("first") = {"first", "lifecycle"}
  /\ Home("lifecycle") = {"first", "lifecycle"}
  /\ Home("fetchBills") = {"billpay"} /\ Home("schedule") = {"billpay"} /\ Home("action") = {"billpay"}
  /\ Home("fxWallet") = {"fx"} /\ Home("convert") = {"fx"}
  /\ Home("transactions") = {"transactions"} /\ Home("dashboard") = {"dashboard"}
  /\ Home("accountList") = {"accounts"}
  /\ Home("users") = {"users"} /\ Home("patchUser") = {"users"} /\ Home("flags") = {"flags"}
  /\ \A op \in FlagWrites : Home(op) = {"flags"}
  /\ \A op \in AdminLists : Home(op) = {op}
  /\ Home("notices") = {"notifications"} /\ Home("markRead") = {"notifications"}
  /\ Home("fetchSessions") = {"profile"} /\ Home("revoke") = {"profile"}
  /\ Home("legacy") = {"legacy"} /\ Home("legacyLogin") = {"legacy"} /\ Home("legacyOtp") = {"legacy"}
  BY DEF Home, FlagWrites, AdminLists

\* A call has come back and nothing is sent.
LEMMA ResolveEnds ==
  ASSUME Base, NEW i \in DOMAIN calls, NEW h, Resolve(i, h, <<>>)
  PROVE  Base' /\ Ended(calls', calls, i) /\ Settled(i, h)
  <1>1. calls' = CallsWithout(i) \o [j \in DOMAIN <<>> |-> [<<>>[j] EXCEPT !.live = calls[i].live]]
    BY Zenon DEF Resolve
  <1>2. [j \in DOMAIN <<>> |-> [<<>>[j] EXCEPT !.live = calls[i].live]] = <<>>
    OBVIOUS
  <1>3. CallsWithout(i) = Without(calls, i)
    BY Zenon DEF CallsWithout, Without
  <1>4. Ended(Without(calls, i), calls, i)
    BY EndedFacts DEF Base
  <1>5. Without(calls, i) \o <<>> = Without(calls, i)
    <2>1. IsSequence(Without(calls, i))
      BY <1>4 DEF Ended, Shaped
    <2> HIDE DEF Without
    <2> DEFINE w == Without(calls, i)
    <2>2. w \in Seq({w[k] : k \in DOMAIN w})
      BY <2>1, SequenceFacts
    <2> HIDE DEF w
    <2>3. w \o <<>> = w
      BY <2>2
    <2> QED BY <2>3 DEF w
  <1>6. calls' = Without(calls, i)
    BY <1>1, <1>2, <1>3, <1>5, Zenon
  <1>7. Ended(calls', calls, i)
    BY <1>4, <1>6, Zenon
  <1>8. Settled(i, h)
    BY DEF Resolve, Settled
  <1>9. Base'
    <2>1. Shaped(calls') /\ screen' = screen
      BY <1>7, <1>8 DEF Ended, Settled
    <2>2. OwnCalls(calls', screen')
      BY <1>7, <2>1 DEF Ended, Alike, OwnCalls, Base
    <2>3. AloneAll(calls')
      BY <1>7 DEF Ended, AloneAll, Base
    <2>4. past' \subseteq Pasts
      BY <1>8 DEF Settled, Base, Pasts
    <2> QED BY <2>1, <2>2, <2>3, <2>4 DEF Base
  <1> QED BY <1>7, <1>8, <1>9

\* A call has come back and its callback sends another one.
LEMMA ResolveSends ==
  ASSUME Base, NEW i \in DOMAIN calls, NEW h, NEW c, Shape(c), Resolve(i, h, <<c>>),
         screen \in Home(c.op), Job(c) \notin Writes
  PROVE  /\ Base' /\ Settled(i, h)
         /\ LET d == [c EXCEPT !.live = calls[i].live] IN
            /\ Shape(d) /\ d.op = c.op /\ d.resource = c.resource /\ d.arg = c.arg
            /\ d.reply = c.reply /\ d.live = calls[i].live
            /\ \E mid : Ended(mid, calls, i) /\ Made(calls', mid, d)
  <1> DEFINE d == [c EXCEPT !.live = calls[i].live]
             mid == Without(calls, i)
  <1>1. calls' = CallsWithout(i) \o [j \in DOMAIN <<c>> |-> [<<c>>[j] EXCEPT !.live = calls[i].live]]
    BY Zenon DEF Resolve
  <1>2. [j \in DOMAIN <<c>> |-> [<<c>>[j] EXCEPT !.live = calls[i].live]] = <<d>>
    OBVIOUS
  <1>3. CallsWithout(i) = mid
    BY Zenon DEF CallsWithout, Without
  <1>4. Ended(mid, calls, i) /\ Shaped(calls)
    BY EndedFacts DEF Base
  <1>5. calls[i].live \in BOOLEAN
    BY DEF Base, Shaped, Shape
  <1>6. /\ Shape(d) /\ d.op = c.op /\ d.resource = c.resource /\ d.arg = c.arg
        /\ d.reply = c.reply /\ d.live = calls[i].live
    <2> DEFINE b == calls[i].live
    <2>1. b \in BOOLEAN
      BY <1>5
    <2> HIDE DEF b
    <2>2. LET e == [c EXCEPT !.live = b] IN
          /\ Shape(e) /\ e.op = c.op /\ e.resource = c.resource /\ e.arg = c.arg
          /\ e.reply = c.reply /\ e.live = b
      BY <2>1 DEF Shape
    <2> QED BY <2>2 DEF b
  <1> HIDE DEF d, mid
  <1>7. calls' = mid \o <<d>>
    BY <1>1, <1>2, <1>3, Zenon
  <1>8. Len(calls) - 1 + Len(<<c>>) <= MaxCalls
    BY Zenon DEF Resolve
  <1>9. Len(mid) + 1 <= MaxCalls /\ Shaped(mid)
    BY <1>4, <1>8 DEF Ended
  <1>10. Made(calls', mid, d)
    BY <1>6, <1>7, <1>9, MadeFacts
  <1>11. Settled(i, h)
    BY DEF Resolve, Settled
  <1>12. Base'
    <2>1. Shaped(calls') /\ screen' = screen
      BY <1>10, <1>11 DEF Made, Settled
    <2>2. OwnCalls(mid, screen)
      BY <1>4 DEF Ended, Alike, OwnCalls, Base
    <2>3. OwnCalls(calls', screen')
      BY <1>6, <1>10, <2>1, <2>2 DEF Made, OwnCalls
    <2>4. AloneAll(calls')
      <3>1. Job(d) \notin Writes
        BY <1>6 DEF Job
      <3> QED BY <1>4, <1>10, <3>1 DEF Ended, Made, AloneAll, Base, Does
    <2>5. past' \subseteq Pasts
      BY <1>11 DEF Settled, Base, Pasts
    <2> QED BY <2>1, <2>3, <2>4, <2>5 DEF Base
  <1> QED BY <1>4, <1>6, <1>10, <1>11, <1>12 DEF d

\* A handler sends a call.
LEMMA SendOne ==
  ASSUME Base, NEW c, Shape(c), c.live, Send(<<c>>), screen' = screen, past' \subseteq Pasts,
         screen \in Home(c.op), Job(c) \in Writes => ~Working(calls, Job(c))
  PROVE  Base' /\ Made(calls', calls, c)
  <1>1. calls' = calls \o <<c>> /\ Len(calls) + 1 <= MaxCalls
    BY DEF Send
  <1>2. Made(calls', calls, c)
    BY <1>1, MadeFacts DEF Base
  <1>3. OwnCalls(calls', screen')
    BY <1>2 DEF Made, OwnCalls, Base
  <1>4. AloneAll(calls')
    BY <1>2 DEF Made, AloneAll, Base, Does
  <1> QED BY <1>2, <1>3, <1>4 DEF Made, Base

\* The server answers a call.
LEMMA AnswerOne ==
  ASSUME Base, NEW i \in DOMAIN calls, NEW r,
         r \in [status : {"waiting", "ok", "failed"}, value : {r.value}],
         Answer(i, r), screen' = screen, past' \subseteq Pasts
  PROVE  Base' /\ Answered(calls', calls, i, r)
  <1>1. calls' = [calls EXCEPT ![i].reply = r]
    BY Zenon DEF Answer
  <1>2. Answered(calls', calls, i, r)
    BY <1>1, AnsweredFacts, Zenon DEF Base
  <1>3. OwnCalls(calls', screen')
    BY <1>2 DEF Answered, OwnCalls, Base
  <1>4. AloneAll(calls')
    BY <1>2 DEF Answered, AloneAll, Base
  <1> QED BY <1>2, <1>3, <1>4 DEF Answered, Base

\* The server does its part of a call that writes.
LEMMA WriteOne ==
  ASSUME Base, NEW i \in DOMAIN calls, NEW op, NEW rows, NEW v, Write(i, op, rows, v)
  PROVE  /\ Base' /\ Answered(calls', calls, i, Ok(v))
         /\ calls[i].op = op /\ Unanswered(i) /\ server' = rows
         /\ UNCHANGED <<screen, hooks, timers>>
         /\ past \subseteq past' /\ past' \subseteq past \union {"outlived"}
  <1>1. Ok(v) \in [status : {"waiting", "ok", "failed"}, value : {Ok(v).value}]
    BY DEF Ok
  <1>2. Answer(i, Ok(v)) /\ screen' = screen
    BY Zenon DEF Write
  <1>3. past \subseteq past' /\ past' \subseteq past \union {"outlived"}
    BY DEF Write
  <1>4. past' \subseteq Pasts
    BY <1>3 DEF Base, Pasts
  <1>5. Base' /\ Answered(calls', calls, i, Ok(v))
    BY <1>1, <1>2, <1>4, AnswerOne
  <1> QED BY <1>3, <1>5, Zenon DEF Write

\* What the calls of a screen do to another one of its family.
SameFamily(s, t) == \A op : s \in Home(op) => t \in Home(op)

\* A screen is opened and sends nothing.
LEMMA OpenQuiet ==
  ASSUME Base, NEW s, NEW h, NEW ts, MountWith(s, h, <<>>, ts), SameFamily(screen, s)
  PROVE  /\ Base' /\ Dropped(calls', calls)
         /\ screen' = s /\ hooks' = h /\ timers' = ts /\ past' = {} /\ server' = server
  <1>1. calls' = Left(calls) \o <<>>
    BY Zenon DEF MountWith
  <1>2. Dropped(Left(calls), calls)
    BY DroppedFacts DEF Base
  <1>3. Left(calls) \o <<>> = Left(calls)
    <2> DEFINE w == Left(calls)
    <2>1. IsSequence(w)
      BY <1>2 DEF Dropped, Shaped
    <2>2. w \in Seq({w[k] : k \in DOMAIN w})
      BY <2>1, SequenceFacts
    <2> HIDE DEF w
    <2>3. w \o <<>> = w
      BY <2>2
    <2> QED BY <2>3 DEF w
  <1>4. Dropped(calls', calls)
    BY <1>1, <1>2, <1>3, Zenon
  <1>5. screen' = s /\ hooks' = h /\ timers' = ts /\ past' = {} /\ server' = server
    BY DEF MountWith
  <1>6. OwnCalls(calls', screen')
    BY <1>4, <1>5 DEF Dropped, OwnCalls, Base, SameFamily
  <1>7. AloneAll(calls')
    BY <1>4 DEF Dropped, AloneAll
  <1> QED BY <1>4, <1>5, <1>6, <1>7 DEF Dropped, Base

\* A screen is opened and sends a call.
LEMMA OpenSends ==
  ASSUME Base, NEW s, NEW h, NEW c, NEW ts, MountWith(s, h, <<c>>, ts), SameFamily(screen, s),
         Shape(c), s \in Home(c.op), Job(c) \notin Writes
  PROVE  /\ Base' /\ \E mid : Dropped(mid, calls) /\ Made(calls', mid, c)
         /\ screen' = s /\ hooks' = h /\ timers' = ts /\ past' = {} /\ server' = server
  <1> DEFINE mid == Left(calls)
  <1>1. calls' = mid \o <<c>> /\ Len(calls) + 1 <= MaxCalls
    BY DEF MountWith
  <1>2. Dropped(mid, calls)
    BY DroppedFacts DEF Base
  <1> HIDE DEF mid
  <1>3. Made(calls', mid, c)
    BY <1>1, <1>2, MadeFacts DEF Dropped
  <1>4. screen' = s /\ hooks' = h /\ timers' = ts /\ past' = {} /\ server' = server
    BY DEF MountWith
  <1>5. OwnCalls(calls', screen')
    <2>1. OwnCalls(mid, s)
      BY <1>2 DEF Dropped, OwnCalls, Base, SameFamily
    <2> QED BY <1>3, <1>4, <2>1 DEF Made, OwnCalls
  <1>6. AloneAll(calls')
    BY <1>2, <1>3 DEF Dropped, Made, AloneAll
  <1> QED BY <1>2, <1>3, <1>4, <1>5, <1>6 DEF Made, Base

\* Nothing happens to the calls.
LEMMA NothingSent ==
  ASSUME Base, UNCHANGED <<screen, calls>>, past' \subseteq Pasts
  PROVE  Base'
  BY DEF Base

\* No timeout is pending.
LEMMA NoTimers ==
  ASSUME timers' = <<>> PROVE Timed'
  <1>1. IsSequence(<<>>)
    BY DEF IsSequence
  <1> QED BY <1>1, BoundsAssumption DEF Timed

\* A timeout is set.
LEMMA DelayFacts ==
  ASSUME Timed, NEW kind, Len(timers) < MaxTimers, timers' = Append(timers, kind)
  PROVE  Timed' /\ Pending(kind)'
  <1>1. /\ IsSequence(timers') /\ Len(timers') = Len(timers) + 1
        /\ DOMAIN timers' = DOMAIN timers \union {Len(timers) + 1}
        /\ timers'[Len(timers) + 1] = kind
    BY AppendFacts DEF Timed
  <1> QED BY <1>1, BoundsAssumption DEF Timed, Pending, IsSequence

\* A timeout fires.
LEMMA FireFacts ==
  ASSUME Timed, NEW kind, Pending(kind), timers' = RemoveAt(timers, First(kind))
  PROVE  Timed' /\ Len(timers') = Len(timers) - 1
  <1>1. First(kind) \in DOMAIN timers
    BY FirstFacts DEF Timed
  <1>2. IsSequence(timers') /\ Len(timers') = Len(timers) - 1
    BY <1>1, RemoveAtFacts DEF Timed
  <1> QED BY <1>2, BoundsAssumption DEF Timed, IsSequence

(* Which screen a step is one of *)

\* Transfer steps on its own screen only.
LEMMA TransferOnly ==
  ASSUME Base, TransferNext PROVE screen = "transfer"
  <1>1. ASSUME NEW i \in DOMAIN calls, calls[i].op \in {"transferAccounts", "transfer"}
        PROVE  screen = "transfer"
    BY <1>1 DEF Base, OwnCalls, Home, FlagWrites, AdminLists
  <1>2. ASSUME NEW i \in DOMAIN calls, TransferAccounts(i) \/ TransferDone(i) \/ BankPosts(i, "transfer", MaxPosted)
        PROVE  calls[i].op \in {"transferAccounts", "transfer"}
    BY <1>2 DEF TransferAccounts, TransferDone, BankPosts, Back
  <1>3. CASE TransferInput \/ TransferReview \/ TransferBack \/ TransferConfirm \/ TransferNew
    BY <1>3 DEF TransferInput, TransferReview, TransferBack, TransferConfirm, TransferNew, Offers
  <1>4. ASSUME NEW t \in Tabs, TransferTab(t) PROVE screen = "transfer"
    BY <1>4 DEF TransferTab, Offers
  <1> QED BY <1>1, <1>2, <1>3, <1>4 DEF TransferNext

\* FirstTransaction and TransactionLifecycle step on theirs.
LEMMA FirstOnly ==
  ASSUME Base, FirstTransactionNext PROVE screen \in {"first", "lifecycle"}
  <1>1. ASSUME NEW i \in DOMAIN calls, calls[i].op \in {"firstAccounts", "first", "lifecycle"}
        PROVE  screen \in {"first", "lifecycle"}
    BY <1>1 DEF Base, OwnCalls, Home, FlagWrites, AdminLists
  <1>2. ASSUME NEW i \in DOMAIN calls,
               \/ FirstAccounts(i) \/ FirstDone(i) \/ BankPosts(i, "first", MaxReceipts)
               \/ LifecycleServe(i) \/ LifecycleDone(i)
        PROVE  calls[i].op \in {"firstAccounts", "first", "lifecycle"}
    BY <1>2 DEF FirstAccounts, FirstDone, BankPosts, LifecycleServe, LifecycleDone, Back
  <1>3. CASE \/ FirstInput \/ FirstSubmit \/ FirstReset \/ FirstConfettiEnds
             \/ FirstToLifecycle \/ LifecycleToFirst
    BY <1>3 DEF FirstInput, FirstSubmit, FirstReset, FirstConfettiEnds, FirstToLifecycle,
                LifecycleToFirst, FirstOffers, LifecycleOffers
  <1>4. ASSUME NEW t, FirstTab(t) PROVE screen = "first"
    BY <1>4 DEF FirstTab, FirstOffers
  <1>5. ASSUME NEW tx, LifecycleTurn(tx) \/ LifecycleStage(tx) PROVE screen = "lifecycle"
    BY <1>5 DEF LifecycleTurn, LifecycleStage, LifecycleOffers
  <1> QED BY <1>1, <1>2, <1>3, <1>4, <1>5 DEF FirstTransactionNext

\* BillPay steps on its own screen only.
LEMMA BillPayOnly ==
  ASSUME Base, BillPayNext PROVE screen = "billpay"
  <1>1. ASSUME NEW i \in DOMAIN calls, calls[i].op \in {"fetchBills", "schedule", "action"}
        PROVE  screen = "billpay"
    BY <1>1 DEF Base, OwnCalls, Home, FlagWrites, AdminLists
  <1>2. ASSUME NEW i \in DOMAIN calls,
               \/ BillsFetched(i) \/ BillScheduled(i) \/ BillActed(i)
               \/ ScheduleServe(i) \/ ActionServe(i)
        PROVE  calls[i].op \in {"fetchBills", "schedule", "action"}
    BY <1>2 DEF BillsFetched, BillScheduled, BillActed, ScheduleServe, ActionServe, Back
  <1>3. CASE BillForm \/ BillSchedule
    BY <1>3 DEF BillForm, BillSchedule, BillOffers
  <1> QED BY <1>1, <1>2, <1>3 DEF BillPayNext

\* MultiCurrency steps on its own screen only.
LEMMA FxOnly ==
  ASSUME Base, FxNext PROVE screen = "fx"
  <1>1. ASSUME NEW i \in DOMAIN calls, calls[i].op \in {"fxWallet", "convert"}
        PROVE  screen = "fx"
    BY <1>1 DEF Base, OwnCalls, Home, FlagWrites, AdminLists
  <1>2. ASSUME NEW i \in DOMAIN calls, FxLoaded(i) \/ ConvertServe(i) \/ FxConverted(i)
        PROVE  calls[i].op \in {"fxWallet", "convert"}
    BY <1>2 DEF FxLoaded, ConvertServe, FxConverted
  <1>3. CASE FxTick \/ FxInput \/ FxConvert
    BY <1>3 DEF FxTick, FxInput, FxConvert, FxOffers
  <1> QED BY <1>1, <1>2, <1>3 DEF FxNext

ListingScreens == {"transactions", "dashboard", "accounts", "markets"}

\* A listing steps on a screen that is one.
LEMMA ListingsOnly ==
  ASSUME Base, ListingsNext PROVE screen \in ListingScreens
  <1>1. ASSUME NEW i \in DOMAIN calls, calls[i].op \in {"transactions", "dashboard", "accountList"}
        PROVE  screen \in ListingScreens
    BY <1>1 DEF Base, OwnCalls, Home, FlagWrites, AdminLists, ListingScreens
  <1>2. ASSUME NEW i \in DOMAIN calls, TransactionsFetched(i) \/ DashboardFetched(i) \/ AccountsFetched(i)
        PROVE  calls[i].op \in {"transactions", "dashboard", "accountList"}
    BY <1>2 DEF TransactionsFetched, DashboardFetched, AccountsFetched
  <1>3. ASSUME NEW v, TransactionsView(v) \/ AccountsView(v) \/ NetworkHover(v) \/ MarketsRange(v) \/ MarketsType(v)
        PROVE  screen \in ListingScreens
    BY <1>3 DEF TransactionsView, AccountsView, NetworkHover, MarketsRange, MarketsType, ListOffers, ListingScreens
  <1>4. CASE TransactionsPage \/ NetworkPulse
    BY <1>4 DEF TransactionsPage, NetworkPulse, ListOffers, ListingScreens
  <1> QED BY <1>1, <1>2, <1>3, <1>4 DEF ListingsNext, ListingScreens

AdminPages == {"users", "flags", "backups", "showcase", "roadmap"} \union AdminLists

\* A page of the administration steps on a screen that is one.
LEMMA AdminOnly ==
  ASSUME Base, AdminNext PROVE screen \in AdminPages
  <1>1. ASSUME NEW i \in DOMAIN calls,
               calls[i].op \in {"users", "patchUser", "flags"} \union FlagWrites \union AdminLists
        PROVE  screen \in AdminPages
    BY <1>1 DEF Base, OwnCalls, Home, AdminPages, FlagWrites, AdminLists
  <1>2. ASSUME NEW i \in DOMAIN calls,
               \/ UsersFetched(i) \/ PatchServe(i) \/ UserUpdated(i)
               \/ FlagsFetched(i) \/ FlagServe(i) \/ FlagWritten(i) \/ AdminListFetched(i)
        PROVE  calls[i].op \in {"users", "patchUser", "flags"} \union FlagWrites \union AdminLists
    BY <1>2 DEF UsersFetched, PatchServe, UserUpdated, FlagsFetched, FlagServe, FlagWritten,
                AdminListFetched, Back
  <1>3. CASE FlagForm \/ Restored
    BY <1>3 DEF FlagForm, Restored, AdminPages
  <1>4. ASSUME NEW v, AdminListChoice(v) \/ Restore(v) \/ ShowcaseToggle(v) \/ RoadmapToggle(v) \/ ShowcaseView(v)
        PROVE  screen \in AdminPages
    BY <1>4 DEF AdminListChoice, Restore, ShowcaseToggle, RoadmapToggle, ShowcaseView, AdminPages, AdminLists
  <1> QED BY <1>1, <1>2, <1>3, <1>4 DEF AdminNext, AdminPages

CustomerPages == {"notifications", "cards", "goals", "profile"} \union Chats

\* A page of the customer steps on a screen that is one.
LEMMA CustomerOnly ==
  ASSUME Base, CustomerNext PROVE screen \in CustomerPages
  <1>1. ASSUME NEW i \in DOMAIN calls,
               calls[i].op \in {"notices", "markRead", "fetchSessions", "revoke"}
        PROVE  screen \in CustomerPages
    BY <1>1 DEF Base, OwnCalls, Home, FlagWrites, AdminLists, CustomerPages
  <1>2. ASSUME NEW i \in DOMAIN calls,
               \/ NoticesFetched(i) \/ MarkServe(i) \/ MarkAnswered(i)
               \/ SessionsFetched(i) \/ RevokeServe(i) \/ RevokeAnswered(i)
        PROVE  calls[i].op \in {"notices", "markRead", "fetchSessions", "revoke"}
    BY <1>2 DEF NoticesFetched, MarkServe, MarkAnswered, SessionsFetched, RevokeServe, RevokeAnswered, Back
  <1>3. CASE \/ MarkAllRead \/ NoticesClear \/ CardFreeze \/ CardDetails \/ CardFlip \/ CardCreate
             \/ CardCopy \/ CardCopied \/ GoalForm \/ GoalCreate \/ ProfileToggle \/ SessionsRefresh
             \/ ChatTyped \/ ChatOpen \/ ChatSend \/ ChatReply
    BY <1>3 DEF MarkAllRead, NoticesClear, CardFreeze, CardDetails, CardFlip, CardCreate, CardCopy,
                CardCopied, GoalForm, GoalCreate, ProfileToggle, SessionsRefresh, ProfileSends,
                ChatTyped, ChatOpen, ChatSend, ChatReply, CustomerPages, Chats
  <1>4. ASSUME NEW v, MarkRead(v) \/ NoticeDelete(v) \/ NoticesTab(v) \/ CardSelect(v)
        PROVE  screen \in CustomerPages
    BY <1>4 DEF MarkRead, NoticeDelete, NoticesTab, CardSelect, CustomerPages
  <1> QED BY <1>1, <1>2, <1>3, <1>4 DEF CustomerNext, CustomerPages

LivePages == {"globe", "landing", "contact"} \union Layouts

\* Layouts, globe and public pages step on their own screens.
LEMMA LiveOnly ==
  ASSUME LiveNext PROVE screen \in LivePages
  <1>1. CASE \/ ShellMessage \/ ShellToastEnds \/ ShellMenu \/ AdminLink \/ NotificationCenter \/ ToggleTheme
             \/ GlobeSpawn \/ GlobeSpawnLater \/ GlobeArcEnds \/ GlobeZoom \/ GlobeRotate \/ GlobeOverview
             \/ LandingCount \/ ContactSubmit \/ ContactEnds
    BY <1>1 DEF ShellMessage, ShellToastEnds, ShellMenu, AdminLink, NotificationCenter, ToggleTheme,
                GlobeSpawn, GlobeSpawnLater, GlobeArcEnds, GlobeZoom, GlobeRotate, GlobeOverview,
                LandingCount, ContactSubmit, ContactEnds, LivePages, Layouts
  <1>2. ASSUME NEW c, GlobeCity(c) PROVE screen \in LivePages
    BY <1>2 DEF GlobeCity, LivePages
  <1> QED BY <1>1, <1>2 DEF LiveNext, LivePages

\* The pages that the server renders step on their own screen.
LEMMA LegacyOnly ==
  ASSUME Base, LegacyNext PROVE screen = "legacy"
  <1>1. ASSUME NEW i \in DOMAIN calls, calls[i].op \in {"legacy", "legacyLogin", "legacyOtp"}
        PROVE  screen = "legacy"
    BY <1>1 DEF Base, OwnCalls, Home, FlagWrites, AdminLists
  <1>2. ASSUME NEW i \in DOMAIN calls,
               \/ LegacyStale(i) \/ LegacyAnswered(i) \/ LegacyFailed(i) \/ LegacyExpired(i)
               \/ LegacyLoginServe(i) \/ LegacyLoggedIn(i) \/ LegacyOtpServe(i) \/ LegacyVerified(i)
        PROVE  calls[i].op \in {"legacy", "legacyLogin", "legacyOtp"}
    BY <1>2 DEF LegacyStale, LegacyAnswered, LegacyFailed, LegacyExpired, LegacyLoginServe,
                LegacyLoggedIn, LegacyOtpServe, LegacyVerified, Back
  <1>3. CASE LegacyOtp \/ LegacyTheme \/ LegacySocket \/ LegacyTick \/ LegacyToastEnds
    BY <1>3 DEF LegacyOtp, LegacyTheme, LegacySocket, LegacyTick, LegacyToastEnds, LegacyInForm
  <1>4. ASSUME NEW v, LegacyMount(v) \/ LegacyLogin(v) PROVE screen = "legacy"
    BY <1>4 DEF LegacyMount, LegacyLogin, LegacyInForm
  <1> QED BY <1>1, <1>2, <1>3, <1>4 DEF LegacyNext

(* Transfer *)

\* A request that was posted, a record of accounts as the back end keeps it, and one for Transfer.
InLedger(r, rows) == \E k \in DOMAIN rows.ledger : rows.ledger[k] = r

BankRecord(rows) ==
  rows \in [accounts : {rows.accounts}, ledger : {rows.ledger}, staff : BOOLEAN] /\ IsSequence(rows.ledger)

TransferServer(rows) ==
  /\ BankRecord(rows)
  /\ DOMAIN rows.accounts \in {{}, Accounts}
  /\ DOMAIN rows.ledger # {} => DOMAIN rows.accounts # {}

\* What has been answered is so, and what is asked for is what the form shows.
TransferCall(c, h, rows, p) ==
  /\ c.op = "transferAccounts" =>
       /\ c.resource = "accounts"
       /\ c.reply.status = "ok" => DOMAIN c.reply.value = DOMAIN rows.accounts
  /\ c.op = "transfer" =>
       /\ c.resource = "none"
       /\ c.reply.status = "ok" => InLedger(c.arg, rows)
       /\ c.live /\ "edited" \notin p => c.arg = TransferRequest(h)

\* The success view names what was posted, and demo accounts stand for none.
TransferView(h, rows, p) ==
  /\ h \in TransferHooks
  /\ h.step = "success" => DOMAIN rows.accounts # {}
  /\ h.step = "success" /\ "edited" \notin p => InLedger(TransferRequest(h), rows)
  /\ h.accounts.demo /\ "failed" \notin p => DOMAIN rows.accounts = {}

TransferGood(h, cs, rows, p) ==
  /\ TransferServer(rows) /\ TransferView(h, rows, p)
  /\ h.loading <=> Working(cs, "transfer")
  /\ \A k \in DOMAIN cs : TransferCall(cs[k], h, rows, p)

\* The invariant of Transfer.
TransferInv == screen = "transfer" => TransferGood(hooks, calls, server, past)

\* Nothing that a call claims is undone by changes of the screen that leave the
\* request alone, or of which history knows.
LEMMA TransferCallStays ==
  ASSUME NEW c, NEW d, NEW h, NEW g, NEW rows, NEW p, NEW q,
         TransferCall(c, h, rows, p), Alike(d, c),
         \/ p \subseteq q /\ TransferRequest(g) = TransferRequest(h)
         \/ "edited" \in q
         \/ ~Does(d, "transfer")
  PROVE  TransferCall(d, g, rows, q)
  <1>1. d.op = c.op /\ d.resource = c.resource /\ d.arg = c.arg /\ d.live = c.live /\ d.reply = c.reply
    BY DEF Alike
  <1>2. d.op = "transfer" /\ d.live /\ "edited" \notin q => d.arg = TransferRequest(g)
    BY <1>1 DEF TransferCall, Does, Job
  <1> QED BY <1>1, <1>2 DEF TransferCall

\* A call is like itself.
LEMMA AlikeSelf ==
  ASSUME NEW cs, Shaped(cs), NEW k \in DOMAIN cs PROVE Alike(cs[k], cs[k])
  BY DEF Shaped, Alike

\* A change of the form.
LEMMA TransferChange ==
  ASSUME Base, Timed, TransferInv, screen = "transfer", NEW h, Change(h),
         h \in TransferHooks, h.loading = hooks.loading, h.accounts = hooks.accounts, h.step # "success"
  PROVE  Base' /\ Timed' /\ screen' = "transfer" /\ TransferInv'
  <1>1. TransferGood(hooks, calls, server, past)
    BY DEF TransferInv
  <1>2. /\ hooks' = h /\ past \subseteq past' /\ past' \subseteq past \union {"edited"}
        /\ hooks.loading => "edited" \in past'
        /\ UNCHANGED <<screen, calls, timers, server>>
    BY DEF Change
  <1>3. Base' /\ Timed'
    BY <1>2 DEF Base, Pasts, Timed
  <1>4. \A k \in DOMAIN calls : TransferCall(calls[k], h, server, past')
    <2> TAKE k \in DOMAIN calls
    <2>1. TransferCall(calls[k], hooks, server, past) /\ Alike(calls[k], calls[k])
      BY <1>1, AlikeSelf DEF TransferGood, Base
    <2>2. "edited" \in past' \/ ~Does(calls[k], "transfer")
      BY <1>1, <1>2 DEF TransferGood, Working
    <2> QED BY <2>1, <2>2, TransferCallStays
  <1>5. TransferView(h, server, past')
    BY <1>1, <1>2 DEF TransferGood, TransferView
  <1>6. TransferGood(h, calls, server, past')
    BY <1>1, <1>4, <1>5 DEF TransferGood
  <1> QED BY <1>2, <1>3, <1>6 DEF TransferInv

\* The view changes and the request with it does not.
LEMMA TransferTurns ==
  ASSUME Base, Timed, TransferInv, screen = "transfer", NEW step \in {"form", "confirm"},
         Set([hooks EXCEPT !.step = step])
  PROVE  Base' /\ Timed' /\ screen' = "transfer" /\ TransferInv'
  <1>1. TransferGood(hooks, calls, server, past) /\ hooks \in TransferHooks
    BY DEF TransferInv, TransferGood, TransferView
  <1>2. hooks' = [hooks EXCEPT !.step = step] /\ UNCHANGED <<screen, calls, timers, server, past>>
    BY DEF Set
  <1>3. Base' /\ Timed'
    BY <1>2 DEF Base, Timed
  <1>4. /\ hooks' \in TransferHooks /\ hooks'.loading = hooks.loading
        /\ hooks'.accounts = hooks.accounts /\ hooks'.step # "success"
        /\ hooks'.tab = hooks.tab /\ hooks'.account = hooks.account
        /\ hooks'.to = hooks.to /\ hooks'.amount = hooks.amount
    BY <1>1, <1>2 DEF TransferHooks
  <1>5. TransferRequest(hooks') = TransferRequest(hooks)
    BY <1>4 DEF TransferRequest
  <1>6. \A k \in DOMAIN calls : TransferCall(calls[k], hooks', server, past)
    BY <1>1, <1>5, AlikeSelf, TransferCallStays DEF TransferGood, Base
  <1>7. TransferView(hooks', server, past)
    BY <1>1, <1>4 DEF TransferGood, TransferView
  <1>8. TransferGood(hooks', calls, server, past)
    BY <1>1, <1>4, <1>6, <1>7 DEF TransferGood
  <1> QED BY <1>2, <1>3, <1>8 DEF TransferInv

\* The screen opens with the form, and asks for the accounts.
LEMMA TransferOpens ==
  ASSUME Base, Timed, TransferInv, screen = "transfer", TransferMount
  PROVE  Base' /\ Timed' /\ screen' = "transfer" /\ TransferInv'
  <1> DEFINE c == Get("transferAccounts", "accounts")
  <1>1. TransferGood(hooks, calls, server, past)
    BY DEF TransferInv
  <1>2. Shape(c) /\ c.op = "transferAccounts" /\ c.resource = "accounts" /\ c.live /\ c.reply.status = "waiting"
    BY GetShape
  <1>3. MountWith("transfer", TransferState, <<c>>, <<>>)
    BY Zenon DEF TransferMount, Mount
  <1> HIDE DEF c
  <1>4. /\ "transfer" \in Home(c.op) /\ Job(c) \notin Writes /\ Job(c) # "transfer"
        /\ SameFamily(screen, "transfer")
    BY <1>2, HomeFacts DEF Job, Writes, SameFamily
  <1>5. /\ Base' /\ \E mid : Dropped(mid, calls) /\ Made(calls', mid, c)
        /\ screen' = "transfer" /\ hooks' = TransferState /\ timers' = <<>> /\ past' = {}
        /\ server' = server
    BY <1>2, <1>3, <1>4, OpenSends
  <1>6. PICK mid : Dropped(mid, calls) /\ Made(calls', mid, c)
    BY <1>5
  <1>7. ~Working(calls', "transfer")
    BY <1>4, <1>6 DEF Made, Dropped, Does
  <1>8. \A k \in DOMAIN calls' : TransferCall(calls'[k], TransferState, server, {})
    <2>1. \A k \in DOMAIN mid : TransferCall(mid[k], TransferState, server, {})
      BY <1>1, <1>6 DEF Dropped, TransferGood, TransferCall
    <2>2. TransferCall(c, TransferState, server, {})
      BY <1>2 DEF TransferCall
    <2> QED BY <1>6, <2>1, <2>2 DEF Made
  <1>9. TransferView(TransferState, server, {}) /\ ~TransferState.loading
    <2>1. TransferState \in TransferHooks
      BY DEF TransferState, TransferHooks, Offered, Tabs
    <2>2. TransferState.step = "form" /\ ~TransferState.loading /\ ~TransferState.accounts.demo
      BY DEF TransferState, Offered
    <2> QED BY <2>1, <2>2 DEF TransferView
  <1>10. TransferGood(TransferState, calls', server, {})
    BY <1>1, <1>7, <1>8, <1>9 DEF TransferGood
  <1>11. Timed'
    BY <1>5, NoTimers
  <1> QED BY <1>5, <1>10, <1>11 DEF TransferInv

\* A confirmed transfer is sent, and it is the only one.
LEMMA TransferSends ==
  ASSUME Base, Timed, TransferInv, screen = "transfer", TransferConfirm
  PROVE  Base' /\ Timed' /\ screen' = "transfer" /\ TransferInv'
  <1> DEFINE c == Post("transfer", TransferRequest(hooks))
  <1>1. TransferGood(hooks, calls, server, past) /\ hooks \in TransferHooks
    BY DEF TransferInv, TransferGood, TransferView
  <1>2. /\ Shape(c) /\ c.op = "transfer" /\ c.resource = "none" /\ c.live
        /\ c.reply.status = "waiting" /\ c.arg = TransferRequest(hooks)
    BY PostShape
  <1>3. /\ hooks' = [hooks EXCEPT !.loading = TRUE, !.msg = "none"]
        /\ Send(<<c>>) /\ past' = past \ {"edited"}
        /\ UNCHANGED <<screen, timers, server>>
    BY Zenon DEF TransferConfirm
  <1>4. ~hooks.loading /\ hooks.step = "confirm"
    BY <1>1 DEF TransferConfirm, Offers, TransferControls, TransferHooks
  <1> HIDE DEF c
  <1>5. screen \in Home(c.op) /\ Job(c) = "transfer" /\ Does(c, "transfer")
    BY <1>2, HomeFacts DEF Job, Does
  <1>6. past' \subseteq Pasts
    BY <1>3 DEF Base
  <1>7. ~Working(calls, "transfer")
    BY <1>1, <1>4 DEF TransferGood
  <1>8. Base' /\ Made(calls', calls, c)
    BY <1>2, <1>3, <1>5, <1>6, <1>7, SendOne
  <1>9. /\ hooks' \in TransferHooks /\ hooks'.loading
        /\ hooks'.accounts = hooks.accounts /\ hooks'.step # "success"
        /\ hooks'.tab = hooks.tab /\ hooks'.account = hooks.account
        /\ hooks'.to = hooks.to /\ hooks'.amount = hooks.amount
    BY <1>1, <1>3, <1>4 DEF TransferHooks
  <1>10. TransferRequest(hooks') = TransferRequest(hooks)
    BY <1>9 DEF TransferRequest
  <1>11. \A k \in DOMAIN calls' : TransferCall(calls'[k], hooks', server, past')
    <2>1. TransferCall(c, hooks', server, past')
      BY <1>2, <1>10 DEF TransferCall
    <2>2. \A k \in DOMAIN calls : ~Does(calls[k], "transfer")
      BY <1>7 DEF Working
    <2>3. \A k \in DOMAIN calls : TransferCall(calls[k], hooks', server, past')
      BY <1>1, <2>2, AlikeSelf, TransferCallStays DEF TransferGood, Base
    <2> QED BY <1>8, <2>1, <2>3 DEF Made
  <1>12. TransferView(hooks', server, past')
    BY <1>1, <1>3, <1>9 DEF TransferGood, TransferView
  <1>13. Working(calls', "transfer")
    BY <1>5, <1>8 DEF Made
  <1>14. TransferGood(hooks', calls', server, past')
    BY <1>1, <1>9, <1>11, <1>12, <1>13 DEF TransferGood
  <1> QED BY <1>3, <1>8, <1>14 DEF TransferInv, Timed

\* The accounts come, or the demo ones where they could not be fetched.
LEMMA TransferLists ==
  ASSUME Base, Timed, TransferInv, screen = "transfer", NEW i \in DOMAIN calls, TransferAccounts(i)
  PROVE  Base' /\ Timed' /\ screen' = "transfer" /\ TransferInv'
  <1> DEFINE h == [hooks EXCEPT !.accounts = Listed(calls[i].reply)]
  <1>1. TransferGood(hooks, calls, server, past) /\ hooks \in TransferHooks
    BY DEF TransferInv, TransferGood, TransferView
  <1>2. /\ calls[i].op = "transferAccounts" /\ calls[i].reply.status # "waiting"
        /\ Resolve(i, h, <<>>) /\ timers' = timers
    BY DEF TransferAccounts, Unanswered
  <1>3. Base' /\ Ended(calls', calls, i) /\ Settled(i, h)
    BY <1>2, ResolveEnds
  <1>4. TransferCall(calls[i], hooks, server, past)
    BY <1>1 DEF TransferGood
  <1>5. LET l == Listed(calls[i].reply) IN
        /\ l \in [ids : {{}, Accounts, DemoAccounts}, demo : BOOLEAN]
        /\ l.demo /\ calls[i].reply.status = "ok" => DOMAIN server.accounts = {}
    <2>1. CASE calls[i].reply.status = "ok" /\ calls[i].reply.value # <<>>
      BY <1>1, <1>2, <1>4, <2>1 DEF Listed, Offered, TransferCall, TransferGood, TransferServer
    <2>2. CASE calls[i].reply.status = "ok" /\ calls[i].reply.value = <<>>
      BY <1>2, <1>4, <2>2 DEF Listed, Offered, TransferCall
    <2>3. CASE calls[i].reply.status # "ok"
      BY <2>3 DEF Listed, Offered
    <2> QED BY <2>1, <2>2, <2>3
  <1>6. /\ h \in TransferHooks /\ h.loading = hooks.loading /\ h.step = hooks.step
        /\ h.accounts = Listed(calls[i].reply)
        /\ h.tab = hooks.tab /\ h.account = hooks.account
        /\ h.to = hooks.to /\ h.amount = hooks.amount
    <2> DEFINE l == Listed(calls[i].reply)
    <2>1. l \in [ids : {{}, Accounts, DemoAccounts}, demo : BOOLEAN]
      BY <1>5
    <2> HIDE DEF l
    <2>2. h = [hooks EXCEPT !.accounts = l]
      BY DEF l
    <2> HIDE DEF h
    <2>3. l = Listed(calls[i].reply)
      BY DEF l
    <2> QED BY <1>1, <2>1, <2>2, <2>3 DEF TransferHooks
  <1> HIDE DEF h
  <1>7. TransferRequest(h) = TransferRequest(hooks)
    BY <1>6 DEF TransferRequest
  <1>8. calls[i].reply.status \in {"ok", "failed"}
    BY <1>2 DEF Base, Shaped, Shape
  <1>9. TransferView(hooks', server, past')
    BY <1>1, <1>3, <1>5, <1>6, <1>7, <1>8 DEF TransferGood, TransferView, Settled
  <1>10. TransferRequest(hooks') = TransferRequest(hooks) /\ hooks'.loading = hooks.loading /\ past \subseteq past'
    BY <1>3, <1>6, <1>7 DEF Settled
  <1>11. \A k \in DOMAIN calls' : TransferCall(calls'[k], hooks', server, past')
    BY <1>1, <1>3, <1>10, TransferCallStays DEF TransferGood, Ended
  <1>12. Working(calls', "transfer") <=> Working(calls, "transfer")
    BY <1>2, <1>3 DEF Ended, Does, Job
  <1>13. TransferGood(hooks', calls', server, past')
    BY <1>1, <1>9, <1>10, <1>11, <1>12 DEF TransferGood
  <1> QED BY <1>2, <1>3, <1>13 DEF TransferInv, Settled, Timed

\* The answer of a transfer ends it, and its success names what was posted.
LEMMA TransferEnds ==
  ASSUME Base, Timed, TransferInv, screen = "transfer", NEW i \in DOMAIN calls, TransferDone(i)
  PROVE  Base' /\ Timed' /\ screen' = "transfer" /\ TransferInv'
  <1>1. TransferGood(hooks, calls, server, past) /\ hooks \in TransferHooks
    BY DEF TransferInv, TransferGood, TransferView
  <1>2. calls[i].op = "transfer" /\ timers' = timers
    BY DEF TransferDone, Back
  <1>3. PICK h :
          /\ Resolve(i, h, <<>>)
          /\ h \in TransferHooks /\ ~h.loading /\ h.accounts = hooks.accounts
          /\ h.tab = hooks.tab /\ h.account = hooks.account
          /\ h.to = hooks.to /\ h.amount = hooks.amount
          /\ h.step = "success" => calls[i].reply.status = "ok"
    <2>1. CASE Back(i, "transfer", "ok") /\ Resolve(i, [hooks EXCEPT !.step = "success", !.loading = FALSE], <<>>)
      <3> DEFINE h == [hooks EXCEPT !.step = "success", !.loading = FALSE]
      <3>1. /\ h \in TransferHooks /\ ~h.loading /\ h.accounts = hooks.accounts
            /\ h.tab = hooks.tab /\ h.account = hooks.account
            /\ h.to = hooks.to /\ h.amount = hooks.amount
        BY <1>1 DEF TransferHooks
      <3>2. calls[i].reply.status = "ok" /\ Resolve(i, h, <<>>)
        BY <2>1 DEF Back
      <3> HIDE DEF h
      <3> QED BY <3>1, <3>2
    <2>2. CASE /\ Back(i, "transfer", "failed")
               /\ Resolve(i, [hooks EXCEPT !.step = "form", !.loading = FALSE, !.msg = "error"], <<>>)
      <3> DEFINE h == [hooks EXCEPT !.step = "form", !.loading = FALSE, !.msg = "error"]
      <3>1. /\ h \in TransferHooks /\ ~h.loading /\ h.accounts = hooks.accounts
            /\ h.tab = hooks.tab /\ h.account = hooks.account
            /\ h.to = hooks.to /\ h.amount = hooks.amount /\ h.step = "form"
        BY <1>1 DEF TransferHooks
      <3>2. Resolve(i, h, <<>>)
        BY <2>2
      <3> HIDE DEF h
      <3> QED BY <3>1, <3>2
    <2> QED BY <2>1, <2>2 DEF TransferDone
  <1>4. Base' /\ Ended(calls', calls, i) /\ Settled(i, h)
    BY <1>3, ResolveEnds
  <1>5. TransferCall(calls[i], hooks, server, past)
    BY <1>1 DEF TransferGood
  <1>6. TransferRequest(h) = TransferRequest(hooks)
    BY <1>3 DEF TransferRequest
  <1>7. TransferRequest(hooks') = TransferRequest(hooks) /\ past \subseteq past' /\ server' = server
    BY <1>4, <1>6 DEF Settled
  <1>8. calls[i].live /\ h.step = "success" =>
          /\ DOMAIN server.accounts # {}
          /\ "edited" \notin past => InLedger(TransferRequest(h), server)
    BY <1>1, <1>2, <1>3, <1>5, <1>6 DEF TransferCall, TransferGood, TransferServer, InLedger
  <1>9. TransferView(hooks', server, past')
    <2>1. CASE calls[i].live
      BY <1>1, <1>3, <1>4, <1>8, <2>1 DEF TransferGood, TransferView, Settled
    <2>2. CASE ~calls[i].live
      BY <1>1, <1>4, <2>2 DEF TransferGood, TransferView, Settled
    <2> QED BY <2>1, <2>2
  <1>10. \A k \in DOMAIN calls' : TransferCall(calls'[k], hooks', server, past')
    BY <1>1, <1>4, <1>7, TransferCallStays DEF TransferGood, Ended
  <1>11. hooks'.loading <=> Working(calls', "transfer")
    <2>1. CASE calls[i].live
      <3>1. Does(calls[i], "transfer") /\ Alone(calls, "transfer")
        BY <1>2, <2>1 DEF Does, Job, Base, AloneAll, Writes
      <3> QED BY <1>3, <1>4, <2>1, <3>1 DEF Ended, Settled
    <2>2. CASE ~calls[i].live
      BY <1>1, <1>4, <2>2 DEF Ended, Settled, Does, TransferGood
    <2> QED BY <2>1, <2>2
  <1>12. TransferGood(hooks', calls', server, past')
    BY <1>1, <1>9, <1>10, <1>11 DEF TransferGood
  <1> QED BY <1>2, <1>4, <1>12 DEF TransferInv, Settled, Timed

\* What the ledger held it holds.
Records(new, rows, b, r) ==
  /\ BankRecord(new) /\ new.accounts = b
  /\ DOMAIN new.ledger = DOMAIN rows.ledger \union {Len(rows.ledger) + 1}
  /\ \A k \in DOMAIN rows.ledger : new.ledger[k] = rows.ledger[k]
  /\ new.ledger[Len(rows.ledger) + 1] = r

\* An entry appended to the ledger leaves the earlier ones in place.
LEMMA LedgerGrows ==
  ASSUME NEW rows, NEW r, NEW b, BankRecord(rows)
  PROVE  Records([rows EXCEPT !.accounts = b, !.ledger = Append(rows.ledger, r)], rows, b, r)
  <1> DEFINE l == Append(rows.ledger, r)
             new == [rows EXCEPT !.accounts = b, !.ledger = l]
  <1>1. /\ IsSequence(l)
        /\ DOMAIN l = DOMAIN rows.ledger \union {Len(rows.ledger) + 1}
        /\ \A k \in DOMAIN rows.ledger : l[k] = rows.ledger[k]
        /\ l[Len(rows.ledger) + 1] = r
    BY AppendFacts DEF BankRecord
  <1> HIDE DEF l
  <1>2. new.ledger = l /\ new.accounts = b /\ new \in [accounts : {b}, ledger : {l}, staff : BOOLEAN]
    BY DEF BankRecord
  <1> HIDE DEF new
  <1>3. Records(new, rows, b, r)
    BY <1>1, <1>2 DEF Records, BankRecord
  <1> QED BY <1>3 DEF new, l

\* The back end posts a transfer, and what the screen shows stays true.
LEMMA TransferPosts ==
  ASSUME Base, Timed, TransferInv, screen = "transfer", NEW i \in DOMAIN calls,
         BankPosts(i, "transfer", MaxPosted)
  PROVE  Base' /\ Timed' /\ screen' = "transfer" /\ TransferInv'
  <1> DEFINE r == calls[i].arg
             b == Posted(server.accounts, r)
             rows == [server EXCEPT !.accounts = b, !.ledger = Append(server.ledger, r)]
             v == [id |-> Len(server.ledger) + 1, request |-> r]
  <1>1. TransferGood(hooks, calls, server, past)
    BY DEF TransferInv
  <1>2. /\ Write(i, "transfer", rows, v) /\ Covered(server.accounts, r)
    BY DEF BankPosts
  <1>3. DOMAIN b = DOMAIN server.accounts
    BY DEF Posted
  <1>4. DOMAIN server.accounts # {}
    BY <1>2 DEF Covered
  <1> HIDE DEF b, v, r
  <1>5. Records(rows, server, b, r)
    BY <1>1, LedgerGrows, Zenon DEF TransferGood, TransferServer
  <1> HIDE DEF rows
  <1>6. TransferServer(rows)
    BY <1>1, <1>3, <1>4, <1>5 DEF TransferServer, TransferGood, Records
  <1>7. InLedger(r, rows) /\ \A q : InLedger(q, server) => InLedger(q, rows)
    BY <1>1, <1>5 DEF InLedger, Records, TransferGood, TransferServer, BankRecord, IsSequence
  <1>8. /\ Base' /\ Answered(calls', calls, i, Ok(v))
        /\ calls[i].op = "transfer" /\ Unanswered(i) /\ server' = rows
        /\ UNCHANGED <<screen, hooks, timers>>
        /\ past \subseteq past' /\ past' \subseteq past \union {"outlived"}
    BY <1>2, WriteOne
  <1>9. TransferView(hooks, rows, past')
    BY <1>1, <1>3, <1>4, <1>5, <1>7, <1>8 DEF TransferGood, TransferView, Records
  <1>10. \A k \in DOMAIN calls' : TransferCall(calls'[k], hooks, rows, past')
    <2>1. \A k \in DOMAIN calls \ {i} : TransferCall(calls[k], hooks, rows, past')
      BY <1>1, <1>3, <1>5, <1>7, <1>8 DEF TransferGood, TransferCall, Records
    <2>2. TransferCall(calls'[i], hooks, rows, past')
      BY <1>1, <1>7, <1>8 DEF TransferGood, TransferCall, Answered, r
    <2> QED BY <1>8, <2>1, <2>2 DEF Answered
  <1>11. hooks.loading <=> Working(calls', "transfer")
    BY <1>1, <1>8 DEF TransferGood, Answered
  <1>12. TransferGood(hooks, calls', rows, past')
    BY <1>6, <1>9, <1>10, <1>11 DEF TransferGood
  <1> QED BY <1>8, <1>12 DEF TransferInv, Timed

\* The user types into the form.
FormChanges ==
  \E h \in TransferHooks :
    Change(h) /\ h.loading = hooks.loading /\ h.accounts = hooks.accounts /\ h.step # "success"

\* Every step of Transfer keeps its invariant.
LEMMA TransferKeeps ==
  ASSUME Base, Timed, TransferInv, screen = "transfer", TransferNext
  PROVE  Base' /\ Timed' /\ screen' = "transfer" /\ TransferInv'
  <1>1. hooks \in TransferHooks
    BY DEF TransferInv, TransferGood, TransferView
  <1>2. ASSUME NEW t \in Tabs, TransferTab(t)
        PROVE  Base' /\ Timed' /\ screen' = "transfer" /\ TransferInv'
    <2> DEFINE h == [TransferReset(hooks) EXCEPT !.tab = t]
    <2>1. Change(h)
      BY <1>2 DEF TransferTab
    <2>2. h \in TransferHooks /\ h.loading = hooks.loading /\ h.accounts = hooks.accounts /\ h.step # "success"
      BY <1>1 DEF TransferReset, TransferHooks
    <2> HIDE DEF h
    <2> QED BY <2>1, <2>2, TransferChange
  <1>3. CASE TransferInput
    <2>1. hooks.step = "form"
      BY <1>1, <1>3 DEF TransferInput, Offers, TransferControls, TransferHooks
    <2>2. hooks.accounts.ids \subseteq Accounts \union DemoAccounts
      BY <1>1 DEF TransferHooks
    <2>3. FormChanges
      <3>1. ASSUME NEW a \in hooks.accounts.ids, Change([hooks EXCEPT !.account = a])
            PROVE  FormChanges
        <4> DEFINE h == [hooks EXCEPT !.account = a]
        <4>1. h \in TransferHooks /\ h.loading = hooks.loading /\ h.accounts = hooks.accounts /\ h.step # "success"
          BY <1>1, <2>1, <2>2 DEF TransferHooks
        <4>2. Change(h)
          BY <3>1
        <4> HIDE DEF h
        <4> QED BY <4>1, <4>2 DEF FormChanges
      <3>2. ASSUME NEW a \in hooks.accounts.ids, Change([hooks EXCEPT !.to = a])
            PROVE  FormChanges
        <4> DEFINE h == [hooks EXCEPT !.to = a]
        <4>1. h \in TransferHooks /\ h.loading = hooks.loading /\ h.accounts = hooks.accounts /\ h.step # "success"
          BY <1>1, <2>1, <2>2 DEF TransferHooks
        <4>2. Change(h)
          BY <3>2
        <4> HIDE DEF h
        <4> QED BY <4>1, <4>2 DEF FormChanges
      <3>3. ASSUME NEW n \in Amounts, Change([hooks EXCEPT !.amount = n])
            PROVE  FormChanges
        <4> DEFINE h == [hooks EXCEPT !.amount = n]
        <4>1. h \in TransferHooks /\ h.loading = hooks.loading /\ h.accounts = hooks.accounts /\ h.step # "success"
          BY <1>1, <2>1 DEF TransferHooks
        <4>2. Change(h)
          BY <3>3
        <4> HIDE DEF h
        <4> QED BY <4>1, <4>2 DEF FormChanges
      <3> QED BY <1>3, <3>1, <3>2, <3>3 DEF TransferInput
    <2> QED BY <2>3, TransferChange DEF FormChanges
  <1>4. CASE TransferReview
    BY <1>4, TransferTurns DEF TransferReview
  <1>5. CASE TransferBack
    BY <1>5, TransferTurns DEF TransferBack
  <1>6. CASE TransferNew
    <2> DEFINE h == TransferReset(hooks)
    <2>1. Change(h)
      BY <1>6 DEF TransferNew
    <2>2. h \in TransferHooks /\ h.loading = hooks.loading /\ h.accounts = hooks.accounts /\ h.step # "success"
      BY <1>1 DEF TransferReset, TransferHooks
    <2> HIDE DEF h
    <2> QED BY <2>1, <2>2, TransferChange
  <1> QED BY <1>2, <1>3, <1>4, <1>5, <1>6, TransferOpens, TransferSends, TransferLists,
             TransferEnds, TransferPosts DEF TransferNext

(* FirstTransaction and TransactionLifecycle *)

\* A receipt is an entry of the ledger.
Receipted(r, rows) == r.id \in DOMAIN rows.ledger /\ rows.ledger[r.id] = r.request

\* Live calls are those of the screen, and a post that succeeded is in the ledger.
FirstCall(c, s, rows) ==
  /\ c.live /\ c.op \in {"firstAccounts", "first"} => s = "first"
  /\ c.live /\ c.op = "lifecycle" => s = "lifecycle"
  /\ c.op = "first" =>
       /\ c.resource = "none"
       /\ c.reply.status = "ok" => Receipted(c.reply.value, rows)

\* FirstTransaction waits for calls in flight only, and its receipt is an entry of the ledger.
FirstView(h, cs, rows) ==
  /\ {"accounts", "tab", "account", "amount", "loading", "loadingAccounts", "receipt", "error",
      "showConfetti"} \subseteq DOMAIN h
  /\ h.loading \in BOOLEAN
  /\ h.loading <=> Working(cs, "first")
  /\ h.loadingAccounts => Working(cs, "firstAccounts")
  /\ h.receipt # NoReceipt => Receipted(h.receipt, rows)

\* TransactionLifecycle waits for its call.
LifecycleFields(h, cs) ==
  /\ {"tx", "data", "loading", "error", "activeStage"} \subseteq DOMAIN h
  /\ h.loading => Working(cs, "lifecycle")

\* The invariant of the two, who open each other.
FirstGood(s, h, cs, rows) ==
  /\ BankRecord(rows)
  /\ s = "first" => FirstView(h, cs, rows)
  /\ s = "lifecycle" => LifecycleFields(h, cs)
  /\ \A k \in DOMAIN cs : FirstCall(cs[k], s, rows)

\* Which screens these are, and their invariant.
FirstScreens == {"first", "lifecycle"}

FirstInv ==
  screen \in FirstScreens =>
    /\ FirstGood(screen, hooks, calls, server)
    /\ screen = "first" /\ hooks.showConfetti => Pending("confetti")

FirstCases == Base' /\ Timed' /\ screen' \in FirstScreens /\ FirstInv'

\* Being overtaken takes nothing from a call.
LEMMA FirstCallStays ==
  ASSUME NEW c, NEW d, NEW s, NEW rows, FirstCall(c, s, rows), Alike(d, c)
  PROVE  FirstCall(d, s, rows)
  BY DEF FirstCall, Alike

\* A handler of FirstTransaction that sends nothing.
LEMMA FirstSets ==
  ASSUME Base, Timed, FirstInv, screen = "first", NEW h, Set(h),
         DOMAIN h = DOMAIN hooks, h.loading = hooks.loading, h.loadingAccounts = hooks.loadingAccounts,
         h.receipt = hooks.receipt, h.showConfetti = hooks.showConfetti
  PROVE  FirstCases
  <1>1. FirstGood(screen, hooks, calls, server) /\ FirstView(hooks, calls, server)
    BY DEF FirstInv, FirstScreens, FirstGood
  <1>2. hooks' = h /\ UNCHANGED <<screen, calls, timers, server, past>>
    BY DEF Set
  <1>3. Base' /\ Timed'
    BY <1>2 DEF Base, Timed
  <1>4. FirstView(h, calls, server)
    BY <1>1 DEF FirstView
  <1>5. FirstGood("first", h, calls, server)
    BY <1>1, <1>4 DEF FirstGood
  <1>6. h.showConfetti => Pending("confetti")'
    BY <1>2 DEF FirstInv, FirstScreens, Pending
  <1> QED BY <1>2, <1>3, <1>5, <1>6 DEF FirstCases, FirstInv, FirstScreens

\* A screen of the two is opened.
LEMMA FirstOpens ==
  ASSUME Base, FirstInv, screen \in FirstScreens, NEW s \in FirstScreens, NEW h, NEW c,
         Mount(s, h, <<c>>), Shape(c), c.op \in {"firstAccounts", "lifecycle"}, c.live,
         c.reply.status = "waiting", c.op = "lifecycle" <=> s = "lifecycle",
         s = "first" => h = FirstState,
         s = "lifecycle" => {"tx", "data", "loading", "error", "activeStage"} \subseteq DOMAIN h
  PROVE  FirstCases
  <1>1. FirstGood(screen, hooks, calls, server)
    BY DEF FirstInv
  <1>2. s \in Home(c.op) /\ Job(c) = c.op /\ Job(c) \notin Writes /\ SameFamily(screen, s)
    <2>1. s \in Home(c.op) /\ Job(c) = c.op /\ Job(c) \notin Writes
      BY HomeFacts DEF FirstScreens, Job, Writes
    <2>2. SameFamily(screen, s)
      BY DEF SameFamily, Home, FirstScreens, FlagWrites, AdminLists
    <2> QED BY <2>1, <2>2
  <1>3. MountWith(s, h, <<c>>, <<>>)
    BY Zenon DEF Mount
  <1>4. /\ Base' /\ \E mid : Dropped(mid, calls) /\ Made(calls', mid, c)
        /\ screen' = s /\ hooks' = h /\ timers' = <<>> /\ past' = {} /\ server' = server
    BY <1>2, <1>3, OpenSends
  <1>5. PICK mid : Dropped(mid, calls) /\ Made(calls', mid, c)
    BY <1>4
  <1>6. /\ Working(calls', c.op) /\ ~Working(calls', "first")
    BY <1>2, <1>5 DEF Made, Dropped, Does
  <1>7. \A k \in DOMAIN calls' : FirstCall(calls'[k], s, server)
    <2>1. \A k \in DOMAIN mid : FirstCall(mid[k], s, server)
      BY <1>1, <1>5 DEF Dropped, FirstGood, FirstCall
    <2>2. FirstCall(c, s, server)
      BY DEF FirstCall, FirstScreens
    <2> QED BY <1>5, <2>1, <2>2 DEF Made
  <1>8. CASE s = "first"
    <2>1. FirstView(FirstState, calls', server) /\ ~FirstState.showConfetti
      BY <1>6, <1>8 DEF FirstView, FirstState
    <2>2. FirstGood("first", FirstState, calls', server)
      BY <1>1, <1>7, <1>8, <2>1 DEF FirstGood
    <2> QED BY <1>4, <1>8, <2>1, <2>2, NoTimers DEF FirstCases, FirstInv, FirstScreens
  <1>9. CASE s = "lifecycle"
    <2>1. LifecycleFields(h, calls')
      BY <1>6, <1>9 DEF LifecycleFields
    <2>2. FirstGood("lifecycle", h, calls', server)
      BY <1>1, <1>7, <1>9, <2>1 DEF FirstGood
    <2> QED BY <1>4, <1>9, <2>2, NoTimers DEF FirstCases, FirstInv, FirstScreens
  <1> QED BY <1>8, <1>9 DEF FirstScreens

\* FirstTransaction opens, and asks for the accounts.
LEMMA FirstMounts ==
  ASSUME Base, FirstInv, screen \in FirstScreens, FirstMount PROVE FirstCases
  <1> DEFINE c == Get("firstAccounts", "accounts")
  <1>1. Shape(c) /\ c.op = "firstAccounts" /\ c.live /\ c.reply.status = "waiting"
    BY GetShape
  <1>2. Mount("first", FirstState, <<c>>)
    BY Zenon DEF FirstMount
  <1> HIDE DEF c
  <1> QED BY <1>1, <1>2, FirstOpens DEF FirstScreens

\* TransactionLifecycle opens, and asks for the transaction.
LEMMA LifecycleMounts ==
  ASSUME Base, FirstInv, screen \in FirstScreens, NEW tx,
         Mount("lifecycle", LifecycleState(tx), LifecycleFetch(tx))
  PROVE  FirstCases
  <1> DEFINE c == Post("lifecycle", tx)
             h == LifecycleState(tx)
  <1>1. Shape(c) /\ c.op = "lifecycle" /\ c.live /\ c.reply.status = "waiting"
    BY PostShape
  <1>2. Mount("lifecycle", h, <<c>>)
    BY Zenon DEF LifecycleFetch
  <1>3. {"tx", "data", "loading", "error", "activeStage"} \subseteq DOMAIN h
    BY DEF LifecycleState
  <1> HIDE DEF c, h
  <1> QED BY <1>1, <1>2, <1>3, FirstOpens DEF FirstScreens

\* TransactionLifecycle opens with nothing to ask for.
LEMMA LifecycleMountsNone ==
  ASSUME Base, FirstInv, screen = "lifecycle", LifecycleNone PROVE FirstCases
  <1> DEFINE h == [LifecycleState(0) EXCEPT !.loading = FALSE, !.error = TRUE]
  <1>1. FirstGood(screen, hooks, calls, server)
    BY DEF FirstInv, FirstScreens
  <1>2. MountWith("lifecycle", h, <<>>, <<>>)
    BY Zenon DEF LifecycleNone, Mount
  <1>3. ~h.loading /\ {"tx", "data", "loading", "error", "activeStage"} \subseteq DOMAIN h
    BY DEF LifecycleState
  <1> HIDE DEF h
  <1>4. SameFamily(screen, "lifecycle")
    BY DEF SameFamily
  <1>5. /\ Base' /\ Dropped(calls', calls)
        /\ screen' = "lifecycle" /\ hooks' = h /\ timers' = <<>> /\ past' = {} /\ server' = server
    BY <1>2, <1>4, OpenQuiet
  <1>6. \A k \in DOMAIN calls' : FirstCall(calls'[k], "lifecycle", server)
    BY <1>1, <1>5 DEF Dropped, FirstGood, FirstCall
  <1>7. FirstGood("lifecycle", h, calls', server)
    BY <1>1, <1>3, <1>6 DEF FirstGood, LifecycleFields
  <1> QED BY <1>5, <1>7, NoTimers DEF FirstCases, FirstInv, FirstScreens

\* What a call that has come back sets.
LEMMA FirstSettles ==
  ASSUME Base, Timed', FirstInv, screen \in FirstScreens, NEW i \in DOMAIN calls, NEW h,
         Resolve(i, h, <<>>), calls[i].op \in {"firstAccounts", "first", "lifecycle"},
         screen = "first" =>
           /\ DOMAIN h = DOMAIN hooks /\ h.loading \in BOOLEAN
           /\ h.loading <=> hooks.loading /\ calls[i].op # "first"
           /\ h.loadingAccounts => hooks.loadingAccounts /\ calls[i].op # "firstAccounts"
           /\ h.receipt # NoReceipt => Receipted(h.receipt, server),
         screen = "lifecycle" =>
           /\ DOMAIN h = DOMAIN hooks
           /\ h.loading => hooks.loading /\ calls[i].op # "lifecycle",
         screen = "first" /\ hooks'.showConfetti => Pending("confetti")'
  PROVE  FirstCases
  <1>1. FirstGood(screen, hooks, calls, server)
    BY DEF FirstInv
  <1>2. Base' /\ Ended(calls', calls, i) /\ Settled(i, h)
    BY ResolveEnds
  <1>3. \A k \in DOMAIN calls' : FirstCall(calls'[k], screen, server)
    BY <1>1, <1>2, FirstCallStays DEF Ended, FirstGood
  <1>4. Job(calls[i]) = calls[i].op
    BY DEF Job
  <1>5. CASE screen = "first"
    <2>1. FirstView(hooks, calls, server) /\ Alone(calls, "first")
      BY <1>1, <1>5 DEF FirstGood, Base, AloneAll, Writes
    <2>2. CASE calls[i].live
      <3>1. hooks' = h
        BY <1>2, <2>2 DEF Settled
      <3>2. h.loading <=> Working(calls', "first")
        BY <1>2, <1>4, <1>5, <2>1, <2>2 DEF Ended, FirstView, Does
      <3>3. h.loadingAccounts => Working(calls', "firstAccounts")
        BY <1>2, <1>4, <1>5, <2>1 DEF Ended, FirstView, Does
      <3>4. FirstView(hooks', calls', server)
        BY <1>5, <2>1, <3>1, <3>2, <3>3 DEF FirstView
      <3> QED BY <1>1, <1>2, <1>3, <1>5, <3>4 DEF FirstGood, FirstCases, FirstInv, FirstScreens, Settled
    <2>3. CASE ~calls[i].live
      <3>1. hooks' = hooks
        BY <1>2, <2>3 DEF Settled
      <3>2. \A job : Working(calls', job) <=> Working(calls, job)
        BY <1>2, <2>3 DEF Ended, Does
      <3>3. FirstView(hooks', calls', server)
        BY <2>1, <3>1, <3>2 DEF FirstView
      <3> QED BY <1>1, <1>2, <1>3, <1>5, <3>3 DEF FirstGood, FirstCases, FirstInv, FirstScreens, Settled
    <2> QED BY <2>2, <2>3
  <1>6. CASE screen = "lifecycle"
    <2>1. LifecycleFields(hooks, calls)
      BY <1>1, <1>6 DEF FirstGood
    <2>2. LifecycleFields(hooks', calls')
      BY <1>2, <1>4, <1>6, <2>1 DEF Settled, Ended, LifecycleFields, Does
    <2> QED BY <1>1, <1>2, <1>3, <1>6, <2>2 DEF FirstGood, FirstCases, FirstInv, FirstScreens, Settled
  <1> QED BY <1>5, <1>6 DEF FirstScreens

\* A handler that sends a call.
LEMMA FirstSends ==
  ASSUME Base, Timed, FirstInv, screen \in FirstScreens, NEW h, NEW c, SetAndSend(h, <<c>>),
         Shape(c), c.live, c.reply.status = "waiting", c.resource = "none" \/ c.op # "first",
         c.op \in {"firstAccounts", "first", "lifecycle"}, c.op = "lifecycle" <=> screen = "lifecycle",
         screen = "first" =>
           /\ DOMAIN h = DOMAIN hooks /\ h.loading \in BOOLEAN
           /\ h.loading <=> hooks.loading \/ c.op = "first"
           /\ c.op = "first" => ~hooks.loading
           /\ h.loadingAccounts = hooks.loadingAccounts
           /\ h.receipt \in {hooks.receipt, NoReceipt} /\ h.showConfetti = hooks.showConfetti,
         screen = "lifecycle" => DOMAIN h = DOMAIN hooks /\ h.loading = hooks.loading
  PROVE  FirstCases
  <1>1. FirstGood(screen, hooks, calls, server)
    BY DEF FirstInv
  <1>2. hooks' = h /\ Send(<<c>>) /\ UNCHANGED <<screen, timers, server, past>>
    BY Zenon DEF SetAndSend
  <1>3. screen \in Home(c.op) /\ Job(c) = c.op
    BY HomeFacts DEF Job, FirstScreens
  <1>4. Job(c) \in Writes => ~Working(calls, Job(c))
    BY <1>1, <1>3 DEF FirstGood, FirstView, FirstScreens, Writes
  <1>5. past' \subseteq Pasts
    BY <1>2 DEF Base
  <1>6. Base' /\ Made(calls', calls, c)
    BY <1>2, <1>3, <1>4, <1>5, SendOne
  <1>7. \A k \in DOMAIN calls' : FirstCall(calls'[k], screen, server)
    <2>1. FirstCall(c, screen, server)
      BY DEF FirstCall, FirstScreens
    <2> QED BY <1>1, <1>6, <2>1 DEF Made, FirstGood
  <1>8. CASE screen = "first"
    <2>1. FirstView(hooks, calls, server)
      BY <1>1, <1>8 DEF FirstGood
    <2>2. h.loading <=> Working(calls', "first")
      BY <1>3, <1>6, <1>8, <2>1 DEF FirstView, Made, Does
    <2>3. FirstView(h, calls', server)
      BY <1>6, <1>8, <2>1, <2>2 DEF FirstView, Made
    <2>4. h.showConfetti => Pending("confetti")'
      BY <1>2, <1>8 DEF FirstInv, FirstScreens, Pending
    <2> QED BY <1>1, <1>2, <1>6, <1>7, <1>8, <2>3, <2>4 DEF FirstGood, FirstCases, FirstInv, FirstScreens, Timed
  <1>9. CASE screen = "lifecycle"
    <2>1. LifecycleFields(h, calls')
      BY <1>1, <1>6, <1>9 DEF FirstGood, LifecycleFields, Made
    <2> QED BY <1>1, <1>2, <1>6, <1>7, <1>9, <2>1 DEF FirstGood, FirstCases, FirstInv, FirstScreens, Timed
  <1> QED BY <1>8, <1>9 DEF FirstScreens

\* The server writes what a receipt may name.
LEMMA FirstPosts ==
  ASSUME Base, Timed, FirstInv, screen \in FirstScreens, NEW i \in DOMAIN calls,
         BankPosts(i, "first", MaxReceipts)
  PROVE  FirstCases
  <1> DEFINE r == calls[i].arg
             b == Posted(server.accounts, r)
             rows == [server EXCEPT !.accounts = b, !.ledger = Append(server.ledger, r)]
             v == [id |-> Len(server.ledger) + 1, request |-> r]
  <1>1. FirstGood(screen, hooks, calls, server)
    BY DEF FirstInv
  <1>2. Write(i, "first", rows, v)
    BY DEF BankPosts
  <1>3. v.id = Len(server.ledger) + 1 /\ v.request = r
    OBVIOUS
  <1> HIDE DEF b, v, r
  <1>4. Records(rows, server, b, r)
    BY <1>1, LedgerGrows, Zenon DEF FirstGood
  <1> HIDE DEF rows
  <1>5. Receipted(v, rows) /\ \A q : Receipted(q, server) => Receipted(q, rows)
    BY <1>1, <1>3, <1>4 DEF Receipted, Records, FirstGood, BankRecord, IsSequence
  <1>6. /\ Base' /\ Answered(calls', calls, i, Ok(v))
        /\ calls[i].op = "first" /\ Unanswered(i) /\ server' = rows
        /\ UNCHANGED <<screen, hooks, timers>>
    BY <1>2, WriteOne
  <1>7. Ok(v).value = v
    BY DEF Ok
  <1>8. \A k \in DOMAIN calls' : FirstCall(calls'[k], screen, rows)
    <2>1. \A k \in DOMAIN calls \ {i} : FirstCall(calls[k], screen, rows)
      BY <1>1, <1>5 DEF FirstGood, FirstCall
    <2>2. FirstCall(calls'[i], screen, rows)
      BY <1>1, <1>5, <1>6, <1>7 DEF FirstGood, FirstCall, Answered
    <2> QED BY <1>6, <2>1, <2>2 DEF Answered
  <1>9. screen = "first" => FirstView(hooks, calls', rows)
    BY <1>1, <1>5, <1>6 DEF FirstGood, FirstView, Answered
  <1>10. screen = "lifecycle" => LifecycleFields(hooks, calls')
    BY <1>1, <1>6 DEF FirstGood, LifecycleFields, Answered
  <1>11. FirstGood(screen, hooks, calls', rows)
    BY <1>4, <1>8, <1>9, <1>10 DEF FirstGood, Records
  <1> QED BY <1>6, <1>11 DEF FirstCases, FirstInv, Timed, Pending

\* The server answers a call in another way.
LEMMA FirstAnswers ==
  ASSUME Base, Base', Timed, FirstInv, screen \in FirstScreens, NEW i \in DOMAIN calls, NEW r,
         Answered(calls', calls, i, r), calls[i].op = "first" => r.status # "ok",
         UNCHANGED <<screen, hooks, timers, server>>
  PROVE  FirstCases
  <1>1. FirstGood(screen, hooks, calls, server)
    BY DEF FirstInv
  <1>2. \A k \in DOMAIN calls' : FirstCall(calls'[k], screen, server)
    BY <1>1 DEF FirstGood, FirstCall, Answered
  <1>3. screen = "first" => FirstView(hooks, calls', server)
    BY <1>1 DEF FirstGood, FirstView, Answered
  <1>4. screen = "lifecycle" => LifecycleFields(hooks, calls')
    BY <1>1 DEF FirstGood, LifecycleFields, Answered
  <1>5. FirstGood(screen, hooks, calls', server)
    BY <1>1, <1>2, <1>3, <1>4 DEF FirstGood
  <1> QED BY <1>5 DEF FirstCases, FirstInv, Timed, Pending

\* Every step of FirstTransaction and TransactionLifecycle keeps their invariant.
LEMMA FirstKeeps ==
  ASSUME Base, Timed, FirstInv, screen \in FirstScreens, FirstTransactionNext
  PROVE  FirstCases
  <1>1. FirstGood(screen, hooks, calls, server)
    BY DEF FirstInv
  <1>2. screen = "first" => FirstView(hooks, calls, server)
    BY <1>1 DEF FirstGood
  <1>3. screen = "lifecycle" => LifecycleFields(hooks, calls)
    BY <1>1 DEF FirstGood
  <1>4. ASSUME NEW t, FirstTab(t) PROVE FirstCases
    <2> DEFINE h == [hooks EXCEPT !.tab = t]
    <2>1. screen = "first" /\ Set(h)
      BY <1>4 DEF FirstTab, FirstOffers
    <2>2. /\ DOMAIN h = DOMAIN hooks /\ h.loading = hooks.loading /\ h.loadingAccounts = hooks.loadingAccounts
          /\ h.receipt = hooks.receipt /\ h.showConfetti = hooks.showConfetti
      BY <1>2, <2>1 DEF FirstView
    <2> HIDE DEF h
    <2> QED BY <2>1, <2>2, FirstSets
  <1>5. CASE FirstInput
    <2>1. screen = "first"
      BY <1>5 DEF FirstInput, FirstOffers
    <2>2. ASSUME NEW a, Set([hooks EXCEPT !.account = a]) PROVE FirstCases
      <3> DEFINE h == [hooks EXCEPT !.account = a]
      <3>1. /\ DOMAIN h = DOMAIN hooks /\ h.loading = hooks.loading /\ h.loadingAccounts = hooks.loadingAccounts
            /\ h.receipt = hooks.receipt /\ h.showConfetti = hooks.showConfetti
        BY <1>2, <2>1 DEF FirstView
      <3>2. Set(h)
        BY <2>2
      <3> HIDE DEF h
      <3> QED BY <2>1, <3>1, <3>2, FirstSets
    <2>3. ASSUME NEW n, Set([hooks EXCEPT !.amount = n]) PROVE FirstCases
      <3> DEFINE h == [hooks EXCEPT !.amount = n]
      <3>1. /\ DOMAIN h = DOMAIN hooks /\ h.loading = hooks.loading /\ h.loadingAccounts = hooks.loadingAccounts
            /\ h.receipt = hooks.receipt /\ h.showConfetti = hooks.showConfetti
        BY <1>2, <2>1 DEF FirstView
      <3>2. Set(h)
        BY <2>3
      <3> HIDE DEF h
      <3> QED BY <2>1, <3>1, <3>2, FirstSets
    <2> QED BY <1>5, <2>2, <2>3 DEF FirstInput
  <1>6. CASE FirstSubmit
    <2> DEFINE h == [hooks EXCEPT !.loading = TRUE, !.error = FALSE]
               c == Post("first", FirstRequest(hooks))
    <2>1. screen = "first" /\ SetAndSend(h, <<c>>)
      BY <1>6 DEF FirstSubmit, FirstOffers
    <2>2. ~hooks.loading
      BY <1>6, <2>1 DEF FirstSubmit, FirstOffers, FirstControls, FirstForm, ReceiptControls
    <2>3. /\ DOMAIN h = DOMAIN hooks /\ h.loading /\ h.loading \in BOOLEAN
          /\ h.loadingAccounts = hooks.loadingAccounts
          /\ h.receipt = hooks.receipt /\ h.showConfetti = hooks.showConfetti
      BY <1>2, <2>1 DEF FirstView
    <2>4. Shape(c) /\ c.op = "first" /\ c.resource = "none" /\ c.live /\ c.reply.status = "waiting"
      BY PostShape
    <2> HIDE DEF h, c
    <2> QED BY <2>1, <2>2, <2>3, <2>4, FirstSends
  <1>7. CASE FirstReset
    <2> DEFINE h == [hooks EXCEPT !.receipt = NoReceipt, !.account = None, !.amount = None, !.error = FALSE]
               c == Get("firstAccounts", "accounts")
    <2>1. screen = "first" /\ SetAndSend(h, <<c>>)
      BY <1>7 DEF FirstReset, FirstOffers
    <2>2. /\ DOMAIN h = DOMAIN hooks /\ h.loading = hooks.loading
          /\ h.loadingAccounts = hooks.loadingAccounts
          /\ h.receipt = NoReceipt /\ h.showConfetti = hooks.showConfetti
      BY <1>2, <2>1 DEF FirstView
    <2>3. Shape(c) /\ c.op = "firstAccounts" /\ c.live /\ c.reply.status = "waiting"
      BY GetShape
    <2> HIDE DEF h, c
    <2>4. h.loading \in BOOLEAN /\ (h.loading <=> hooks.loading \/ c.op = "first")
      BY <1>2, <2>1, <2>2, <2>3 DEF FirstView
    <2> QED BY <2>1, <2>2, <2>3, <2>4, FirstSends
  <1>8. CASE FirstConfettiEnds
    <2> DEFINE h == [hooks EXCEPT !.showConfetti = FALSE]
    <2>1. /\ screen = "first" /\ Pending("confetti") /\ hooks' = h
          /\ timers' = RemoveAt(timers, First("confetti")) /\ UNCHANGED <<screen, calls, server, past>>
      BY <1>8 DEF FirstConfettiEnds, Fire
    <2>2. /\ DOMAIN h = DOMAIN hooks /\ h.loading = hooks.loading /\ h.loadingAccounts = hooks.loadingAccounts
          /\ h.receipt = hooks.receipt /\ ~h.showConfetti
      BY <1>2, <2>1 DEF FirstView
    <2> HIDE DEF h
    <2>3. Base' /\ Timed'
      BY <2>1, FireFacts DEF Base
    <2>4. FirstView(h, calls, server)
      BY <1>2, <2>1, <2>2 DEF FirstView
    <2>5. FirstGood("first", h, calls, server)
      BY <1>1, <2>1, <2>4 DEF FirstGood
    <2> QED BY <2>1, <2>2, <2>3, <2>5 DEF FirstCases, FirstInv, FirstScreens
  <1>9. ASSUME NEW tx, LifecycleTurn(tx) PROVE FirstCases
    <2> DEFINE h == [hooks EXCEPT !.tx = tx]
               c == Post("lifecycle", tx)
    <2>1. screen = "lifecycle" /\ SetAndSend(h, <<c>>)
      BY <1>9 DEF LifecycleTurn, LifecycleFetch
    <2>2. DOMAIN h = DOMAIN hooks /\ h.loading = hooks.loading
      BY <1>3, <2>1 DEF LifecycleFields
    <2>3. Shape(c) /\ c.op = "lifecycle" /\ c.resource = "none" /\ c.live /\ c.reply.status = "waiting"
      BY PostShape
    <2> HIDE DEF h, c
    <2> QED BY <2>1, <2>2, <2>3, FirstSends
  <1>10. ASSUME NEW s, LifecycleStage(s) PROVE FirstCases
    <2> DEFINE stage == IF hooks.activeStage = s THEN None ELSE s
               h == [hooks EXCEPT !.activeStage = stage]
    <2>1. screen = "lifecycle" /\ hooks' = h /\ UNCHANGED <<screen, calls, timers, server, past>>
      BY <1>10 DEF LifecycleStage, LifecycleOffers, Set
    <2> HIDE DEF stage
    <2>2. DOMAIN h = DOMAIN hooks /\ h.loading = hooks.loading
      BY <1>3, <2>1 DEF LifecycleFields
    <2> HIDE DEF h
    <2>3. FirstGood("lifecycle", h, calls, server)
      BY <1>1, <1>3, <2>1, <2>2 DEF FirstGood, LifecycleFields
    <2> QED BY <2>1, <2>3 DEF Base, Timed, FirstCases, FirstInv, FirstScreens
  <1>11. ASSUME NEW i \in DOMAIN calls, FirstAccounts(i) PROVE FirstCases
    <2>1. calls[i].op = "firstAccounts" /\ timers' = timers
      BY <1>11 DEF FirstAccounts, Back
    <2>2. PICK h :
            /\ Resolve(i, h, <<>>)
            /\ screen = "first" =>
                 /\ DOMAIN h = DOMAIN hooks /\ h.loading = hooks.loading /\ ~h.loadingAccounts
                 /\ h.receipt = hooks.receipt /\ h.showConfetti = hooks.showConfetti
      <3>1. CASE Resolve(i, [hooks EXCEPT !.accounts = calls[i].reply.value, !.loadingAccounts = FALSE], <<>>)
        <4> DEFINE h == [hooks EXCEPT !.accounts = calls[i].reply.value, !.loadingAccounts = FALSE]
        <4>1. screen = "first" =>
                 /\ DOMAIN h = DOMAIN hooks /\ h.loading = hooks.loading /\ ~h.loadingAccounts
                 /\ h.receipt = hooks.receipt /\ h.showConfetti = hooks.showConfetti
          BY <1>2 DEF FirstView
        <4>2. Resolve(i, h, <<>>)
          BY <3>1
        <4> HIDE DEF h
        <4> QED BY <4>1, <4>2
      <3>2. CASE Resolve(i, [hooks EXCEPT !.loadingAccounts = FALSE], <<>>)
        <4> DEFINE h == [hooks EXCEPT !.loadingAccounts = FALSE]
        <4>1. screen = "first" =>
                 /\ DOMAIN h = DOMAIN hooks /\ h.loading = hooks.loading /\ ~h.loadingAccounts
                 /\ h.receipt = hooks.receipt /\ h.showConfetti = hooks.showConfetti
          BY <1>2 DEF FirstView
        <4>2. Resolve(i, h, <<>>)
          BY <3>2
        <4> HIDE DEF h
        <4> QED BY <4>1, <4>2
      <3> QED BY <1>11, <3>1, <3>2 DEF FirstAccounts
    <2>3. hooks' = (IF calls[i].live THEN h ELSE hooks) /\ UNCHANGED screen
      BY <2>2 DEF Resolve
    <2>4. calls[i].live => screen = "first"
      BY <1>1, <2>1 DEF FirstGood, FirstCall
    <2>5. screen = "first" /\ hooks'.showConfetti => Pending("confetti")'
      BY <2>1, <2>2, <2>3 DEF FirstInv, FirstScreens, Pending
    <2>6. Timed'
      BY <2>1 DEF Timed
    <2>7. CASE screen = "first"
      <3>1. /\ h.loading \in BOOLEAN /\ (h.loading <=> hooks.loading /\ calls[i].op # "first")
            /\ h.receipt # NoReceipt => Receipted(h.receipt, server)
        BY <1>2, <2>1, <2>2, <2>7 DEF FirstView
      <3> QED BY <2>1, <2>2, <2>5, <2>6, <2>7, <3>1, FirstSettles
    <2>8. CASE screen = "lifecycle"
      <3>1. Resolve(i, hooks, <<>>)
        BY <2>2, <2>4, <2>8 DEF Resolve
      <3> QED BY <2>1, <2>6, <2>8, <3>1, FirstSettles
    <2> QED BY <2>7, <2>8 DEF FirstScreens
  <1>12. ASSUME NEW i \in DOMAIN calls, FirstDone(i) PROVE FirstCases
    <2>1. calls[i].op = "first"
      BY <1>12 DEF FirstDone, Back
    <2>2. FirstCall(calls[i], screen, server)
      BY <1>1 DEF FirstGood
    <2>3. CASE calls[i].reply.status = "ok"
      <3> DEFINE h == [hooks EXCEPT !.receipt = calls[i].reply.value, !.showConfetti = TRUE, !.loading = FALSE]
      <3>1. /\ Resolve(i, h, <<>>) /\ Len(timers) < MaxTimers
            /\ timers' = IF calls[i].live THEN Append(timers, "confetti") ELSE timers
        BY <1>12, <2>3 DEF FirstDone, Back
      <3>2. screen = "first" =>
              /\ DOMAIN h = DOMAIN hooks /\ ~h.loading /\ h.loading \in BOOLEAN
              /\ h.loadingAccounts = hooks.loadingAccounts
              /\ h.receipt = calls[i].reply.value /\ h.showConfetti
        BY <1>2 DEF FirstView
      <3> HIDE DEF h
      <3>3. Receipted(calls[i].reply.value, server)
        BY <2>1, <2>2, <2>3 DEF FirstCall
      <3>4. Timed' /\ (calls[i].live => Pending("confetti")')
        BY <3>1, DelayFacts DEF Timed
      <3>5. hooks' = (IF calls[i].live THEN h ELSE hooks) /\ UNCHANGED screen
        BY <3>1 DEF Resolve
      <3>6. screen = "first" /\ hooks'.showConfetti => Pending("confetti")'
        BY <3>1, <3>4, <3>5 DEF FirstInv, FirstScreens, Pending
      <3>7. CASE screen = "first"
        BY <2>1, <3>1, <3>2, <3>3, <3>4, <3>6, <3>7, FirstSettles
      <3>8. CASE screen = "lifecycle"
        <4>1. Resolve(i, hooks, <<>>)
          BY <2>1, <2>2, <3>1, <3>8 DEF Resolve, FirstCall
        <4> QED BY <2>1, <3>4, <3>8, <4>1, FirstSettles
      <3> QED BY <3>7, <3>8 DEF FirstScreens
    <2>4. CASE calls[i].reply.status # "ok"
      <3> DEFINE h == [hooks EXCEPT !.error = TRUE, !.loading = FALSE]
      <3>1. Resolve(i, h, <<>>) /\ timers' = timers
        BY <1>12, <2>4 DEF FirstDone, Back
      <3>2. screen = "first" =>
              /\ DOMAIN h = DOMAIN hooks /\ ~h.loading /\ h.loading \in BOOLEAN
              /\ h.loadingAccounts = hooks.loadingAccounts
              /\ h.receipt = hooks.receipt /\ h.showConfetti = hooks.showConfetti
        BY <1>2 DEF FirstView
      <3> HIDE DEF h
      <3>3. Timed'
        BY <3>1 DEF Timed
      <3>4. hooks' = (IF calls[i].live THEN h ELSE hooks) /\ UNCHANGED screen
        BY <3>1 DEF Resolve
      <3>5. screen = "first" /\ hooks'.showConfetti => Pending("confetti")'
        BY <3>1, <3>2, <3>4 DEF FirstInv, FirstScreens, Pending
      <3>6. CASE screen = "first"
        <4>1. h.receipt # NoReceipt => Receipted(h.receipt, server)
          BY <1>2, <3>2, <3>6 DEF FirstView
        <4> QED BY <2>1, <3>1, <3>2, <3>3, <3>5, <3>6, <4>1, FirstSettles
      <3>7. CASE screen = "lifecycle"
        <4>1. Resolve(i, hooks, <<>>)
          BY <2>1, <2>2, <3>1, <3>7 DEF Resolve, FirstCall
        <4> QED BY <2>1, <3>3, <3>7, <4>1, FirstSettles
      <3> QED BY <3>6, <3>7 DEF FirstScreens
    <2> QED BY <2>3, <2>4
  <1>13. ASSUME NEW i \in DOMAIN calls, LifecycleServe(i) PROVE FirstCases
    <2>1. calls[i].op = "lifecycle" /\ Write(i, "lifecycle", server, calls[i].arg)
      BY <1>13 DEF LifecycleServe
    <2>2. /\ Base' /\ Answered(calls', calls, i, Ok(calls[i].arg)) /\ server' = server
          /\ UNCHANGED <<screen, hooks, timers>>
      BY <2>1, WriteOne
    <2> QED BY <2>1, <2>2, FirstAnswers
  <1>14. ASSUME NEW i \in DOMAIN calls, LifecycleDone(i) PROVE FirstCases
    <2>1. calls[i].op = "lifecycle" /\ timers' = timers
      BY <1>14 DEF LifecycleDone, Back
    <2>2. PICK h :
            /\ Resolve(i, h, <<>>)
            /\ screen = "lifecycle" => DOMAIN h = DOMAIN hooks /\ ~h.loading
      <3>1. CASE Resolve(i, [hooks EXCEPT !.data = calls[i].reply.value, !.loading = FALSE], <<>>)
        <4> DEFINE h == [hooks EXCEPT !.data = calls[i].reply.value, !.loading = FALSE]
        <4>1. screen = "lifecycle" => DOMAIN h = DOMAIN hooks /\ ~h.loading
          BY <1>3 DEF LifecycleFields
        <4>2. Resolve(i, h, <<>>)
          BY <3>1
        <4> HIDE DEF h
        <4> QED BY <4>1, <4>2
      <3>2. CASE Resolve(i, [hooks EXCEPT !.error = TRUE, !.loading = FALSE], <<>>)
        <4> DEFINE h == [hooks EXCEPT !.error = TRUE, !.loading = FALSE]
        <4>1. screen = "lifecycle" => DOMAIN h = DOMAIN hooks /\ ~h.loading
          BY <1>3 DEF LifecycleFields
        <4>2. Resolve(i, h, <<>>)
          BY <3>2
        <4> HIDE DEF h
        <4> QED BY <4>1, <4>2
      <3> QED BY <1>14, <3>1, <3>2 DEF LifecycleDone
    <2>3. calls[i].live => screen = "lifecycle"
      BY <1>1, <2>1 DEF FirstGood, FirstCall
    <2>4. Timed' /\ UNCHANGED screen
      BY <2>1, <2>2 DEF Timed, Resolve
    <2>5. CASE screen = "lifecycle"
      BY <2>1, <2>2, <2>4, <2>5, FirstSettles
    <2>6. CASE screen = "first"
      <3>1. Resolve(i, hooks, <<>>) /\ hooks' = hooks
        BY <2>2, <2>3, <2>6 DEF Resolve
      <3>2. hooks'.showConfetti => Pending("confetti")'
        BY <2>1, <2>6, <3>1 DEF FirstInv, FirstScreens, Pending
      <3>3. hooks.loading \in BOOLEAN /\ (hooks.receipt # NoReceipt => Receipted(hooks.receipt, server))
        BY <1>2, <2>6 DEF FirstView
      <3> QED BY <2>1, <2>4, <2>6, <3>1, <3>2, <3>3, FirstSettles
    <2> QED BY <2>5, <2>6 DEF FirstScreens
  <1>15. CASE \/ screen = "first" /\ FirstMount
              \/ screen = "lifecycle" /\ (LifecycleMount \/ LifecycleNone)
              \/ FirstToLifecycle \/ LifecycleToFirst
    BY <1>15, FirstMounts, LifecycleMounts, LifecycleMountsNone
       DEF LifecycleMount, FirstToLifecycle, LifecycleToFirst
  <1> QED BY <1>4, <1>5, <1>6, <1>7, <1>8, <1>9, <1>10, <1>11, <1>12, <1>13, <1>14, <1>15, FirstPosts
          DEF FirstTransactionNext

(* BillPay *)

\* Payments have ids and statuses, at the back end, in its answers and on the screen.
BillIds == 1 .. Bills \union {DemoBill, LocalBill}

IsBillMap(m) == DOMAIN m \subseteq BillIds /\ m \in [DOMAIN m -> BillStatuses]

BillServer(rows) ==
  /\ rows \in [bills : {rows.bills}]
  /\ \E n \in 0 .. Bills : rows.bills \in [1 .. n -> BillStatuses]

BillCall(c) ==
  /\ c.op = "fetchBills" =>
       /\ c.resource = "bills"
       /\ c.reply.status = "ok" => IsBillMap(c.reply.value)
  /\ c.op = "action" => c.arg \in [bill : BillIds, action : {"pause", "resume", "cancel"}]

\* The hooks of BillPay, told by the payments and the rest.
BillHooks(h) ==
  /\ h \in [payments : {h.payments}, showForm : BOOLEAN, filled : BOOLEAN, loading : BOOLEAN]
  /\ IsBillMap(h.payments)

\* BillPay loads as long as it fetches, and the payments are what they should be.
BillGood(h, cs, rows) ==
  /\ BillServer(rows) /\ BillHooks(h)
  /\ h.loading => Working(cs, "fetchBills")
  /\ \A k \in DOMAIN cs : BillCall(cs[k])

\* The invariant of BillPay, and what its steps keep.
BillPayInv == screen = "billpay" => BillGood(hooks, calls, server)

BillCases == Base' /\ Timed' /\ screen' = "billpay" /\ BillPayInv'

\* That the payments are known by their ids is the type of the hooks.
LEMMA BillHooksTyped ==
  ASSUME NEW h, BillHooks(h) PROVE h \in BillPayHooks
  <1> DEFINE Maps == UNION {[ids -> BillStatuses] : ids \in SUBSET (1 .. Bills \union {DemoBill, LocalBill})}
  <1>1. h.payments \in Maps
    BY DEF BillHooks, IsBillMap, BillIds
  <1> HIDE DEF Maps
  <1>2. h \in [payments : Maps, showForm : BOOLEAN, filled : BOOLEAN, loading : BOOLEAN]
    BY <1>1 DEF BillHooks
  <1> QED BY <1>2 DEF BillPayHooks, Maps

\* An action leaves a payment with a status.
LEMMA BillOutcome ==
  ASSUME NEW action \in {"pause", "resume", "cancel"} PROVE Outcome(action) \in BillStatuses
  BY DEF Outcome, BillStatuses

\* What the back end has is a list of payments, and so are the demo ones.
LEMMA BillRowsAreMaps ==
  ASSUME NEW rows, BillServer(rows) PROVE IsBillMap(rows.bills)
  BY BillsAssumption DEF BillServer, IsBillMap, BillIds

\* What a fetch shows are payments, whatever it came to.
LEMMA BillsShown ==
  ASSUME NEW c, BillCall(c), c.op = "fetchBills" PROVE IsBillMap(ShownBills(c.reply))
  <1>1. IsBillMap(DemoBills)
    BY DEF IsBillMap, DemoBills, BillIds, BillStatuses
  <1> QED BY <1>1 DEF ShownBills, BillCall

\* The screen changes and the calls do not.
LEMMA BillSets ==
  ASSUME Base, Timed, BillPayInv, screen = "billpay", NEW h, Set(h),
         BillHooks(h), h.loading = hooks.loading
  PROVE  BillCases
  <1>1. hooks' = h /\ UNCHANGED <<screen, calls, timers, server, past>>
    BY DEF Set
  <1>2. BillGood(h, calls, server)
    BY DEF BillPayInv, BillGood
  <1> QED BY <1>1, <1>2 DEF BillCases, BillPayInv, Base, Timed

\* A payment is scheduled or acted upon.
LEMMA BillSends ==
  ASSUME Base, Timed, BillPayInv, screen = "billpay", NEW c, SetAndSend(hooks, <<c>>),
         Shape(c), c.live, c.op \in {"schedule", "action"}, BillCall(c)
  PROVE  BillCases
  <1>1. BillGood(hooks, calls, server)
    BY DEF BillPayInv
  <1>2. hooks' = hooks /\ Send(<<c>>) /\ UNCHANGED <<screen, timers, server, past>>
    BY Zenon DEF SetAndSend
  <1>3. screen \in Home(c.op) /\ Job(c) \notin Writes /\ past' \subseteq Pasts
    BY <1>2, HomeFacts DEF Job, Writes, Base
  <1>4. Base' /\ Made(calls', calls, c)
    BY <1>2, <1>3, SendOne
  <1>5. BillGood(hooks, calls', server)
    BY <1>1, <1>4 DEF BillGood, Made
  <1> QED BY <1>2, <1>4, <1>5 DEF BillCases, BillPayInv, Timed

\* BillPay opens, and asks for the payments.
LEMMA BillOpens ==
  ASSUME Base, BillPayInv, screen = "billpay", BillPayMount
  PROVE  BillCases
  <1> DEFINE c == Get("fetchBills", "bills")
  <1>1. BillGood(hooks, calls, server)
    BY DEF BillPayInv
  <1>2. Shape(c) /\ c.op = "fetchBills" /\ c.resource = "bills" /\ c.live /\ c.reply.status = "waiting"
    BY GetShape
  <1>3. MountWith("billpay", BillPayState, <<c>>, <<>>)
    BY Zenon DEF BillPayMount, Mount, FetchBills
  <1> HIDE DEF c
  <1>4. "billpay" \in Home(c.op) /\ Job(c) = "fetchBills" /\ Job(c) \notin Writes /\ SameFamily(screen, "billpay")
    BY <1>2, HomeFacts DEF Job, Writes, SameFamily
  <1>5. /\ Base' /\ \E mid : Dropped(mid, calls) /\ Made(calls', mid, c)
        /\ screen' = "billpay" /\ hooks' = BillPayState /\ timers' = <<>> /\ server' = server
    BY <1>2, <1>3, <1>4, OpenSends
  <1>6. PICK mid : Dropped(mid, calls) /\ Made(calls', mid, c)
    BY <1>5
  <1>7. Working(calls', "fetchBills")
    BY <1>2, <1>4, <1>6 DEF Made, Does
  <1>8. \A k \in DOMAIN calls' : BillCall(calls'[k])
    <2>1. \A k \in DOMAIN mid : BillCall(mid[k])
      BY <1>1, <1>6 DEF Dropped, BillGood, BillCall
    <2>2. BillCall(c)
      BY <1>2 DEF BillCall
    <2> QED BY <1>6, <2>1, <2>2 DEF Made
  <1>9. BillHooks(BillPayState)
    <2>1. IsBillMap(NoBills)
      BY DEF IsBillMap, NoBills
    <2>2. BillPayState.payments = NoBills
      BY DEF BillPayState
    <2>3. BillPayState \in [payments : {BillPayState.payments}, showForm : BOOLEAN, filled : BOOLEAN, loading : BOOLEAN]
      BY DEF BillPayState
    <2> QED BY <2>1, <2>2, <2>3 DEF BillHooks
  <1>10. BillGood(BillPayState, calls', server)
    BY <1>1, <1>7, <1>8, <1>9 DEF BillGood
  <1> QED BY <1>5, <1>10, NoTimers DEF BillCases, BillPayInv

\* A call that has come back and ends there.
LEMMA BillSettles ==
  ASSUME Base, Timed, BillPayInv, screen = "billpay", NEW i \in DOMAIN calls, NEW h,
         Resolve(i, h, <<>>), timers' = timers, BillHooks(h),
         calls[i].op \in {"fetchBills", "schedule", "action"},
         h.loading => hooks.loading /\ calls[i].op # "fetchBills"
  PROVE  BillCases
  <1>1. BillGood(hooks, calls, server)
    BY DEF BillPayInv
  <1>2. Base' /\ Ended(calls', calls, i) /\ Settled(i, h)
    BY ResolveEnds
  <1>3. \A k \in DOMAIN calls' : BillCall(calls'[k])
    BY <1>1, <1>2 DEF Ended, Alike, BillGood, BillCall
  <1>4. hooks'.loading => Working(calls', "fetchBills")
    BY <1>1, <1>2 DEF BillGood, Ended, Does, Job, Settled
  <1>5. BillGood(hooks', calls', server)
    BY <1>1, <1>2, <1>3, <1>4 DEF BillGood, Settled
  <1> QED BY <1>2, <1>5 DEF BillCases, BillPayInv, Timed, Settled

\* A call that has come back and has the payments fetched again.
LEMMA BillFetchesAgain ==
  ASSUME Base, Timed, BillPayInv, screen = "billpay", NEW i \in DOMAIN calls, NEW h,
         Resolve(i, h, FetchBills), timers' = timers, BillHooks(h), calls[i].op # "fetchBills"
  PROVE  BillCases
  <1> DEFINE c == Get("fetchBills", "bills")
             d == [c EXCEPT !.live = calls[i].live]
  <1>1. BillGood(hooks, calls, server)
    BY DEF BillPayInv
  <1>2. Shape(c) /\ c.op = "fetchBills" /\ c.resource = "bills" /\ c.reply.status = "waiting"
    BY GetShape
  <1>3. Resolve(i, h, <<c>>)
    BY Zenon DEF FetchBills
  <1> HIDE DEF c
  <1>4. screen \in Home(c.op) /\ Job(c) \notin Writes
    BY <1>2, HomeFacts DEF Job, Writes
  <1>5. /\ Base' /\ Settled(i, h)
        /\ Shape(d) /\ d.op = c.op /\ d.resource = c.resource /\ d.arg = c.arg
        /\ d.reply = c.reply /\ d.live = calls[i].live
        /\ \E mid : Ended(mid, calls, i) /\ Made(calls', mid, d)
    BY <1>2, <1>3, <1>4, ResolveSends
  <1> HIDE DEF d
  <1>6. PICK mid : Ended(mid, calls, i) /\ Made(calls', mid, d)
    BY <1>5
  <1>7. \A k \in DOMAIN calls' : BillCall(calls'[k])
    <2>1. \A k \in DOMAIN mid : BillCall(mid[k])
      BY <1>1, <1>6 DEF Ended, Alike, BillGood, BillCall
    <2>2. BillCall(d)
      BY <1>2, <1>5 DEF BillCall
    <2> QED BY <1>6, <2>1, <2>2 DEF Made
  <1>8. hooks'.loading => Working(calls', "fetchBills")
    <2>1. CASE calls[i].live
      <3>1. Does(d, "fetchBills")
        BY <1>2, <1>5, <2>1 DEF Does, Job
      <3> QED BY <1>6, <3>1 DEF Made
    <2>2. CASE ~calls[i].live
      BY <1>1, <1>5, <1>6, <2>2 DEF BillGood, Ended, Made, Does, Settled
    <2> QED BY <2>1, <2>2
  <1>9. BillGood(hooks', calls', server)
    BY <1>1, <1>5, <1>7, <1>8 DEF BillGood, Settled
  <1> QED BY <1>5, <1>9 DEF BillCases, BillPayInv, Timed, Settled

\* The server answers.
LEMMA BillAnswers ==
  ASSUME Base, Base', Timed, BillPayInv, screen = "billpay", NEW i \in DOMAIN calls, NEW r,
         Answered(calls', calls, i, r),
         r.status = "ok" => calls[i].op # "fetchBills" \/ IsBillMap(r.value),
         BillServer(server'), UNCHANGED <<screen, hooks, timers>>
  PROVE  BillCases
  <1>1. BillGood(hooks, calls, server)
    BY DEF BillPayInv
  <1>2. \A k \in DOMAIN calls' : BillCall(calls'[k])
    BY <1>1 DEF BillGood, BillCall, Answered
  <1>3. BillGood(hooks, calls', server')
    BY <1>1, <1>2 DEF BillGood, Answered
  <1> QED BY <1>3 DEF BillCases, BillPayInv, Timed

\* Every step of BillPay keeps its invariant.
LEMMA BillPayKeeps ==
  ASSUME Base, Timed, BillPayInv, screen = "billpay", BillPayNext
  PROVE  BillCases
  <1>1. /\ BillGood(hooks, calls, server) /\ BillHooks(hooks) /\ BillServer(server)
        /\ \A k \in DOMAIN calls : BillCall(calls[k])
    BY DEF BillPayInv, BillGood
  <1>2. CASE BillForm
    <2>1. ASSUME NEW b \in BOOLEAN, Set([hooks EXCEPT !.showForm = b]) PROVE BillCases
      <3> DEFINE h == [hooks EXCEPT !.showForm = b]
      <3>1. BillHooks(h) /\ h.loading = hooks.loading
        BY <1>1 DEF BillHooks
      <3> HIDE DEF h
      <3> QED BY <2>1, <3>1, BillSets DEF h
    <2>2. CASE Set([hooks EXCEPT !.filled = TRUE])
      <3> DEFINE h == [hooks EXCEPT !.filled = TRUE]
      <3>1. BillHooks(h) /\ h.loading = hooks.loading
        BY <1>1 DEF BillHooks
      <3> HIDE DEF h
      <3> QED BY <2>2, <3>1, BillSets DEF h
    <2>3. (~hooks.showForm) \in BOOLEAN
      OBVIOUS
    <2> QED BY <1>2, <2>1, <2>2, <2>3 DEF BillForm
  <1>3. CASE BillSchedule
    <2> DEFINE c == Post("schedule", "new")
    <2>1. Shape(c) /\ c.op = "schedule" /\ c.live
      BY PostShape
    <2>2. SetAndSend(hooks, <<c>>)
      BY <1>3, Zenon DEF BillSchedule
    <2> HIDE DEF c
    <2> QED BY <2>1, <2>2, BillSends DEF BillCall
  <1>4. ASSUME NEW p \in BillIds, NEW action \in {"pause", "resume", "cancel"}, BillAction(p, action)
        PROVE  BillCases
    <2> DEFINE c == Post("action", [bill |-> p, action |-> action])
    <2>1. Shape(c) /\ c.op = "action" /\ c.live /\ c.arg = [bill |-> p, action |-> action]
      BY PostShape
    <2>2. SetAndSend(hooks, <<c>>)
      BY <1>4, Zenon DEF BillAction
    <2> HIDE DEF c
    <2> QED BY <2>1, <2>2, BillSends DEF BillCall
  <1>5. ASSUME NEW i \in DOMAIN calls, BillsFetched(i) PROVE BillCases
    <2> DEFINE m == ShownBills(calls[i].reply)
               h == [hooks EXCEPT !.payments = m, !.loading = FALSE]
    <2>1. calls[i].op = "fetchBills" /\ Resolve(i, h, <<>>) /\ timers' = timers
      BY <1>5 DEF BillsFetched
    <2>2. IsBillMap(m)
      BY <1>1, <2>1, BillsShown
    <2> HIDE DEF m
    <2>3. BillHooks(h) /\ ~h.loading
      BY <1>1, <2>2 DEF BillHooks
    <2> HIDE DEF h
    <2> QED BY <2>1, <2>3, BillSettles
  <1>6. ASSUME NEW i \in DOMAIN calls, BillScheduled(i) PROVE BillCases
    <2>1. calls[i].op = "schedule" /\ timers' = timers
      BY <1>6 DEF BillScheduled, Back
    <2>2. CASE Resolve(i, [hooks EXCEPT !.loading = TRUE, !.showForm = FALSE, !.filled = FALSE], FetchBills)
      <3> DEFINE h == [hooks EXCEPT !.loading = TRUE, !.showForm = FALSE, !.filled = FALSE]
      <3>1. BillHooks(h)
        BY <1>1 DEF BillHooks
      <3> HIDE DEF h
      <3> QED BY <2>1, <2>2, <3>1, BillFetchesAgain DEF h
    <2>3. CASE Resolve(i, [hooks EXCEPT !.showForm = FALSE, !.filled = FALSE,
                                        !.payments = [p \in DOMAIN @ \union {LocalBill} |->
                                                        IF p = LocalBill THEN "active" ELSE @[p]]], <<>>)
      <3> DEFINE m == [p \in DOMAIN hooks.payments \union {LocalBill} |->
                         IF p = LocalBill THEN "active" ELSE hooks.payments[p]]
                 h == [hooks EXCEPT !.showForm = FALSE, !.filled = FALSE, !.payments = m]
      <3>1. IsBillMap(m)
        BY <1>1 DEF BillHooks, IsBillMap, BillIds, BillStatuses
      <3>2. Resolve(i, h, <<>>)
        BY <2>3
      <3> HIDE DEF m
      <3>3. BillHooks(h) /\ h.loading = hooks.loading
        BY <1>1, <3>1 DEF BillHooks
      <3> HIDE DEF h
      <3> QED BY <2>1, <3>2, <3>3, BillSettles
    <2> QED BY <1>6, <2>2, <2>3 DEF BillScheduled
  <1>7. ASSUME NEW i \in DOMAIN calls, BillActed(i) PROVE BillCases
    <2>1. calls[i].op = "action" /\ timers' = timers
      BY <1>7 DEF BillActed, Back
    <2>2. CASE Resolve(i, [hooks EXCEPT !.loading = TRUE], FetchBills)
      <3> DEFINE h == [hooks EXCEPT !.loading = TRUE]
      <3>1. BillHooks(h)
        BY <1>1 DEF BillHooks
      <3> HIDE DEF h
      <3> QED BY <2>1, <2>2, <3>1, BillFetchesAgain DEF h
    <2>3. CASE Resolve(i, [hooks EXCEPT !.payments = [q \in DOMAIN @ |->
                             IF q = calls[i].arg.bill THEN Outcome(calls[i].arg.action) ELSE @[q]]], <<>>)
      <3> DEFINE o == Outcome(calls[i].arg.action)
                 m == [q \in DOMAIN hooks.payments |->
                         IF q = calls[i].arg.bill THEN o ELSE hooks.payments[q]]
                 h == [hooks EXCEPT !.payments = m]
      <3>1. o \in BillStatuses
        BY <1>1, <2>1, BillOutcome DEF BillCall
      <3>2. Resolve(i, h, <<>>)
        BY <2>3
      <3> HIDE DEF o
      <3>3. IsBillMap(m)
        BY <1>1, <3>1 DEF BillHooks, IsBillMap
      <3> HIDE DEF m
      <3>4. BillHooks(h) /\ h.loading = hooks.loading
        BY <1>1, <3>3 DEF BillHooks
      <3> HIDE DEF h
      <3> QED BY <2>1, <3>2, <3>4, BillSettles
    <2> QED BY <1>7, <2>2, <2>3 DEF BillActed
  <1>8. ASSUME NEW i \in DOMAIN calls, ScheduleServe(i) PROVE BillCases
    <2> DEFINE p == Cardinality(DOMAIN server.bills) + 1
               m == [q \in 1 .. p |-> IF q = p THEN "active" ELSE server.bills[q]]
               rows == [server EXCEPT !.bills = m]
    <2>1. calls[i].op = "schedule" /\ p <= Bills /\ Write(i, "schedule", rows, p)
      BY <1>8 DEF ScheduleServe
    <2>2. PICK n \in 0 .. Bills : server.bills \in [1 .. n -> BillStatuses]
      BY <1>1 DEF BillServer
    <2>3. p = n + 1
      <3>1. Cardinality(1 .. n) = n
        BY <2>2, FS_Interval, BillsAssumption
      <3> QED BY <2>2, <3>1
    <2>4. /\ Base' /\ Answered(calls', calls, i, Ok(p)) /\ server' = rows
          /\ UNCHANGED <<screen, hooks, timers>>
      BY <2>1, WriteOne
    <2> HIDE DEF p
    <2>5. m \in [1 .. p -> BillStatuses] /\ p \in 0 .. Bills
      BY <2>1, <2>2, <2>3, BillsAssumption DEF BillStatuses
    <2> HIDE DEF m
    <2>6. rows \in [bills : {m}] /\ rows.bills = m
      BY <1>1 DEF BillServer
    <2> HIDE DEF rows
    <2>7. BillServer(server')
      BY <2>4, <2>5, <2>6 DEF BillServer
    <2> QED BY <2>1, <2>4, <2>7, BillAnswers
  <1>9. ASSUME NEW i \in DOMAIN calls, ActionServe(i) PROVE BillCases
    <2> DEFINE o == Outcome(calls[i].arg.action)
               q == calls[i].arg.bill
               m == [server.bills EXCEPT ![q] = o]
               rows == [server EXCEPT !.bills = m]
    <2>1. calls[i].op = "action" /\ Write(i, "action", rows, NoValue)
      BY <1>9 DEF ActionServe
    <2>2. o \in BillStatuses
      BY <1>1, <2>1, BillOutcome DEF BillCall
    <2>3. PICK n \in 0 .. Bills : server.bills \in [1 .. n -> BillStatuses]
      BY <1>1 DEF BillServer
    <2>4. /\ Base' /\ Answered(calls', calls, i, Ok(NoValue)) /\ server' = rows
          /\ UNCHANGED <<screen, hooks, timers>>
      BY <2>1, WriteOne
    <2> HIDE DEF o, q
    <2>5. m \in [1 .. n -> BillStatuses]
      BY <2>2, <2>3
    <2> HIDE DEF m
    <2>6. rows \in [bills : {m}] /\ rows.bills = m
      BY <1>1 DEF BillServer
    <2> HIDE DEF rows
    <2>7. BillServer(server')
      BY <2>3, <2>4, <2>5, <2>6 DEF BillServer
    <2> QED BY <2>1, <2>4, <2>7, BillAnswers
  <1> QED BY <1>2, <1>3, <1>4, <1>5, <1>6, <1>7, <1>8, <1>9, BillOpens DEF BillPayNext, BillIds

(* MultiCurrency *)

\* What is converted: a live call asks for what the inputs say, unless they were edited.
FxInputs == [from : Currencies, to : Currencies, amount : Sums]

FxCall(c, h, p) ==
  c.op = "convert" =>
    /\ c.arg \in FxInputs
    /\ c.live /\ "edited" \notin p => c.arg = Inputs(h)

FxGood(h, cs, p) ==
  /\ h \in FxHooks
  /\ h.converting <=> Working(cs, "convert")
  /\ h.result # NoResult /\ "edited" \notin p => h.result = Inputs(h)
  /\ \A k \in DOMAIN cs : FxCall(cs[k], h, p)

\* The invariant of MultiCurrency, and what its steps keep.
FxInv == screen = "fx" => FxGood(hooks, calls, past)

FxCases == Base' /\ Timed' /\ screen' = "fx" /\ FxInv'

\* What a conversion is asked with.
LEMMA InputsTyped ==
  ASSUME NEW h \in FxHooks PROVE Inputs(h) \in FxInputs
  BY DEF FxHooks, Inputs, FxInputs

\* What a call asks stays what the inputs say, or history knows that they were edited.
LEMMA FxCallStays ==
  ASSUME NEW c, NEW d, NEW h, NEW g, NEW p, NEW q, FxCall(c, h, p), Alike(d, c),
         \/ p \subseteq q /\ Inputs(g) = Inputs(h)
         \/ "edited" \in q
         \/ ~Does(d, "convert")
  PROVE  FxCall(d, g, q)
  <1>1. d.op = c.op /\ d.arg = c.arg /\ d.live = c.live
    BY DEF Alike
  <1>2. d.op = "convert" /\ d.live /\ "edited" \notin q => d.arg = Inputs(g)
    BY <1>1 DEF FxCall, Does, Job
  <1> QED BY <1>1, <1>2 DEF FxCall

\* MultiCurrency opens, and asks for the wallet.
LEMMA FxOpens ==
  ASSUME Base, FxInv, screen = "fx", FxMount PROVE FxCases
  <1> DEFINE c == Get("fxWallet", "wallet")
  <1>1. FxGood(hooks, calls, past)
    BY DEF FxInv
  <1>2. Shape(c) /\ c.op = "fxWallet" /\ c.live
    BY GetShape
  <1>3. MountWith("fx", FxState, <<c>>, <<>>)
    BY Zenon DEF FxMount, Mount
  <1> HIDE DEF c
  <1>4. "fx" \in Home(c.op) /\ Job(c) = "fxWallet" /\ Job(c) \notin Writes /\ SameFamily(screen, "fx")
    BY <1>2, HomeFacts DEF Job, Writes, SameFamily
  <1>5. /\ Base' /\ \E mid : Dropped(mid, calls) /\ Made(calls', mid, c)
        /\ screen' = "fx" /\ hooks' = FxState /\ timers' = <<>> /\ past' = {}
    BY <1>2, <1>3, <1>4, OpenSends
  <1>6. PICK mid : Dropped(mid, calls) /\ Made(calls', mid, c)
    BY <1>5
  <1>7. ~Working(calls', "convert")
    BY <1>4, <1>6 DEF Made, Dropped, Does
  <1>8. \A k \in DOMAIN calls' : FxCall(calls'[k], FxState, {})
    <2>1. \A k \in DOMAIN mid : FxCall(mid[k], FxState, {})
      BY <1>1, <1>6 DEF Dropped, FxGood, FxCall
    <2>2. FxCall(c, FxState, {})
      BY <1>2 DEF FxCall
    <2> QED BY <1>6, <2>1, <2>2 DEF Made
  <1>9. FxState \in FxHooks /\ ~FxState.converting /\ FxState.result = NoResult
    BY CurrenciesAssumption DEF FxState, FxHooks
  <1>10. FxGood(FxState, calls', {})
    BY <1>7, <1>8, <1>9 DEF FxGood
  <1> QED BY <1>5, <1>10, NoTimers DEF FxCases, FxInv

\* An input is changed.
LEMMA FxChanges ==
  ASSUME Base, Timed, FxInv, screen = "fx", NEW h, FxChange(h), h \in FxHooks,
         h.converting = hooks.converting
  PROVE  FxCases
  <1> DEFINE g == [h EXCEPT !.result = NoResult]
  <1>1. FxGood(hooks, calls, past)
    BY DEF FxInv
  <1>2. /\ hooks' = g /\ past' \subseteq past \union {"edited"}
        /\ hooks.converting => "edited" \in past'
        /\ UNCHANGED <<screen, calls, timers, server>>
    BY DEF FxChange
  <1>3. Base' /\ Timed'
    BY <1>2 DEF Base, Pasts, Timed
  <1>4. g \in FxHooks /\ g.converting = hooks.converting /\ g.result = NoResult
    BY DEF FxHooks
  <1> HIDE DEF g
  <1>5. \A k \in DOMAIN calls : FxCall(calls[k], g, past')
    <2> TAKE k \in DOMAIN calls
    <2>1. FxCall(calls[k], hooks, past) /\ Alike(calls[k], calls[k])
      BY <1>1, AlikeSelf DEF FxGood, Base
    <2>2. "edited" \in past' \/ ~Does(calls[k], "convert")
      BY <1>1, <1>2 DEF FxGood, Working
    <2> QED BY <2>1, <2>2, FxCallStays
  <1>6. FxGood(g, calls, past')
    BY <1>1, <1>4, <1>5 DEF FxGood
  <1> QED BY <1>2, <1>3, <1>6 DEF FxCases, FxInv

\* A conversion is sent, and it is the only one.
LEMMA FxSends ==
  ASSUME Base, Timed, FxInv, screen = "fx", FxConvert PROVE FxCases
  <1> DEFINE c == Post("convert", Inputs(hooks))
             h == [hooks EXCEPT !.converting = TRUE]
  <1>1. FxGood(hooks, calls, past) /\ hooks \in FxHooks
    BY DEF FxInv, FxGood
  <1>2. Shape(c) /\ c.op = "convert" /\ c.live /\ c.arg = Inputs(hooks)
    BY PostShape
  <1>3. hooks' = h /\ Send(<<c>>) /\ UNCHANGED <<screen, timers, server, past>>
    BY Zenon DEF FxConvert, SetAndSend
  <1>4. ~hooks.converting
    BY <1>1 DEF FxConvert, FxOffers, FxControls, FxHooks
  <1>5. /\ h \in FxHooks /\ h.converting /\ h.result = hooks.result
        /\ h.from = hooks.from /\ h.to = hooks.to /\ h.amount = hooks.amount
    BY <1>1 DEF FxHooks
  <1> HIDE DEF c, h
  <1>6. screen \in Home(c.op) /\ Job(c) = "convert" /\ Does(c, "convert")
    BY <1>2, HomeFacts DEF Job, Does
  <1>7. past' \subseteq Pasts /\ ~Working(calls, "convert")
    BY <1>1, <1>3, <1>4 DEF Base, FxGood
  <1>8. Base' /\ Made(calls', calls, c)
    BY <1>2, <1>3, <1>6, <1>7, SendOne
  <1>9. Inputs(h) = Inputs(hooks)
    BY <1>5 DEF Inputs
  <1>10. \A k \in DOMAIN calls' : FxCall(calls'[k], h, past)
    <2>1. FxCall(c, h, past)
      BY <1>1, <1>2, <1>9, InputsTyped DEF FxCall
    <2>2. \A k \in DOMAIN calls : FxCall(calls[k], h, past)
      BY <1>1, <1>9, AlikeSelf, FxCallStays DEF FxGood, Base
    <2> QED BY <1>8, <2>1, <2>2 DEF Made
  <1>11. Working(calls', "convert")
    BY <1>6, <1>8 DEF Made
  <1>12. FxGood(h, calls', past)
    BY <1>1, <1>5, <1>9, <1>10, <1>11 DEF FxGood
  <1> QED BY <1>3, <1>8, <1>12 DEF FxCases, FxInv, Timed

\* The wallet and the rates come in, by a call or by the interval.
LEMMA FxLoads ==
  ASSUME Base, Timed, FxInv, screen = "fx", NEW i \in DOMAIN calls, FxLoaded(i) PROVE FxCases
  <1> DEFINE w == IF calls[i].reply.value = "server" THEN "server" ELSE "demo"
             h == [hooks EXCEPT !.wallet = w, !.currencies = Currencies]
  <1>1. FxGood(hooks, calls, past) /\ hooks \in FxHooks
    BY DEF FxInv, FxGood
  <1>2. calls[i].op = "fxWallet" /\ Resolve(i, h, <<>>) /\ timers' = timers
    BY DEF FxLoaded
  <1>3. w \in {"empty", "server", "demo"}
    OBVIOUS
  <1> HIDE DEF w
  <1>4. /\ h \in FxHooks /\ h.converting = hooks.converting /\ h.result = hooks.result
        /\ h.from = hooks.from /\ h.to = hooks.to /\ h.amount = hooks.amount
    BY <1>1, <1>3 DEF FxHooks
  <1> HIDE DEF h
  <1>5. Base' /\ Ended(calls', calls, i) /\ Settled(i, h)
    BY <1>2, ResolveEnds
  <1>6. /\ hooks' \in FxHooks /\ Inputs(hooks') = Inputs(hooks) /\ hooks'.converting = hooks.converting
        /\ hooks'.result = hooks.result /\ past \subseteq past'
    BY <1>1, <1>4, <1>5 DEF Settled, Inputs
  <1>7. \A k \in DOMAIN calls' : FxCall(calls'[k], hooks', past')
    BY <1>1, <1>5, <1>6, FxCallStays DEF FxGood, Ended
  <1>8. Working(calls', "convert") <=> Working(calls, "convert")
    BY <1>2, <1>5 DEF Ended, Does, Job
  <1>9. FxGood(hooks', calls', past')
    BY <1>1, <1>6, <1>7, <1>8 DEF FxGood
  <1> QED BY <1>2, <1>5, <1>9 DEF FxCases, FxInv, Timed, Settled

\* The demo currencies and wallet appear.
LEMMA FxTicks ==
  ASSUME Base, Timed, FxInv, screen = "fx", FxTick PROVE FxCases
  <1> DEFINE h == [hooks EXCEPT !.currencies = Currencies, !.wallet = "demo"]
  <1>1. FxGood(hooks, calls, past) /\ hooks \in FxHooks
    BY DEF FxInv, FxGood
  <1>2. hooks' = h /\ UNCHANGED <<screen, calls, timers, server, past>>
    BY DEF FxTick, Set
  <1>3. /\ h \in FxHooks /\ h.converting = hooks.converting /\ h.result = hooks.result
        /\ h.from = hooks.from /\ h.to = hooks.to /\ h.amount = hooks.amount
    BY <1>1 DEF FxHooks
  <1> HIDE DEF h
  <1>4. Inputs(h) = Inputs(hooks)
    BY <1>3 DEF Inputs
  <1>5. \A k \in DOMAIN calls : FxCall(calls[k], h, past)
    BY <1>1, <1>4, AlikeSelf, FxCallStays DEF FxGood, Base
  <1>6. FxGood(h, calls, past)
    BY <1>1, <1>3, <1>4, <1>5 DEF FxGood
  <1> QED BY <1>2, <1>6 DEF FxCases, FxInv, Base, Timed

\* The answer of a conversion ends it, with the result of what was asked.
LEMMA FxEnds ==
  ASSUME Base, Timed, FxInv, screen = "fx", NEW i \in DOMAIN calls, FxConverted(i) PROVE FxCases
  <1> DEFINE h == [hooks EXCEPT !.result = calls[i].arg, !.converting = FALSE]
  <1>1. FxGood(hooks, calls, past) /\ hooks \in FxHooks /\ FxCall(calls[i], hooks, past)
    BY DEF FxInv, FxGood
  <1>2. calls[i].op = "convert" /\ Resolve(i, h, <<>>) /\ timers' = timers
    BY DEF FxConverted
  <1>3. calls[i].arg \in FxInputs
    BY <1>1, <1>2 DEF FxCall
  <1>4. /\ h \in FxHooks /\ ~h.converting /\ h.result = calls[i].arg
        /\ h.from = hooks.from /\ h.to = hooks.to /\ h.amount = hooks.amount
    BY <1>1, <1>3 DEF FxHooks, FxInputs
  <1> HIDE DEF h
  <1>5. Base' /\ Ended(calls', calls, i) /\ Settled(i, h)
    BY <1>2, ResolveEnds
  <1>6. hooks' \in FxHooks /\ Inputs(hooks') = Inputs(hooks) /\ past \subseteq past'
    BY <1>1, <1>4, <1>5 DEF Settled, Inputs
  <1>7. \A k \in DOMAIN calls' : FxCall(calls'[k], hooks', past')
    BY <1>1, <1>5, <1>6, FxCallStays DEF FxGood, Ended
  <1>8. hooks'.result # NoResult /\ "edited" \notin past' => hooks'.result = Inputs(hooks')
    BY <1>1, <1>2, <1>4, <1>5, <1>6 DEF FxGood, FxCall, Settled
  <1>9. hooks'.converting <=> Working(calls', "convert")
    <2>1. CASE calls[i].live
      <3>1. Does(calls[i], "convert") /\ Alone(calls, "convert")
        BY <1>2, <2>1 DEF Does, Job, Base, AloneAll, Writes
      <3> QED BY <1>4, <1>5, <2>1, <3>1 DEF Ended, Settled
    <2>2. CASE ~calls[i].live
      BY <1>1, <1>5, <2>2 DEF Ended, Settled, Does, FxGood
    <2> QED BY <2>1, <2>2
  <1>10. FxGood(hooks', calls', past')
    BY <1>6, <1>7, <1>8, <1>9 DEF FxGood
  <1> QED BY <1>2, <1>5, <1>10 DEF FxCases, FxInv, Timed, Settled

\* The server answers.
LEMMA FxAnswers ==
  ASSUME Base, Base', Timed, FxInv, screen = "fx", NEW i \in DOMAIN calls, NEW r,
         Answered(calls', calls, i, r), past \subseteq past', past' \subseteq past \union {"outlived"},
         UNCHANGED <<screen, hooks, timers>>
  PROVE  FxCases
  <1>1. FxGood(hooks, calls, past)
    BY DEF FxInv
  <1>2. \A k \in DOMAIN calls' : FxCall(calls'[k], hooks, past')
    BY <1>1 DEF FxGood, FxCall, Answered
  <1>3. FxGood(hooks, calls', past')
    BY <1>1, <1>2 DEF FxGood, Answered
  <1> QED BY <1>3 DEF FxCases, FxInv, Timed

\* Every step of MultiCurrency keeps its invariant.
LEMMA FxKeeps ==
  ASSUME Base, Timed, FxInv, screen = "fx", FxNext PROVE FxCases
  <1>1. hooks \in FxHooks
    BY DEF FxInv, FxGood
  <1>2. ASSUME NEW a \in Sums, FxChange([hooks EXCEPT !.amount = a]) PROVE FxCases
    <2> DEFINE h == [hooks EXCEPT !.amount = a]
    <2>1. h \in FxHooks /\ h.converting = hooks.converting
      BY <1>1 DEF FxHooks
    <2> HIDE DEF h
    <2> QED BY <1>2, <2>1, FxChanges DEF h
  <1>3. ASSUME NEW c \in Currencies, FxChange([hooks EXCEPT !.from = c]) PROVE FxCases
    <2> DEFINE h == [hooks EXCEPT !.from = c]
    <2>1. h \in FxHooks /\ h.converting = hooks.converting
      BY <1>1 DEF FxHooks
    <2> HIDE DEF h
    <2> QED BY <1>3, <2>1, FxChanges DEF h
  <1>4. ASSUME NEW c \in Currencies, FxChange([hooks EXCEPT !.to = c]) PROVE FxCases
    <2> DEFINE h == [hooks EXCEPT !.to = c]
    <2>1. h \in FxHooks /\ h.converting = hooks.converting
      BY <1>1 DEF FxHooks
    <2> HIDE DEF h
    <2> QED BY <1>4, <2>1, FxChanges DEF h
  <1>5. CASE FxChange([hooks EXCEPT !.from = hooks.to, !.to = hooks.from])
    <2> DEFINE h == [hooks EXCEPT !.from = hooks.to, !.to = hooks.from]
    <2>1. h \in FxHooks /\ h.converting = hooks.converting
      BY <1>1 DEF FxHooks
    <2> HIDE DEF h
    <2> QED BY <1>5, <2>1, FxChanges DEF h
  <1>6. ASSUME NEW i \in DOMAIN calls, ConvertServe(i) PROVE FxCases
    <2>1. Write(i, "convert", server, calls[i].arg)
      BY <1>6 DEF ConvertServe
    <2>2. /\ Base' /\ Answered(calls', calls, i, Ok(calls[i].arg))
          /\ UNCHANGED <<screen, hooks, timers>>
          /\ past \subseteq past' /\ past' \subseteq past \union {"outlived"}
      BY <2>1, WriteOne
    <2> QED BY <2>2, FxAnswers
  <1> QED BY <1>2, <1>3, <1>4, <1>5, <1>6, FxOpens, FxSends, FxLoads, FxTicks, FxEnds
          DEF FxNext, FxInput

(* Screens that load a list: Listings, and some of AdminScreens and CustomerScreens *)

\* They load as long as their call is in flight.
LoadScreens == {"transactions", "dashboard", "accounts", "users", "notifications"} \union AdminLists

\* The call whose answer ends loading.
Loader(s) ==
  CASE s = "accounts" -> "accountList"
    [] s = "notifications" -> "notices"
    [] OTHER -> s

LoadGood(s, h, cs) ==
  s \in LoadScreens => "loading" \in DOMAIN h /\ (h.loading => Working(cs, Loader(s)))

LoadInv == LoadGood(screen, hooks, calls)

\* What the steps of these screens keep.
LoadCases == Base' /\ Timed' /\ screen' = screen /\ LoadInv'

\* The loader of a screen is a call of that screen.
LEMMA LoaderFacts ==
  ASSUME NEW s \in LoadScreens
  PROVE  Home(Loader(s)) = {s} /\ Loader(s) \notin Writes /\ Loader(s) # "revoke"
  BY DEF LoadScreens, Loader, Home, FlagWrites, AdminLists, Writes

\* Which call that is.
LEMMA LoaderNames ==
  /\ "transactions" \in LoadScreens /\ Loader("transactions") = "transactions"
  /\ "dashboard" \in LoadScreens /\ Loader("dashboard") = "dashboard"
  /\ "accounts" \in LoadScreens /\ Loader("accounts") = "accountList"
  /\ "users" \in LoadScreens /\ Loader("users") = "users"
  /\ "notifications" \in LoadScreens /\ Loader("notifications") = "notices"
  /\ \A s \in AdminLists : s \in LoadScreens /\ Loader(s) = s
  BY DEF LoadScreens, Loader, AdminLists

\* A handler sets hooks, and what loads goes on loading.
LEMMA LoadSets ==
  ASSUME Base, Timed, LoadInv, NEW h, Set(h),
         screen \in LoadScreens => "loading" \in DOMAIN h /\ (h.loading => hooks.loading)
  PROVE  LoadCases
  BY DEF Set, LoadCases, LoadInv, LoadGood, Base, Timed

\* A handler changes one hook, or two, and neither is the one that loads.
LEMMA LoadChanges ==
  ASSUME Base, Timed, LoadInv, NEW f, f # "loading", NEW v, Set([hooks EXCEPT ![f] = v])
  PROVE  LoadCases
  <1> DEFINE h == [hooks EXCEPT ![f] = v]
  <1>1. "loading" \in DOMAIN hooks => "loading" \in DOMAIN h /\ h.loading = hooks.loading
    OBVIOUS
  <1> HIDE DEF h
  <1> QED BY <1>1, LoadSets DEF h, LoadInv, LoadGood

\* The same for two hooks.
LEMMA LoadChangesTwo ==
  ASSUME Base, Timed, LoadInv, NEW f, f # "loading", NEW v, NEW g, g # "loading", NEW w,
         Set([hooks EXCEPT ![f] = v, ![g] = w])
  PROVE  LoadCases
  <1> DEFINE h == [hooks EXCEPT ![f] = v, ![g] = w]
  <1>1. "loading" \in DOMAIN hooks => "loading" \in DOMAIN h /\ h.loading = hooks.loading
    OBVIOUS
  <1> HIDE DEF h
  <1> QED BY <1>1, LoadSets DEF h, LoadInv, LoadGood

\* A screen is opened and loads.
LEMMA LoadOpens ==
  ASSUME Base, NEW s \in LoadScreens, screen = s, NEW h, "loading" \in DOMAIN h, NEW resource,
         Mount(s, h, <<Get(Loader(s), resource)>>)
  PROVE  LoadCases
  <1> DEFINE c == Get(Loader(s), resource)
  <1>1. Shape(c) /\ c.op = Loader(s) /\ c.live
    BY GetShape
  <1>2. MountWith(s, h, <<c>>, <<>>)
    BY Zenon DEF Mount
  <1> HIDE DEF c
  <1>3. s \in Home(c.op) /\ Job(c) = Loader(s) /\ Job(c) \notin Writes /\ SameFamily(screen, s)
    BY <1>1, LoaderFacts DEF Job, SameFamily
  <1>4. /\ Base' /\ \E mid : Dropped(mid, calls) /\ Made(calls', mid, c)
        /\ screen' = s /\ hooks' = h /\ timers' = <<>>
    BY <1>1, <1>2, <1>3, OpenSends
  <1>5. Working(calls', Loader(s))
    BY <1>1, <1>3, <1>4 DEF Made, Does
  <1> QED BY <1>4, <1>5, NoTimers DEF LoadCases, LoadInv, LoadGood

\* A screen that does not load is opened.
LEMMA PlainOpens ==
  ASSUME Base, NEW s, s \notin LoadScreens, screen = s, NEW h, Mount(s, h, <<>>)
  PROVE  LoadCases
  <1>1. MountWith(s, h, <<>>, <<>>)
    BY Zenon DEF Mount
  <1>2. Base' /\ screen' = s /\ timers' = <<>>
    BY <1>1, OpenQuiet DEF SameFamily
  <1> QED BY <1>2, NoTimers DEF LoadCases, LoadInv, LoadGood

\* A call comes back: the one that ends loading, or another.
LEMMA LoadSettles ==
  ASSUME Base, Timed, LoadInv, NEW i \in DOMAIN calls, NEW h, Resolve(i, h, <<>>), timers' = timers,
         screen \in LoadScreens => "loading" \in DOMAIN h,
         \/ screen \notin LoadScreens
         \/ ~h.loading
         \/ calls[i].op # Loader(screen) /\ calls[i].op # "revoke" /\ h.loading = hooks.loading
  PROVE  LoadCases
  <1>1. Base' /\ Ended(calls', calls, i) /\ Settled(i, h)
    BY ResolveEnds
  <1>2. Timed' /\ screen' = screen
    BY <1>1 DEF Timed, Settled
  <1>3. LoadInv'
    <2> SUFFICES ASSUME screen \in LoadScreens
                 PROVE  "loading" \in DOMAIN hooks' /\ (hooks'.loading => Working(calls', Loader(screen)))
      BY <1>2 DEF LoadInv, LoadGood
    <2>1. "loading" \in DOMAIN hooks' /\ (hooks.loading => Working(calls, Loader(screen)))
      BY <1>1 DEF Settled, LoadInv, LoadGood
    <2>2. CASE hooks'.loading
      <3>1. hooks.loading /\ ~Does(calls[i], Loader(screen))
        BY <1>1, <2>2 DEF Settled, Does, Job
      <3> QED BY <1>1, <2>1, <3>1 DEF Ended
    <2> QED BY <2>1, <2>2
  <1> QED BY <1>1, <1>2, <1>3 DEF LoadCases

\* The list comes in.
LEMMA LoadResolves ==
  ASSUME Base, Timed, LoadInv, NEW i \in DOMAIN calls, NEW f, f # "loading", NEW v, timers' = timers,
         Resolve(i, [hooks EXCEPT ![f] = v, !.loading = FALSE], <<>>)
  PROVE  LoadCases
  <1> DEFINE h == [hooks EXCEPT ![f] = v, !.loading = FALSE]
  <1>1. "loading" \in DOMAIN hooks => "loading" \in DOMAIN h /\ ~h.loading
    OBVIOUS
  <1> HIDE DEF h
  <1> QED BY <1>1, LoadSettles DEF h, LoadInv, LoadGood

\* A call is sent and what loads goes on loading.
LEMMA LoadSends ==
  ASSUME Base, Timed, LoadInv, NEW c, Shape(c), c.live, screen \in Home(c.op), Job(c) \notin Writes,
         Send(<<c>>), UNCHANGED <<screen, timers>>, past' \subseteq Pasts,
         screen \in LoadScreens => "loading" \in DOMAIN hooks' /\ (hooks'.loading => hooks.loading)
  PROVE  LoadCases
  <1>1. Base' /\ Made(calls', calls, c)
    BY SendOne
  <1> QED BY <1>1 DEF LoadCases, LoadInv, LoadGood, Timed, Made

\* The server answers.
LEMMA LoadAnswers ==
  ASSUME Base', Timed, LoadInv, NEW i \in DOMAIN calls, NEW r, Answered(calls', calls, i, r),
         UNCHANGED <<screen, hooks, timers>>
  PROVE  LoadCases
  BY DEF LoadCases, LoadInv, LoadGood, Timed, Answered

\* Every step of Listings.
LEMMA ListingsKeep ==
  ASSUME Base, Timed, LoadInv, ListingsNext
  PROVE  LoadCases
  <1>1. CASE screen = "transactions" /\ TransactionsMount
    BY <1>1, LoadOpens, LoaderNames DEF TransactionsMount, TransactionsState
  <1>2. CASE screen = "dashboard" /\ DashboardMount
    BY <1>2, LoadOpens, LoaderNames DEF DashboardMount, DashboardState
  <1>3. CASE screen = "accounts" /\ AccountsMount
    BY <1>3, LoadOpens, LoaderNames DEF AccountsMount, AccountsState
  <1>4. CASE screen = "markets" /\ MarketsMount
    BY <1>4, PlainOpens DEF MarketsMount, LoadScreens, AdminLists
  <1>5. ASSUME NEW i \in DOMAIN calls, TransactionsFetched(i) PROVE LoadCases
    <2> DEFINE v == RowsOr(calls[i].reply, DemoRows)
               h == [hooks EXCEPT !.transactions = v, !.loading = FALSE]
    <2>1. calls[i].op = "transactions" /\ Resolve(i, h, <<>>) /\ timers' = timers
      BY <1>5 DEF TransactionsFetched
    <2> HIDE DEF v
    <2> QED BY <2>1, LoadResolves
  <1>6. ASSUME NEW i \in DOMAIN calls, DashboardFetched(i) PROVE LoadCases
    <2> DEFINE v == RowsOr(calls[i].reply, DemoRows)
               h == [hooks EXCEPT !.transactions = v, !.loading = FALSE]
    <2>1. calls[i].op = "dashboard" /\ Resolve(i, h, <<>>) /\ timers' = timers
      BY <1>6 DEF DashboardFetched
    <2> HIDE DEF v
    <2> QED BY <2>1, LoadResolves
  <1>7. ASSUME NEW i \in DOMAIN calls, AccountsFetched(i) PROVE LoadCases
    <2> DEFINE v == IF calls[i].reply.value = "some" THEN "server" ELSE "demo"
               h == [hooks EXCEPT !.accounts = v, !.loading = FALSE]
    <2>1. calls[i].op = "accountList" /\ Resolve(i, h, <<>>) /\ timers' = timers
      BY <1>7 DEF AccountsFetched
    <2> HIDE DEF v
    <2> QED BY <2>1, LoadResolves
  <1>8. ASSUME NEW v, TransactionsView(v) \/ AccountsView(v) PROVE LoadCases
    BY <1>8, LoadChanges DEF TransactionsView, AccountsView
  <1>9. ASSUME NEW v, NetworkHover(v) PROVE LoadCases
    BY <1>9, LoadChanges DEF NetworkHover
  <1>10. ASSUME NEW v, MarketsRange(v) PROVE LoadCases
    BY <1>10, LoadChangesTwo DEF MarketsRange
  <1>11. ASSUME NEW v, MarketsType(v) PROVE LoadCases
    BY <1>11, LoadChanges DEF MarketsType
  <1>12. ASSUME NEW v, TransactionsFilter(v) PROVE LoadCases
    BY <1>12, LoadChangesTwo DEF TransactionsFilter
  <1>13. ASSUME NEW v, TransactionsSearch(v) PROVE LoadCases
    BY <1>13, LoadChangesTwo DEF TransactionsSearch
  <1>14. CASE TransactionsPage
    BY <1>14, LoadChanges DEF TransactionsPage
  <1>15. CASE NetworkPulse
    BY <1>15, LoadChanges DEF NetworkPulse
  <1> QED BY <1>1, <1>2, <1>3, <1>4, <1>5, <1>6, <1>7, <1>8, <1>9, <1>10, <1>11, <1>12, <1>13, <1>14, <1>15
          DEF ListingsNext

(* What the listings show *)

ListScreens == {"transactions", "dashboard", "accounts"}

\* The resource that a listing reads.
Source(s) == IF s = "accounts" THEN "list" ELSE "transactions"

ListCall(c, s, rows) ==
  c.op = Loader(s) =>
    c.resource = Source(s) /\ (c.reply.status = "ok" => c.reply.value = rows[Source(s)])

\* What the screen has when its rows have come.
ListShown(s, h, rows) ==
  IF s = "accounts" THEN h.accounts = (IF rows.list = "some" THEN "server" ELSE "demo")
  ELSE h.transactions = RowsOr(Ok(rows.transactions), DemoRows)

\* The page that is shown begins with one of the rows that are left, if any is.
PageGood(h) ==
  /\ {"transactions", "filter", "search", "page"} \subseteq DOMAIN h
  /\ IsSequence(h.transactions) /\ h.page \in Nat \ {0}
  /\ h.loading => h.page = 1
  /\ h.page = 1 \/ (h.page - 1) * PerPage < Cardinality(Filtered(h))

\* The one call of a listing is waited for, and what it brings is shown.
ListGood(s, h, cs, rows, p) ==
  s \in ListScreens =>
    /\ rows \in ListingRows
    /\ {"loading", IF s = "accounts" THEN "accounts" ELSE "transactions"} \subseteq DOMAIN h
    /\ \A k \in DOMAIN cs : ListCall(cs[k], s, rows)
    /\ Alone(cs, Loader(s)) /\ (Working(cs, Loader(s)) => h.loading)
    /\ ~h.loading /\ "failed" \notin p => ListShown(s, h, rows)
    /\ s = "transactions" => PageGood(h)

ListInv == ListGood(screen, hooks, calls, server, past)

\* The listings load, and what loads is told apart by its screen.
LEMMA ListNames ==
  ASSUME NEW s \in ListScreens
  PROVE  /\ s \in LoadScreens /\ Home(Loader(s)) = {s} /\ Loader(s) # "revoke" /\ Loader(s) # "none"
         /\ Source(s) \in {"transactions", "list"} /\ \A rows \in ListingRows : Source(s) \in DOMAIN rows
  <1>1. s \in LoadScreens /\ Loader(s) # "none"
    BY DEF ListScreens, LoadScreens, Loader
  <1> QED BY <1>1, LoaderFacts DEF Source, ListingRows

\* What the filter leaves is counted.
LEMMA FilteredFacts ==
  ASSUME NEW h, IsSequence(h.transactions)
  PROVE  /\ Len(h.transactions) \in Nat /\ \A k \in Filtered(h) : k \in 1 .. Len(h.transactions)
         /\ IsFiniteSet(Filtered(h)) /\ Cardinality(Filtered(h)) \in Nat
         /\ Filtered(h) # {} => 0 < Cardinality(Filtered(h))
  <1>1. Len(h.transactions) \in Nat /\ DOMAIN h.transactions = 1 .. Len(h.transactions)
    BY SequenceFacts DEF IsSequence
  <1>2. \A k \in Filtered(h) : k \in 1 .. Len(h.transactions)
    BY <1>1, Zenon DEF Filtered
  <1>3. IsFiniteSet(1 .. Len(h.transactions)) /\ Filtered(h) \subseteq 1 .. Len(h.transactions)
    BY <1>1, <1>2, FS_Interval
  <1>4. IsFiniteSet(Filtered(h))
    BY <1>3, FS_Subset
  <1>5. Cardinality(Filtered(h)) \in Nat /\ (Cardinality(Filtered(h)) = 0 <=> Filtered(h) = {})
    BY <1>4, FS_CardinalityType, FS_EmptySet
  <1> QED BY <1>1, <1>2, <1>4, <1>5

\* A page that begins with a row has one.
LEMMA PageGoodHasRows ==
  ASSUME NEW h, PageGood(h), Filtered(h) # {}
  PROVE  Paginated(h) # {}
  <1> DEFINE F == Filtered(h)
             n == (h.page - 1) * PerPage
             N == Len(h.transactions)
  <1>1. /\ Len(h.transactions) \in Nat /\ \A k \in F : k \in 1 .. Len(h.transactions)
        /\ Cardinality(F) \in Nat /\ 0 < Cardinality(F)
    BY FilteredFacts DEF PageGood
  <1>2. h.page - 1 \in Nat /\ PerPage \in Nat \ {0}
    BY PerPageAssumption DEF PageGood
  <1>3. n \in Nat /\ n < Cardinality(F)
    BY <1>1, <1>2 DEF PageGood
  <1>4. n \div PerPage = h.page - 1
    BY <1>2, PageStart
  <1> HIDE DEF F, n, N
  <1>5. PICK k \in F : Rank(F, k) = n
    <2>1. N \in Nat /\ \A k \in F : k \in 1 .. N
      BY <1>1 DEF N
    <2> QED BY <1>3, <2>1, RankExists
  <1>6. k \in Paginated(h)
    BY <1>4, <1>5 DEF Paginated, Rank, F
  <1> QED BY <1>6

\* The rows that come are a sequence.
LEMMA RowsAreSequences ==
  ASSUME NEW rows \in ListingRows, NEW r, r.status = "ok" => r.value = rows.transactions
  PROVE  IsSequence(RowsOr(r, DemoRows)) /\ (r.status = "ok" => RowsOr(r, DemoRows) = RowsOr(Ok(rows.transactions), DemoRows))
  <1>1. IsSequence(Rows) /\ IsSequence(DemoRows)
    BY PerPageAssumption, SeqIsSequence
  <1>2. IsSequence(<<>>)
    BY DEF IsSequence
  <1> QED BY <1>1, <1>2 DEF RowsOr, Ok, ListingRows

\* A handler leaves alone what the rows are and whether they are there.
LEMMA ListSets ==
  ASSUME Base, ListInv, NEW h, Set(h), screen \in ListScreens,
         DOMAIN h = DOMAIN hooks, h.loading = hooks.loading,
         IF screen = "accounts" THEN h.accounts = hooks.accounts ELSE h.transactions = hooks.transactions,
         screen = "transactions" => PageGood(h)
  PROVE  ListInv'
  BY DEF Set, ListInv, ListGood, ListShown

\* A listing is opened.
LEMMA ListOpens ==
  ASSUME Base, ListInv, NEW s \in ListScreens, screen = s, NEW h, h.loading,
         {"loading", IF s = "accounts" THEN "accounts" ELSE "transactions"} \subseteq DOMAIN h,
         s = "transactions" => PageGood(h),
         Mount(s, h, <<Get(Loader(s), Source(s))>>)
  PROVE  ListInv'
  <1> DEFINE c == Get(Loader(s), Source(s))
  <1>1. Shape(c) /\ c.op = Loader(s) /\ c.resource = Source(s) /\ c.live /\ c.reply.status = "waiting"
    BY GetShape
  <1>2. MountWith(s, h, <<c>>, <<>>)
    BY Zenon DEF Mount
  <1> HIDE DEF c
  <1>3. s \in Home(c.op) /\ Job(c) \notin Writes /\ SameFamily(screen, s)
    BY <1>1, LoaderFacts, ListNames DEF Job, SameFamily
  <1>4. PICK mid : Dropped(mid, calls) /\ Made(calls', mid, c)
    BY <1>1, <1>2, <1>3, OpenSends
  <1>5. screen' = s /\ hooks' = h /\ server' = server
    BY <1>1, <1>2, <1>3, OpenSends
  <1>6. \A k \in DOMAIN mid : ListCall(mid[k], s, server)
    BY <1>4 DEF Dropped, ListCall, ListInv, ListGood
  <1>7. \A k \in DOMAIN calls' : ListCall(calls'[k], s, server)
    BY <1>1, <1>4, <1>6 DEF Made, ListCall
  <1>8. Alone(calls', Loader(s))
    BY <1>4 DEF Dropped, Made
  <1> QED BY <1>5, <1>7, <1>8 DEF ListInv, ListGood

\* The rows come in, or the call failed.
LEMMA ListResolves ==
  ASSUME Base, ListInv, screen \in ListScreens, NEW i \in DOMAIN calls, calls[i].op = Loader(screen),
         ~Unanswered(i), NEW h, Resolve(i, h, <<>>), DOMAIN h = DOMAIN hooks, ~h.loading,
         calls[i].live /\ calls[i].reply.status = "ok" => ListShown(screen, h, server),
         calls[i].live /\ screen = "transactions" => PageGood(h)
  PROVE  ListInv'
  <1>1. Ended(calls', calls, i) /\ Settled(i, h)
    BY ResolveEnds
  <1>2. Does(calls[i], Loader(screen)) <=> calls[i].live
    BY ListNames DEF Does, Job
  <1>3. calls[i].live \in BOOLEAN /\ calls[i].reply.status \in {"ok", "failed"}
    BY DEF Base, Shaped, Shape, Unanswered
  <1>4. \A k \in DOMAIN calls' : ListCall(calls'[k], screen, server)
    BY <1>1 DEF Ended, Alike, ListCall, ListInv, ListGood
  <1>5. Alone(calls', Loader(screen)) /\ (Working(calls', Loader(screen)) => Working(calls, Loader(screen)) /\ ~calls[i].live)
    BY <1>1, <1>2 DEF Ended, ListInv, ListGood
  <1>6. screen' = screen /\ server' = server
    BY <1>1 DEF Settled
  <1>7. CASE calls[i].live
    <2>1. hooks' = h /\ (calls[i].reply.status = "failed" => "failed" \in past')
      BY <1>1, <1>7 DEF Settled
    <2> QED BY <1>3, <1>4, <1>5, <1>6, <1>7, <2>1 DEF ListInv, ListGood
  <1>8. CASE ~calls[i].live
    <2>1. hooks' = hooks /\ past \subseteq past'
      BY <1>1, <1>8 DEF Settled
    <2> QED BY <1>4, <1>5, <1>6, <2>1 DEF ListInv, ListGood
  <1> QED BY <1>3, <1>7, <1>8

\* The server answers.
LEMMA ListAnswers ==
  ASSUME Base, ListInv, NEW i \in DOMAIN calls, NEW r, Answered(calls', calls, i, r),
         r.status = "ok" => calls[i].resource \in DOMAIN server /\ r.value = server[calls[i].resource],
         UNCHANGED <<screen, hooks, server, past>>
  PROVE  ListInv'
  <1> SUFFICES ASSUME screen \in ListScreens PROVE ListInv'
    BY DEF ListInv, ListGood
  <1>1. \A k \in DOMAIN calls' : ListCall(calls'[k], screen, server)
    BY DEF Answered, ListCall, ListInv, ListGood
  <1> QED BY <1>1 DEF ListInv, ListGood, Answered

\* Another filter or search begins with the first page.
LEMMA FirstPageGood ==
  ASSUME NEW h, PageGood(h), NEW w, DOMAIN w = DOMAIN h,
         w.loading = h.loading, w.transactions = h.transactions, w.page = 1
  PROVE  PageGood(w)
  BY DEF PageGood

\* The same rows on another page.
LEMMA OtherPageGood ==
  ASSUME NEW h, PageGood(h), ~h.loading, NEW p \in Nat \ {0},
         p = 1 \/ (p - 1) * PerPage < Cardinality(Filtered(h))
  PROVE  LET w == [h EXCEPT !.page = p] IN
         /\ PageGood(w) /\ DOMAIN w = DOMAIN h /\ w.loading = h.loading /\ w.transactions = h.transactions
  <1> DEFINE w == [h EXCEPT !.page = p]
  <1>1. /\ DOMAIN w = DOMAIN h /\ w.transactions = h.transactions /\ w.loading = h.loading /\ w.page = p
        /\ w.filter = h.filter /\ w.search = h.search
    BY DEF PageGood
  <1> HIDE DEF w
  <1>2. Filtered(w) = Filtered(h)
    BY <1>1, Zenon DEF Filtered
  <1>3. PageGood(w)
    BY <1>1, <1>2 DEF PageGood
  <1> QED BY <1>1, <1>3 DEF w

\* The buttons of the pages lead to pages that there are.
LEMMA PagesTurn ==
  ASSUME Base, ListInv, TransactionsPage PROVE ListInv'
  <1>1. screen = "transactions" /\ screen \in ListScreens /\ ~hooks.loading
    BY DEF TransactionsPage, ListOffers, TransactionsControls, ListScreens
  <1>2. PageGood(hooks)
    BY <1>1 DEF ListInv, ListGood
  <1>3. \A p : /\ p \in Nat \ {0} /\ (p = 1 \/ (p - 1) * PerPage < Cardinality(Filtered(hooks)))
               /\ Set([hooks EXCEPT !.page = p])
               => ListInv'
    <2> SUFFICES ASSUME NEW p \in Nat \ {0}, p = 1 \/ (p - 1) * PerPage < Cardinality(Filtered(hooks)),
                        Set([hooks EXCEPT !.page = p])
                 PROVE  ListInv'
      OBVIOUS
    <2> DEFINE h == [hooks EXCEPT !.page = p]
    <2>1. PageGood(h) /\ DOMAIN h = DOMAIN hooks /\ h.loading = hooks.loading /\ h.transactions = hooks.transactions
      BY <1>1, <1>2, OtherPageGood
    <2> HIDE DEF h
    <2> QED BY <1>1, <2>1, ListSets DEF h
  <1>4. /\ hooks.page \in Nat \ {0} /\ PerPage \in Nat \ {0} /\ Cardinality(Filtered(hooks)) \in Nat
        /\ hooks.page = 1 \/ (hooks.page - 1) * PerPage < Cardinality(Filtered(hooks))
    BY <1>2, PerPageAssumption, FilteredFacts DEF PageGood
  <1> DEFINE back == IF hooks.page > 1 THEN hooks.page - 1 ELSE 1
             forth == IF hooks.page < TotalPages(hooks) THEN hooks.page + 1 ELSE hooks.page
             L == Cardinality(Filtered(hooks))
  <1>5. back \in Nat \ {0} /\ (back = 1 \/ (back - 1) * PerPage < L)
    <2>1. CASE back = 1
      BY <2>1
    <2>2. CASE back # 1
      <3>1. hooks.page \in Nat /\ back = hooks.page - 1 /\ back \in Nat \ {0} /\ (hooks.page - 1) * PerPage < L
        BY <1>4, <2>2
      <3>2. (back - 1) * PerPage <= back * PerPage
        BY <1>4, <3>1
      <3> QED BY <1>4, <3>1, <3>2
    <2> QED BY <2>1, <2>2
  <1>6. forth \in Nat \ {0} /\ (forth = 1 \/ (forth - 1) * PerPage < L)
    <2>1. CASE hooks.page < TotalPages(hooks)
      <3>1. TotalPages(hooks) = (L + PerPage - 1) \div PerPage /\ TotalPages(hooks) \in Int
        BY <1>4 DEF TotalPages
      <3>2. hooks.page + 1 <= TotalPages(hooks) /\ hooks.page + 1 \in Nat
        BY <1>4, <2>1, <3>1
      <3> HIDE DEF L
      <3>3. (hooks.page + 1 - 1) * PerPage < L
        BY <1>4, <3>1, <3>2, PageBegins DEF L
      <3> QED BY <1>4, <2>1, <3>3
    <2> QED BY <1>4, <2>1
  <1>7. Set([hooks EXCEPT !.page = back]) \/ Set([hooks EXCEPT !.page = forth])
    BY DEF TransactionsPage
  <1> HIDE DEF back, forth
  <1> QED BY <1>3, <1>5, <1>6, <1>7

\* Every step of Listings keeps what they show.
LEMMA ListingsShow ==
  ASSUME Base, ListInv, ListingsNext, screen' = screen PROVE ListInv'
  <1> SUFFICES ASSUME screen \in ListScreens PROVE ListInv'
    BY DEF ListInv, ListGood
  <1>1. ASSUME NEW i \in DOMAIN calls PROVE Home(calls[i].op) = {screen} => calls[i].op = Loader(screen)
    BY ListNames, HomeFacts DEF Home, ListScreens, Loader, FlagWrites, AdminLists
  <1>2. CASE TransactionsMount /\ screen = "transactions"
    <2>1. Source("transactions") = "transactions" /\ "transactions" \in ListScreens
      BY DEF Source, ListScreens
    <2>2. TransactionsState.loading /\ PageGood(TransactionsState) /\ "loading" \in DOMAIN TransactionsState
      BY DEF TransactionsState, PageGood, IsSequence
    <2>3. "transactions" \in DOMAIN TransactionsState
      BY DEF TransactionsState
    <2> QED BY <1>2, <2>1, <2>2, <2>3, ListOpens, LoaderNames DEF TransactionsMount
  <1>3. CASE DashboardMount /\ screen = "dashboard"
    <2>1. Source("dashboard") = "transactions" /\ "dashboard" \in ListScreens
      BY DEF Source, ListScreens
    <2>2. DashboardState.loading /\ "loading" \in DOMAIN DashboardState /\ "transactions" \in DOMAIN DashboardState
      BY DEF DashboardState
    <2> QED BY <1>3, <2>1, <2>2, ListOpens, LoaderNames DEF DashboardMount
  <1>4. CASE AccountsMount /\ screen = "accounts"
    <2>1. Source("accounts") = "list" /\ "accounts" \in ListScreens
      BY DEF Source, ListScreens
    <2>2. AccountsState.loading /\ "loading" \in DOMAIN AccountsState /\ "accounts" \in DOMAIN AccountsState
      BY DEF AccountsState
    <2> QED BY <1>4, <2>1, <2>2, ListOpens, LoaderNames DEF AccountsMount
  <1>5. ASSUME NEW i \in DOMAIN calls, TransactionsFetched(i) \/ DashboardFetched(i) PROVE ListInv'
    <2> DEFINE v == RowsOr(calls[i].reply, DemoRows)
               h == [hooks EXCEPT !.transactions = v, !.loading = FALSE]
    <2>1. /\ calls[i].op \in {"transactions", "dashboard"} /\ ~Unanswered(i)
          /\ Resolve(i, h, <<>>)
      BY <1>5 DEF TransactionsFetched, DashboardFetched
    <2>2. screen = calls[i].op /\ calls[i].op = Loader(screen)
      BY <2>1, HomeFacts, LoaderNames DEF Base, OwnCalls
    <2>3. Source(screen) = "transactions" /\ ListCall(calls[i], screen, server) /\ server \in ListingRows
      BY <2>1, <2>2 DEF Source, ListInv, ListGood
    <2>4. IsSequence(v) /\ (calls[i].reply.status = "ok" => v = RowsOr(Ok(server.transactions), DemoRows))
      BY <2>2, <2>3, RowsAreSequences DEF ListCall
    <2> HIDE DEF v
    <2>5. /\ DOMAIN h = DOMAIN hooks /\ ~h.loading /\ h.transactions = v
          /\ screen = "transactions" => h.page = hooks.page
      BY <2>1, <2>2 DEF ListInv, ListGood
    <2>6. calls[i].live /\ screen = "transactions" => hooks.page = 1 /\ PageGood(hooks)
      BY <2>2, ListNames DEF ListInv, ListGood, PageGood, Working, Does, Job
    <2> HIDE DEF h
    <2>7. calls[i].live /\ screen = "transactions" => PageGood(h)
      BY <2>4, <2>5, <2>6 DEF PageGood
    <2>8. calls[i].reply.status = "ok" => ListShown(screen, h, server)
      BY <2>1, <2>2, <2>4, <2>5 DEF ListShown
    <2> QED BY <2>1, <2>2, <2>5, <2>7, <2>8, ListResolves
  <1>6. ASSUME NEW i \in DOMAIN calls, AccountsFetched(i) PROVE ListInv'
    <2> DEFINE v == IF calls[i].reply.value = "some" THEN "server" ELSE "demo"
               h == [hooks EXCEPT !.accounts = v, !.loading = FALSE]
    <2>1. calls[i].op = "accountList" /\ ~Unanswered(i) /\ Resolve(i, h, <<>>)
      BY <1>6 DEF AccountsFetched
    <2>2. screen = "accounts" /\ calls[i].op = Loader(screen)
      BY <2>1, HomeFacts, LoaderNames DEF Base, OwnCalls
    <2>3. Source(screen) = "list" /\ ListCall(calls[i], screen, server)
      BY <2>1, <2>2 DEF Source, ListInv, ListGood
    <2>4. calls[i].reply.status = "ok" => v = IF server.list = "some" THEN "server" ELSE "demo"
      BY <2>2, <2>3 DEF ListCall
    <2> HIDE DEF v
    <2>5. DOMAIN h = DOMAIN hooks /\ ~h.loading /\ h.accounts = v
      BY <2>2 DEF ListInv, ListGood
    <2> HIDE DEF h
    <2>6. calls[i].reply.status = "ok" => ListShown(screen, h, server)
      BY <2>2, <2>4, <2>5 DEF ListShown
    <2> QED BY <2>1, <2>2, <2>5, <2>6, ListResolves
  <1>7. ASSUME NEW f \in {"view", "pulsePhase", "activeNode"}, NEW v, Set([hooks EXCEPT ![f] = v]) PROVE ListInv'
    <2> DEFINE h == [hooks EXCEPT ![f] = v]
    <2>1. /\ DOMAIN h = DOMAIN hooks /\ h.loading = hooks.loading
          /\ h.accounts = hooks.accounts /\ h.transactions = hooks.transactions
          /\ h.page = hooks.page /\ h.filter = hooks.filter /\ h.search = hooks.search
      BY DEF ListInv, ListGood, PageGood
    <2> HIDE DEF h
    <2>2. Filtered(h) = Filtered(hooks)
      BY <2>1, Zenon DEF Filtered
    <2>3. screen = "transactions" => PageGood(h)
      BY <2>1, <2>2 DEF ListInv, ListGood, PageGood
    <2> QED BY <1>7, <2>1, <2>3, ListSets DEF h
  <1>8. CASE \/ \E v \in {"personal", "global"} : TransactionsView(v) \/ AccountsView(v)
             \/ NetworkPulse \/ \E n \in {"none", "hub"} : NetworkHover(n)
    BY <1>7, <1>8 DEF TransactionsView, AccountsView, NetworkPulse, NetworkHover
  <1>9. ASSUME NEW h, ListOffers("filter") \/ ListOffers("search"), Set(h),
               DOMAIN h = DOMAIN hooks /\ h.loading = hooks.loading,
               h.transactions = hooks.transactions, h.page = 1
        PROVE  ListInv'
    <2>1. screen = "transactions" /\ PageGood(hooks)
      BY <1>9 DEF ListOffers, ListInv, ListGood
    <2>2. PageGood(h)
      BY <1>9, <2>1, FirstPageGood
    <2> QED BY <1>9, <2>1, <2>2, ListSets
  <1>10. ASSUME NEW v, TransactionsFilter(v) PROVE ListInv'
    <2> DEFINE h == [hooks EXCEPT !.filter = v, !.page = 1]
    <2>1. ListOffers("filter") /\ Set(h)
      BY <1>10 DEF TransactionsFilter
    <2>2. "page" \in DOMAIN hooks
      BY <2>1 DEF ListOffers, ListInv, ListGood, PageGood
    <2>3. /\ DOMAIN h = DOMAIN hooks /\ h.loading = hooks.loading
          /\ h.transactions = hooks.transactions /\ h.page = 1
      BY <2>2
    <2> HIDE DEF h
    <2> QED BY <1>9, <2>1, <2>3
  <1>11. ASSUME NEW v, TransactionsSearch(v) PROVE ListInv'
    <2> DEFINE h == [hooks EXCEPT !.search = v, !.page = 1]
    <2>1. ListOffers("search") /\ Set(h)
      BY <1>11 DEF TransactionsSearch
    <2>2. "page" \in DOMAIN hooks
      BY <2>1 DEF ListOffers, ListInv, ListGood, PageGood
    <2>3. /\ DOMAIN h = DOMAIN hooks /\ h.loading = hooks.loading
          /\ h.transactions = hooks.transactions /\ h.page = 1
      BY <2>2
    <2> HIDE DEF h
    <2> QED BY <1>9, <2>1, <2>3
  <1>12. screen # "markets"
    BY DEF ListScreens
  <1>13. ~(\E r \in Ranges : MarketsRange(r)) /\ ~(\E t \in {"area", "candle"} : MarketsType(t))
    BY <1>12, Zenon DEF MarketsRange, MarketsType
  <1> QED BY <1>2, <1>3, <1>4, <1>5, <1>6, <1>8, <1>10, <1>11, <1>12, <1>13, PagesTurn, Zenon DEF ListingsNext

(* Screens that show something until a timeout ends it *)

\* What is restored, copied, typed, submitted or counted has its timeout.
FlashInv ==
  /\ screen = "backups" => "restoring" \in DOMAIN hooks /\ (hooks.restoring # "none" => Pending("restored"))
  /\ screen = "cards" => "copied" \in DOMAIN hooks /\ (hooks.copied => Pending("copied"))
  /\ screen \in Chats => "typing" \in DOMAIN hooks /\ (hooks.typing => Pending("reply"))
  /\ screen = "contact" => "submitted" \in DOMAIN hooks /\ (hooks.submitted => Pending("submitted"))
  /\ screen = "landing" => "count" \in DOMAIN hooks /\ (hooks.count < CountEnd => Pending("count"))

\* The screens it is about.
FlashScreens == {"backups", "cards", "contact", "landing"} \union Chats

\* A timeout is set or fires and the calls stay.
LEMMA FlashSteps ==
  ASSUME Base, Timed, NEW h, NEW kind, SetAndDelay(h, kind) \/ Fire(kind, h)
  PROVE  /\ Base' /\ Timed' /\ screen' = screen /\ hooks' = h
         /\ SetAndDelay(h, kind) => Pending(kind)'
  BY DelayFacts, FireFacts DEF SetAndDelay, Fire, Base

(* AdminScreens *)

\* What the steps of AdminScreens keep.
AdminCases == LoadCases /\ FlashInv'

\* Where a step has nothing to do with timeouts.
LEMMA NoFlash ==
  ASSUME screen \notin FlashScreens, LoadCases PROVE AdminCases
  BY DEF AdminCases, LoadCases, FlashInv, FlashScreens

\* A handler of an administration screen that writes sends and sets nothing.
LEMMA FlagSends ==
  ASSUME Base, Timed, LoadInv, NEW op \in FlagWrites, NEW f, NEW v, FlagSend(op, f, v)
  PROVE  AdminCases
  <1> DEFINE c == Post(op, [flag |-> f, value |-> v])
  <1>1. Shape(c) /\ c.op = op /\ c.live
    BY PostShape
  <1>2. screen = "flags" /\ hooks' = hooks /\ Send(<<c>>) /\ UNCHANGED <<screen, timers, past>>
    BY Zenon DEF FlagSend, SetAndSend
  <1> HIDE DEF c
  <1>3. screen \in Home(c.op) /\ Job(c) \notin Writes
    BY <1>1, <1>2, HomeFacts DEF Job, Writes, FlagWrites
  <1>4. screen \notin LoadScreens /\ screen \notin FlashScreens /\ past' \subseteq Pasts
    BY <1>2 DEF LoadScreens, AdminLists, FlashScreens, Chats, Base
  <1>5. LoadCases
    BY <1>1, <1>2, <1>3, <1>4, LoadSends
  <1> QED BY <1>4, <1>5, NoFlash

\* After a change of a flag that worked the flags are fetched again.
LEMMA FlagsWritten ==
  ASSUME Base, Timed, LoadInv, NEW i \in DOMAIN calls, FlagWritten(i)
  PROVE  LoadCases
  <1> DEFINE c == Get("flags", "flags")
  <1>1. screen = "flags" /\ timers' = timers
    BY HomeFacts DEF FlagWritten, Base, OwnCalls
  <1>2. Shape(c) /\ c.op = "flags"
    BY GetShape
  <1>3. screen \in Home(c.op) /\ Job(c) \notin Writes
    BY <1>1, <1>2, HomeFacts DEF Job, Writes
  <1>4. screen \notin LoadScreens
    BY <1>1 DEF LoadScreens, AdminLists
  <1>5. \A h : Resolve(i, h, FetchFlags) => Base' /\ screen' = screen
    <2> TAKE h
    <2>1. FetchFlags = <<c>>
      BY DEF FetchFlags
    <2> HIDE DEF c
    <2> QED BY <1>2, <1>3, <2>1, ResolveSends DEF Settled
  <1>6. \A h : Resolve(i, h, <<>>) => Base' /\ screen' = screen
    BY ResolveEnds DEF Settled
  <1>7. (\E h : Resolve(i, h, FetchFlags)) \/ Resolve(i, hooks, <<>>)
    BY Zenon DEF FlagWritten
  <1>8. Base' /\ screen' = screen
    BY <1>5, <1>6, <1>7
  <1> QED BY <1>1, <1>4, <1>8 DEF LoadCases, LoadInv, LoadGood, Timed

\* A change of a user is sent; the hooks stay.
LEMMA UserSends ==
  ASSUME Base, Timed, LoadInv, NEW u, UserUpdate(u)
  PROVE  LoadCases
  <1> DEFINE a == [user |-> u, value |-> Other(hooks.users[u]), seen |-> hooks.users]
             c == Post("patchUser", a)
  <1>1. Shape(c) /\ c.op = "patchUser" /\ c.live
    BY PostShape
  <1>2. /\ screen = "users" /\ Send(<<c>>) /\ UNCHANGED <<screen, hooks, timers>>
        /\ past' = IF InFlight("patchUser") # {} THEN past \union {"overlapped"} ELSE past
    BY Zenon DEF UserUpdate
  <1> HIDE DEF c
  <1>3. screen \in Home(c.op) /\ Job(c) \notin Writes
    BY <1>1, <1>2, HomeFacts DEF Job, Writes
  <1>4. past' \subseteq Pasts
    BY <1>2 DEF Base, Pasts
  <1>5. "loading" \in DOMAIN hooks' /\ (hooks'.loading => hooks.loading)
    BY <1>2, LoaderNames DEF LoadInv, LoadGood
  <1> QED BY <1>1, <1>2, <1>3, <1>4, <1>5, LoadSends

\* An answer that changes nothing of what loads.
LEMMA LoadIgnores ==
  ASSUME Base, Timed, LoadInv, NEW i \in DOMAIN calls, NEW h, Resolve(i, h, <<>>), timers' = timers,
         h = hooks \/ \E f, v : f # "loading" /\ h = [hooks EXCEPT ![f] = v],
         screen \in LoadScreens => calls[i].op # Loader(screen) /\ calls[i].op # "revoke"
  PROVE  LoadCases
  <1>1. "loading" \in DOMAIN hooks => "loading" \in DOMAIN h /\ h.loading = hooks.loading
    OBVIOUS
  <1> QED BY <1>1, LoadSettles DEF LoadInv, LoadGood

\* The call that loads failed, and that is all the screen notes.
LEMMA LoadFails ==
  ASSUME Base, Timed, LoadInv, NEW i \in DOMAIN calls, timers' = timers,
         Resolve(i, [hooks EXCEPT !.loading = FALSE], <<>>)
  PROVE  LoadCases
  <1> DEFINE h == [hooks EXCEPT !.loading = FALSE]
  <1>1. "loading" \in DOMAIN hooks => "loading" \in DOMAIN h /\ ~h.loading
    OBVIOUS
  <1> HIDE DEF h
  <1> QED BY <1>1, LoadSettles DEF h, LoadInv, LoadGood

\* Answers and writes of the screens for users, flags and events.
LEMMA AdminCalls ==
  ASSUME Base, Timed, LoadInv, NEW i \in DOMAIN calls,
         \/ UsersFetched(i) \/ PatchServe(i) \/ UserUpdated(i)
         \/ FlagsFetched(i) \/ FlagServe(i) \/ FlagWritten(i) \/ AdminListFetched(i)
  PROVE  AdminCases
  <1>1. screen \in Home(calls[i].op)
    BY DEF Base, OwnCalls
  <1>2. \A op, rows, v : Write(i, op, rows, v) => LoadCases
    BY WriteOne, LoadAnswers
  <1>3. screen \in {"users", "flags"} \union AdminLists
    BY <1>1, HomeFacts DEF UsersFetched, PatchServe, UserUpdated, FlagsFetched, FlagServe, FlagWritten,
                           AdminListFetched, Back
  <1>4. screen \notin FlashScreens
    BY <1>3 DEF FlashScreens, Chats, AdminLists
  <1> SUFFICES LoadCases
    BY <1>4, NoFlash
  <1>5. CASE UsersFetched(i)
    BY <1>5, LoadResolves, LoadFails DEF UsersFetched
  <1>6. CASE PatchServe(i)
    BY <1>2, <1>6 DEF PatchServe
  <1>7. CASE UserUpdated(i)
    <2> DEFINE v == [calls[i].arg.seen EXCEPT ![calls[i].arg.user] = calls[i].arg.value]
    <2>1. calls[i].op = "patchUser" /\ timers' = timers
      BY <1>7 DEF UserUpdated, Back
    <2>2. Resolve(i, [hooks EXCEPT !.users = v], <<>>) \/ Resolve(i, hooks, <<>>)
      BY <1>7 DEF UserUpdated
    <2>3. screen = "users" /\ Loader(screen) = "users"
      BY <1>1, <2>1, HomeFacts, LoaderNames
    <2> HIDE DEF v
    <2> QED BY <2>1, <2>2, <2>3, LoadIgnores
  <1>8. CASE FlagsFetched(i)
    <2>1. calls[i].op = "flags" /\ timers' = timers
      BY <1>8 DEF FlagsFetched, Back
    <2>2. screen = "flags" /\ screen \notin LoadScreens
      BY <1>1, <2>1, HomeFacts DEF LoadScreens, AdminLists
    <2>3. Resolve(i, [hooks EXCEPT !.flags = calls[i].reply.value], <<>>) \/ Resolve(i, hooks, <<>>)
      BY <1>8 DEF FlagsFetched
    <2> QED BY <2>1, <2>2, <2>3, LoadIgnores
  <1>9. CASE FlagServe(i)
    BY <1>2, <1>9, Zenon DEF FlagServe
  <1>10. CASE AdminListFetched(i)
    BY <1>10, LoadResolves DEF AdminListFetched
  <1> QED BY <1>5, <1>6, <1>7, <1>8, <1>9, <1>10, FlagsWritten

\* Every step of AdminScreens.
LEMMA AdminKeeps ==
  ASSUME Base, Timed, LoadInv, FlashInv, AdminNext
  PROVE  AdminCases
  <1>1. CASE screen = "users" /\ (UsersMount \/ \E u \in DOMAIN hooks.users : UserUpdate(u))
    <2>1. LoadCases
      BY <1>1, LoadOpens, LoaderNames, UserSends DEF UsersMount, UsersState
    <2> QED BY <1>1, <2>1, NoFlash DEF FlashScreens, Chats
  <1>2. CASE screen = "flags" /\ FlagsMount
    <2> DEFINE c == Get("flags", "flags")
    <2>1. Shape(c) /\ c.op = "flags"
      BY GetShape
    <2>2. MountWith("flags", FlagsState, <<c>>, <<>>)
      BY <1>2, Zenon DEF FlagsMount, Mount, FetchFlags
    <2> HIDE DEF c
    <2>3. "flags" \in Home(c.op) /\ Job(c) \notin Writes /\ SameFamily(screen, "flags")
      BY <1>2, <2>1, HomeFacts DEF Job, Writes, SameFamily
    <2>4. Base' /\ screen' = "flags" /\ timers' = <<>>
      BY <2>1, <2>2, <2>3, OpenSends
    <2> QED BY <1>2, <2>4, NoTimers, NoFlash DEF LoadCases, LoadInv, LoadGood, LoadScreens, AdminLists,
                                                 FlashScreens, Chats
  <1>3. ASSUME screen = "flags", NEW h, Set(h) PROVE AdminCases
    BY <1>3, LoadSets, NoFlash DEF LoadScreens, AdminLists, FlashScreens, Chats
  <1>4. CASE FlagForm
    BY <1>3, <1>4, Zenon DEF FlagForm
  <1>5. ASSUME NEW f, FlagToggle(f) \/ FlagRollout(f) \/ FlagDelete(f) \/ FlagCreate(f) PROVE AdminCases
    BY <1>5, FlagSends DEF FlagToggle, FlagRollout, FlagDelete, FlagCreate, FlagWrites
  <1>6. ASSUME NEW s \in AdminLists, screen = s, AdminListMount(s) PROVE AdminCases
    <2>1. LoadCases
      BY <1>6, LoadOpens, LoaderNames DEF AdminListMount, AdminListState
    <2> QED BY <1>6, <2>1, NoFlash DEF FlashScreens, Chats, AdminLists
  <1>7. ASSUME NEW c, AdminListChoice(c) PROVE AdminCases
    BY <1>7, LoadChanges, NoFlash DEF AdminListChoice, FlashScreens, Chats
  <1>8. CASE \/ screen = "backups" /\ BackupsMount
             \/ screen = "showcase" /\ ShowcaseMount
             \/ screen = "roadmap" /\ RoadmapMount
    <2>1. LoadCases
      BY <1>8, PlainOpens DEF BackupsMount, ShowcaseMount, RoadmapMount, LoadScreens, AdminLists
    <2>2. screen = "backups" => hooks' = BackupsState
      BY <1>8 DEF BackupsMount, Mount, MountWith
    <2> QED BY <1>8, <2>1, <2>2 DEF AdminCases, LoadCases, FlashInv, Chats, BackupsState
  <1>9. ASSUME NEW b, Restore(b) PROVE AdminCases
    <2> DEFINE h == [hooks EXCEPT !.restoring = b]
    <2>1. screen = "backups" /\ SetAndDelay(h, "restored")
      BY <1>9 DEF Restore
    <2>2. "restoring" \in DOMAIN h
      BY <2>1 DEF FlashInv
    <2> HIDE DEF h
    <2> QED BY <2>1, <2>2, FlashSteps DEF AdminCases, LoadCases, LoadInv, LoadGood, LoadScreens, AdminLists,
                                          FlashInv, Chats
  <1>10. CASE Restored
    <2> DEFINE h == [hooks EXCEPT !.restoring = "none"]
    <2>1. screen = "backups" /\ Fire("restored", h)
      BY <1>10 DEF Restored
    <2>2. "restoring" \in DOMAIN h /\ h.restoring = "none"
      BY <2>1 DEF FlashInv
    <2> HIDE DEF h
    <2> QED BY <2>1, <2>2, FlashSteps DEF AdminCases, LoadCases, LoadInv, LoadGood, LoadScreens, AdminLists,
                                          FlashInv, Chats
  <1>11. ASSUME NEW c, ShowcaseToggle(c) \/ ShowcaseView(c) \/ RoadmapToggle(c) PROVE AdminCases
    <2>1. screen \in {"showcase", "roadmap"} /\ \E h : Set(h)
      BY <1>11, Zenon DEF ShowcaseToggle, ShowcaseView, RoadmapToggle
    <2> QED BY <2>1, LoadSets, NoFlash DEF LoadScreens, AdminLists, FlashScreens, Chats
  <1> QED BY <1>1, <1>2, <1>4, <1>5, <1>6, <1>7, <1>8, <1>9, <1>10, <1>11, AdminCalls DEF AdminNext

(* CustomerScreens *)

\* What Profile shows under way is so, and all sessions are revoked once at a time.
ProfileGood(h, cs) ==
  /\ {"sessionsLoading", "revokingId", "revokingAll"} \subseteq DOMAIN h
  /\ h.sessionsLoading => Working(cs, "fetchSessions")
  /\ h.revokingId # "none" => Working(cs, "revoke")
  /\ h.revokingAll <=> Working(cs, "revokeAll")

ProfileInv == screen = "profile" => ProfileGood(hooks, calls)

\* What the steps of CustomerScreens keep.
CustomerCases == LoadCases /\ FlashInv' /\ ProfileInv'

\* Where a step has nothing to do with timeouts and sessions.
LEMMA NoFlashNoProfile ==
  ASSUME screen \notin FlashScreens, screen # "profile", LoadCases PROVE CustomerCases
  BY DEF CustomerCases, LoadCases, FlashInv, FlashScreens, ProfileInv

\* A mark is sent and forgotten.
LEMMA MarkSends ==
  ASSUME Base, Timed, LoadInv, screen = "notifications", NEW v, NEW ns,
         SetAndSend([hooks EXCEPT !.items = v], <<Post("markRead", ns)>>)
  PROVE  CustomerCases
  <1> DEFINE c == Post("markRead", ns)
             h == [hooks EXCEPT !.items = v]
  <1>1. Shape(c) /\ c.op = "markRead" /\ c.live
    BY PostShape
  <1>2. hooks' = h /\ Send(<<c>>) /\ UNCHANGED <<screen, timers, past>>
    BY Zenon DEF SetAndSend
  <1>3. "loading" \in DOMAIN h /\ h.loading = hooks.loading
    BY LoaderNames DEF LoadInv, LoadGood
  <1> HIDE DEF c, h
  <1>4. screen \in Home(c.op) /\ Job(c) \notin Writes
    BY <1>1, HomeFacts DEF Job, Writes
  <1>5. past' \subseteq Pasts /\ "loading" \in DOMAIN hooks' /\ (hooks'.loading => hooks.loading)
    BY <1>2, <1>3 DEF Base
  <1>6. LoadCases
    BY <1>1, <1>2, <1>4, <1>5, LoadSends
  <1> QED BY <1>6, NoFlashNoProfile DEF FlashScreens, Chats

\* Every step on the screen of notifications.
LEMMA NoticesKeep ==
  ASSUME Base, Timed, LoadInv, screen = "notifications", CustomerNext
  PROVE  CustomerCases
  <1>1. CASE NoticesMount
    <2>1. LoadCases
      BY <1>1, LoadOpens, LoaderNames DEF NoticesMount, NoticesState
    <2> QED BY <2>1, NoFlashNoProfile DEF FlashScreens, Chats
  <1>2. ASSUME NEW n, MarkRead(n) PROVE CustomerCases
    BY <1>2, MarkSends DEF MarkRead
  <1>3. CASE MarkAllRead
    BY <1>3, MarkSends DEF MarkAllRead
  <1>4. ASSUME NEW f, f # "loading", NEW v, Set([hooks EXCEPT ![f] = v]) PROVE CustomerCases
    BY <1>4, LoadChanges, NoFlashNoProfile DEF FlashScreens, Chats
  <1>5. ASSUME NEW n, NoticeDelete(n) \/ NoticesTab(n) PROVE CustomerCases
    BY <1>4, <1>5 DEF NoticeDelete, NoticesTab
  <1>6. CASE NoticesClear
    BY <1>4, <1>6 DEF NoticesClear
  <1>7. ASSUME NEW i \in DOMAIN calls, NoticesFetched(i) PROVE LoadCases
    BY <1>7, LoadResolves, LoadFails DEF NoticesFetched
  <1>8. ASSUME NEW i \in DOMAIN calls, MarkServe(i) PROVE LoadCases
    BY <1>8, WriteOne, LoadAnswers DEF MarkServe
  <1>9. ASSUME NEW i \in DOMAIN calls, MarkAnswered(i) PROVE LoadCases
    BY <1>9, LoadIgnores, LoaderNames DEF MarkAnswered
  <1>10. ASSUME NEW i \in DOMAIN calls PROVE calls[i].op \in {"notices", "markRead"}
    BY HomeFacts DEF Base, OwnCalls, Home, FlagWrites, AdminLists
  <1>11. ASSUME NEW i \in DOMAIN calls PROVE ~SessionsFetched(i) /\ ~RevokeServe(i) /\ ~RevokeAnswered(i)
    BY <1>10 DEF SessionsFetched, RevokeServe, RevokeAnswered, Back
  <1>12. /\ ~CardFreeze /\ ~CardDetails /\ ~CardFlip /\ ~CardCreate /\ ~CardCopy /\ ~CardCopied
         /\ ~GoalForm /\ ~GoalCreate /\ ~ProfileToggle /\ ~SessionsRefresh
         /\ ~ChatTyped /\ ~ChatOpen /\ ~ChatSend /\ ~ChatReply
         /\ \A c : ~CardSelect(c)
    BY DEF CardFreeze, CardDetails, CardFlip, CardCreate, CardCopy, CardCopied, GoalForm, GoalCreate,
           ProfileToggle, SessionsRefresh, ProfileSends, ChatTyped, ChatOpen, ChatSend, ChatReply, CardSelect,
           Chats
  <1>13. ASSUME LoadCases PROVE CustomerCases
    BY <1>13, NoFlashNoProfile DEF FlashScreens, Chats
  <1> QED BY <1>1, <1>2, <1>3, <1>5, <1>6, <1>7, <1>8, <1>9, <1>11, <1>12, <1>13 DEF CustomerNext, Chats

\* On the other screens of CustomerScreens nothing loads.
LEMMA CardsKeep ==
  ASSUME Base, Timed, FlashInv, screen \in {"cards", "goals"} \union Chats, CustomerNext
  PROVE  CustomerCases
  <1>1. screen \notin LoadScreens /\ screen # "profile" /\ screen # "notifications"
    BY DEF LoadScreens, AdminLists, Chats
  <1>2. ASSUME NEW i \in DOMAIN calls PROVE FALSE
    BY <1>1, HomeFacts DEF Base, OwnCalls, Home, FlagWrites, AdminLists, Chats
  <1>3. ASSUME Base', Timed', screen' = screen, FlashInv' PROVE CustomerCases
    BY <1>1, <1>3 DEF CustomerCases, LoadCases, LoadInv, LoadGood, ProfileInv
  <1>4. ASSUME NEW h, Set(h),
               screen = "cards" => "copied" \in DOMAIN h /\ h.copied = hooks.copied,
               screen \in Chats => "typing" \in DOMAIN h /\ h.typing = hooks.typing
        PROVE  CustomerCases
    <2>1. FlashInv'
      BY <1>1, <1>4 DEF Set, FlashInv, Pending, Chats
    <2> QED BY <1>3, <1>4, <2>1 DEF Set, Base, Timed
  <1>5. ASSUME NEW f, f \notin {"copied", "typing"}, NEW v, Set([hooks EXCEPT ![f] = v]) PROVE CustomerCases
    <2> DEFINE h == [hooks EXCEPT ![f] = v]
    <2>1. /\ "copied" \in DOMAIN hooks => "copied" \in DOMAIN h /\ h.copied = hooks.copied
          /\ "typing" \in DOMAIN hooks => "typing" \in DOMAIN h /\ h.typing = hooks.typing
      BY <1>5
    <2> HIDE DEF h
    <2> QED BY <1>4, <1>5, <2>1 DEF h, FlashInv
  <1>6. ASSUME NEW h, Mount(screen, h, <<>>),
               screen = "cards" => "copied" \in DOMAIN h /\ ~h.copied,
               screen \in Chats => "typing" \in DOMAIN h /\ ~h.typing
        PROVE  CustomerCases
    <2>1. MountWith(screen, h, <<>>, <<>>)
      BY <1>6, Zenon DEF Mount
    <2>2. Base' /\ screen' = screen /\ hooks' = h /\ timers' = <<>>
      BY <2>1, OpenQuiet DEF SameFamily
    <2>3. FlashInv'
      BY <1>1, <1>6, <2>2 DEF FlashInv, Chats
    <2> QED BY <1>3, <2>2, <2>3, NoTimers
  <1>7. CASE (screen = "cards" /\ CardsMount) \/ (screen = "goals" /\ GoalsMount)
    BY <1>6, <1>7 DEF CardsMount, GoalsMount, CardsState, Chats
  <1>8. ASSUME NEW s \in Chats, screen = s, ChatMount(s) PROVE CustomerCases
    BY <1>6, <1>8 DEF ChatMount, ChatState, Chats
  <1>9. CASE CardFreeze
    <2> DEFINE h == [hooks EXCEPT !.frozen[hooks.selectedCard] = ~@]
    <2>1. screen = "cards" /\ Set(h)
      BY <1>9 DEF CardFreeze
    <2>2. "copied" \in DOMAIN h /\ h.copied = hooks.copied
      BY <2>1 DEF FlashInv
    <2> HIDE DEF h
    <2> QED BY <1>4, <2>1, <2>2 DEF Chats
  <1>10. CASE CardCreate
    <2> DEFINE a == Append(hooks.frozen, FALSE)
               n == Len(hooks.frozen) + 1
               h == [hooks EXCEPT !.frozen = a, !.selectedCard = n]
    <2>1. screen = "cards" /\ Set(h)
      BY <1>10 DEF CardCreate
    <2>2. "copied" \in DOMAIN h /\ h.copied = hooks.copied
      BY <2>1 DEF FlashInv
    <2> HIDE DEF h
    <2> QED BY <1>4, <2>1, <2>2 DEF Chats
  <1>11. ASSUME NEW c, CardSelect(c) PROVE CustomerCases
    BY <1>5, <1>11 DEF CardSelect
  <1>12. CASE CardDetails \/ CardFlip
    BY <1>5, <1>12 DEF CardDetails, CardFlip
  <1>13. CASE CardCopy
    <2> DEFINE h == [hooks EXCEPT !.copied = TRUE]
    <2>1. screen = "cards" /\ SetAndDelay(h, "copied")
      BY <1>13 DEF CardCopy
    <2>2. "copied" \in DOMAIN h
      BY <2>1 DEF FlashInv
    <2> HIDE DEF h
    <2> QED BY <1>3, <2>1, <2>2, FlashSteps DEF FlashInv, Chats
  <1>14. CASE CardCopied
    <2> DEFINE h == [hooks EXCEPT !.copied = FALSE]
    <2>1. screen = "cards" /\ Fire("copied", h)
      BY <1>14 DEF CardCopied
    <2>2. "copied" \in DOMAIN h /\ ~h.copied
      BY <2>1 DEF FlashInv
    <2> HIDE DEF h
    <2> QED BY <1>3, <2>1, <2>2, FlashSteps DEF FlashInv, Chats
  <1>15. CASE GoalForm \/ GoalCreate
    <2>1. screen = "goals" /\ \E h : Set(h)
      BY <1>15, Zenon DEF GoalForm, GoalCreate
    <2> QED BY <1>4, <2>1 DEF Chats
  <1>16. CASE ChatTyped \/ ChatOpen
    BY <1>5, <1>16 DEF ChatTyped, ChatOpen
  <1>17. CASE ChatSend
    <2> DEFINE m == Append(hooks.messages, "user")
               h == [hooks EXCEPT !.messages = m, !.input = FALSE, !.typing = TRUE]
    <2>1. screen \in Chats /\ SetAndDelay(h, "reply")
      BY <1>17 DEF ChatSend
    <2>2. "typing" \in DOMAIN h
      BY <2>1 DEF FlashInv
    <2> HIDE DEF h
    <2> QED BY <1>3, <2>1, <2>2, FlashSteps DEF FlashInv, Chats
  <1>18. CASE ChatReply
    <2> DEFINE m == Append(hooks.messages, "assistant")
               h == [hooks EXCEPT !.messages = m, !.typing = FALSE]
    <2>1. screen \in Chats /\ Fire("reply", h)
      BY <1>18 DEF ChatReply
    <2>2. "typing" \in DOMAIN h /\ ~h.typing
      BY <2>1 DEF FlashInv
    <2> HIDE DEF h
    <2> QED BY <1>3, <2>1, <2>2, FlashSteps DEF FlashInv, Chats
  <1>19. /\ ~ProfileToggle /\ ~SessionsRefresh /\ ~MarkAllRead /\ ~NoticesClear
         /\ \A n : ~MarkRead(n) /\ ~NoticeDelete(n) /\ ~NoticesTab(n)
    BY <1>1 DEF ProfileToggle, SessionsRefresh, ProfileSends, MarkAllRead, NoticesClear, MarkRead, NoticeDelete,
                NoticesTab
  <1>20. CASE \/ \E n \in Notices : MarkRead(n) \/ NoticeDelete(n)
              \/ MarkAllRead \/ NoticesClear
              \/ \E t \in {"all", "security"} : NoticesTab(t)
              \/ ProfileToggle \/ SessionsRefresh
    BY <1>19, <1>20
  <1>21. CASE \/ screen = "notifications" /\ NoticesMount
              \/ screen = "cards" /\ CardsMount
              \/ screen = "goals" /\ GoalsMount
              \/ screen = "profile" /\ (ProfileMount \/ \E s \in OtherSessions : SessionRevoke(s))
              \/ screen = "profile" /\ SessionRevokeAll
              \/ \E s \in Chats : screen = s /\ ChatMount(s)
    BY <1>1, <1>7, <1>8, <1>21
  <1>22. CASE \/ \E c \in 1..MaxItems : CardSelect(c)
              \/ CardFreeze \/ CardDetails \/ CardFlip \/ CardCreate \/ CardCopy \/ CardCopied
              \/ GoalForm \/ GoalCreate
              \/ ChatTyped \/ ChatOpen \/ ChatSend \/ ChatReply
    BY <1>9, <1>10, <1>11, <1>12, <1>13, <1>14, <1>15, <1>16, <1>17, <1>18, <1>22
  <1> QED BY <1>2, <1>20, <1>21, <1>22 DEF CustomerNext

(* Profile *)

\* The screen of sessions is opened.
LEMMA ProfileOpens ==
  ASSUME Base, screen = "profile", ProfileMount PROVE CustomerCases
  <1> DEFINE c == Get("fetchSessions", "sessions")
  <1>1. Shape(c) /\ c.op = "fetchSessions" /\ c.live
    BY GetShape
  <1>2. MountWith("profile", ProfileState, <<c>>, <<>>)
    BY Zenon DEF ProfileMount, Mount, FetchSessions
  <1> HIDE DEF c
  <1>3. /\ "profile" \in Home(c.op) /\ Job(c) = "fetchSessions" /\ Job(c) \notin Writes
        /\ SameFamily(screen, "profile")
    BY <1>1, HomeFacts DEF Job, Writes, SameFamily
  <1>4. /\ Base' /\ \E mid : Dropped(mid, calls) /\ Made(calls', mid, c)
        /\ screen' = "profile" /\ hooks' = ProfileState /\ timers' = <<>>
    BY <1>1, <1>2, <1>3, OpenSends
  <1>5. Working(calls', "fetchSessions") /\ ~Working(calls', "revokeAll")
    BY <1>1, <1>3, <1>4 DEF Made, Dropped, Does
  <1>6. ProfileGood(ProfileState, calls')
    BY <1>5 DEF ProfileGood, ProfileState
  <1> QED BY <1>4, <1>6, NoTimers DEF CustomerCases, LoadCases, LoadInv, LoadGood, LoadScreens, AdminLists,
                                      FlashInv, Chats, ProfileInv

\* A list is asked for, or sessions are revoked.
LEMMA ProfileCalls ==
  ASSUME Base, Timed, ProfileInv, screen = "profile", NEW h, NEW c, NEW other, ProfileSends(h, <<c>>, other),
         Shape(c), c.live, c.op \in {"fetchSessions", "revoke"},
         {"sessionsLoading", "revokingId", "revokingAll"} \subseteq DOMAIN h,
         h.sessionsLoading => hooks.sessionsLoading,
         h.revokingId # "none" => hooks.revokingId # "none" \/ Job(c) = "revoke",
         h.revokingAll <=> hooks.revokingAll \/ Job(c) = "revokeAll",
         Job(c) = "revokeAll" => ~hooks.revokingAll
  PROVE  CustomerCases
  <1>1. ProfileGood(hooks, calls)
    BY DEF ProfileInv
  <1>2. /\ hooks' = h /\ Send(<<c>>) /\ UNCHANGED <<screen, timers>>
        /\ past' = IF InFlight(other) # {} THEN past \union {"overlapped"} ELSE past
    BY Zenon DEF ProfileSends
  <1>3. past' \subseteq Pasts
    BY <1>2 DEF Base, Pasts
  <1>4. screen \in Home(c.op) /\ Job(c) \in {"fetchSessions", "revoke", "revokeAll"}
    BY HomeFacts DEF Job
  <1>5. Job(c) \in Writes => ~Working(calls, Job(c))
    BY <1>1, <1>4 DEF Writes, ProfileGood
  <1>6. Base' /\ Made(calls', calls, c)
    BY <1>2, <1>3, <1>4, <1>5, SendOne
  <1>7. ProfileGood(h, calls')
    BY <1>1, <1>6 DEF ProfileGood, Made, Does
  <1> QED BY <1>2, <1>6, <1>7 DEF CustomerCases, LoadCases, Timed, LoadInv, LoadGood, LoadScreens, AdminLists,
                                 FlashInv, Chats, ProfileInv

\* An answer comes in and ends what it was awaited for.
LEMMA ProfileSettles ==
  ASSUME Base, Timed, ProfileInv, screen = "profile", NEW i \in DOMAIN calls, NEW h, Resolve(i, h, <<>>),
         timers' = timers,
         {"sessionsLoading", "revokingId", "revokingAll"} \subseteq DOMAIN h,
         h.sessionsLoading => hooks.sessionsLoading /\ Job(calls[i]) # "fetchSessions",
         h.revokingId # "none" => hooks.revokingId # "none" /\ Job(calls[i]) # "revoke",
         h.revokingAll <=> hooks.revokingAll /\ Job(calls[i]) # "revokeAll"
  PROVE  CustomerCases
  <1>1. ProfileGood(hooks, calls)
    BY DEF ProfileInv
  <1>2. Base' /\ Ended(calls', calls, i) /\ Settled(i, h)
    BY ResolveEnds
  <1>3. Alone(calls, "revokeAll")
    BY DEF Base, AloneAll, Writes
  <1>4. ProfileGood(hooks', calls')
    <2>1. CASE calls[i].live
      BY <1>1, <1>2, <1>3, <2>1 DEF Ended, Settled, ProfileGood, Does
    <2>2. CASE ~calls[i].live
      BY <1>1, <1>2, <2>2 DEF Ended, Settled, ProfileGood, Does
    <2> QED BY <2>1, <2>2
  <1> QED BY <1>2, <1>4 DEF CustomerCases, LoadCases, Timed, Settled, LoadInv, LoadGood, LoadScreens, AdminLists,
                            FlashInv, Chats, ProfileInv

\* Every step on the screen of sessions.
LEMMA ProfileKeeps ==
  ASSUME Base, Timed, ProfileInv, screen = "profile", CustomerNext
  PROVE  CustomerCases
  <1>1. ProfileGood(hooks, calls) /\ {"sessionsLoading", "revokingId", "revokingAll"} \subseteq DOMAIN hooks
    BY DEF ProfileInv, ProfileGood
  <1>2. ASSUME NEW i \in DOMAIN calls PROVE calls[i].op \in {"fetchSessions", "revoke"}
    BY HomeFacts DEF Base, OwnCalls, Home, FlagWrites, AdminLists
  <1>3. ASSUME NEW i \in DOMAIN calls PROVE ~NoticesFetched(i) /\ ~MarkServe(i) /\ ~MarkAnswered(i)
    BY <1>2 DEF NoticesFetched, MarkServe, MarkAnswered, Back
  <1>4. /\ ~CardFreeze /\ ~CardDetails /\ ~CardFlip /\ ~CardCreate /\ ~CardCopy /\ ~CardCopied
        /\ ~GoalForm /\ ~GoalCreate /\ ~MarkAllRead /\ ~NoticesClear
        /\ ~ChatTyped /\ ~ChatOpen /\ ~ChatSend /\ ~ChatReply
        /\ \A c : ~CardSelect(c) /\ ~MarkRead(c) /\ ~NoticeDelete(c) /\ ~NoticesTab(c)
    BY DEF CardFreeze, CardDetails, CardFlip, CardCreate, CardCopy, CardCopied, GoalForm, GoalCreate,
           MarkAllRead, NoticesClear, ChatTyped, ChatOpen, ChatSend, ChatReply, CardSelect, MarkRead,
           NoticeDelete, NoticesTab, Chats
  <1>5. CASE ProfileToggle
    <2> DEFINE h == [hooks EXCEPT !.mfaEnabled = ~@]
    <2>1. Set(h)
      BY <1>5 DEF ProfileToggle
    <2>2. /\ {"sessionsLoading", "revokingId", "revokingAll"} \subseteq DOMAIN h
          /\ h.sessionsLoading = hooks.sessionsLoading /\ h.revokingId = hooks.revokingId
          /\ h.revokingAll = hooks.revokingAll
      BY <1>1
    <2> HIDE DEF h
    <2>3. ProfileGood(h, calls)
      BY <1>1, <2>2 DEF ProfileGood
    <2> QED BY <2>1, <2>3 DEF Set, CustomerCases, LoadCases, Base, Timed, LoadInv, LoadGood, LoadScreens,
                              AdminLists, FlashInv, Chats, ProfileInv
  <1>6. CASE SessionsRefresh
    <2> DEFINE h == [hooks EXCEPT !.sessionsError = FALSE]
               c == Get("fetchSessions", "sessions")
    <2>1. ProfileSends(h, <<c>>, "revoke") /\ Shape(c) /\ c.live /\ c.op = "fetchSessions"
      BY <1>6, GetShape DEF SessionsRefresh, FetchSessions
    <2>2. /\ {"sessionsLoading", "revokingId", "revokingAll"} \subseteq DOMAIN h
          /\ h.sessionsLoading = hooks.sessionsLoading /\ h.revokingId = hooks.revokingId
          /\ h.revokingAll = hooks.revokingAll
      BY <1>1
    <2> HIDE DEF h, c
    <2>3. Job(c) = "fetchSessions"
      BY <2>1 DEF Job
    <2> QED BY <2>1, <2>2, <2>3, ProfileCalls
  <1>7. ASSUME NEW s \in OtherSessions, SessionRevoke(s) PROVE CustomerCases
    <2> DEFINE h == [hooks EXCEPT !.revokingId = s]
               c == Post("revoke", s)
    <2>1. ProfileSends(h, <<c>>, "fetchSessions") /\ Shape(c) /\ c.live /\ c.op = "revoke" /\ c.arg = s
      BY <1>7, PostShape DEF SessionRevoke
    <2>2. /\ {"sessionsLoading", "revokingId", "revokingAll"} \subseteq DOMAIN h
          /\ h.sessionsLoading = hooks.sessionsLoading /\ h.revokingAll = hooks.revokingAll
      BY <1>1
    <2> HIDE DEF h, c
    <2>3. Job(c) = "revoke"
      BY <2>1, NoticesAssumption DEF Job
    <2> QED BY <2>1, <2>2, <2>3, ProfileCalls
  <1>8. CASE SessionRevokeAll
    <2> DEFINE h == [hooks EXCEPT !.revokingAll = TRUE]
               c == Post("revoke", "all")
    <2>1. /\ ProfileSends(h, <<c>>, "fetchSessions") /\ Shape(c) /\ c.live /\ c.op = "revoke" /\ c.arg = "all"
          /\ ~hooks.revokingAll
      BY <1>8, PostShape DEF SessionRevokeAll
    <2>2. /\ {"sessionsLoading", "revokingId", "revokingAll"} \subseteq DOMAIN h
          /\ h.sessionsLoading = hooks.sessionsLoading /\ h.revokingId = hooks.revokingId /\ h.revokingAll
      BY <1>1
    <2> HIDE DEF h, c
    <2>3. Job(c) = "revokeAll"
      BY <2>1 DEF Job
    <2> QED BY <2>1, <2>2, <2>3, ProfileCalls
  <1>9. ASSUME NEW i \in DOMAIN calls, SessionsFetched(i) PROVE CustomerCases
    <2>1. calls[i].op = "fetchSessions" /\ timers' = timers
      BY <1>9 DEF SessionsFetched, Back
    <2>2. PICK h : /\ Resolve(i, h, <<>>)
                   /\ {"sessionsLoading", "revokingId", "revokingAll"} \subseteq DOMAIN h
                   /\ ~h.sessionsLoading /\ h.revokingId = hooks.revokingId
                   /\ h.revokingAll = hooks.revokingAll
      <3> DEFINE f == [hooks EXCEPT !.sessions = calls[i].reply.value, !.sessionsLoading = FALSE]
                 g == [hooks EXCEPT !.sessions = {"here"}, !.sessionsError = TRUE, !.sessionsLoading = FALSE]
      <3>1. \A h \in {f, g} : /\ {"sessionsLoading", "revokingId", "revokingAll"} \subseteq DOMAIN h
                             /\ ~h.sessionsLoading /\ h.revokingId = hooks.revokingId
                             /\ h.revokingAll = hooks.revokingAll
        BY <1>1
      <3>2. Resolve(i, f, <<>>) \/ Resolve(i, g, <<>>)
        BY <1>9, Zenon DEF SessionsFetched
      <3> HIDE DEF f, g
      <3> QED BY <3>1, <3>2
    <2>3. Job(calls[i]) = "fetchSessions"
      BY <2>1 DEF Job
    <2> QED BY <2>1, <2>2, <2>3, ProfileSettles
  <1>10. ASSUME NEW i \in DOMAIN calls, RevokeAnswered(i) PROVE CustomerCases
    <2> DEFINE which == calls[i].arg
               done == IF which = "all" THEN [hooks EXCEPT !.revokingAll = FALSE]
                       ELSE [hooks EXCEPT !.revokingId = "none"]
               s == done.sessions \ Revoked(which)
    <2>1. calls[i].op = "revoke" /\ timers' = timers
      BY <1>10 DEF RevokeAnswered, Back
    <2>2. /\ {"sessionsLoading", "revokingId", "revokingAll"} \subseteq DOMAIN done
          /\ done.sessionsLoading = hooks.sessionsLoading
          /\ which = "all" => done.revokingId = hooks.revokingId /\ ~done.revokingAll
          /\ which # "all" => done.revokingId = "none" /\ done.revokingAll = hooks.revokingAll
      BY <1>1
    <2>3. Resolve(i, [done EXCEPT !.sessions = s], <<>>) \/ Resolve(i, done, <<>>)
      BY <1>10, Zenon DEF RevokeAnswered
    <2> HIDE DEF done, s
    <2>4. PICK h : /\ Resolve(i, h, <<>>)
                   /\ {"sessionsLoading", "revokingId", "revokingAll"} \subseteq DOMAIN h
                   /\ h.sessionsLoading = done.sessionsLoading /\ h.revokingId = done.revokingId
                   /\ h.revokingAll = done.revokingAll
      BY <2>2, <2>3
    <2>5. Job(calls[i]) = IF which = "all" THEN "revokeAll" ELSE "revoke"
      BY <2>1 DEF Job
    <2> QED BY <2>1, <2>2, <2>4, <2>5, ProfileSettles
  <1>11. ASSUME NEW i \in DOMAIN calls, RevokeServe(i) PROVE CustomerCases
    <2>1. \E rows : Write(i, "revoke", rows, NoValue)
      BY <1>11, Zenon DEF RevokeServe
    <2>2. Base' /\ Answered(calls', calls, i, Ok(NoValue)) /\ UNCHANGED <<screen, hooks, timers>>
      BY <2>1, WriteOne
    <2> QED BY <1>1, <2>2 DEF CustomerCases, LoadCases, Timed, LoadInv, LoadGood, LoadScreens, AdminLists,
                              FlashInv, Chats, ProfileInv, ProfileGood, Answered
  <1> QED BY <1>3, <1>4, <1>5, <1>6, <1>7, <1>8, <1>9, <1>10, <1>11, ProfileOpens DEF CustomerNext, Chats

\* Every step of CustomerScreens.
LEMMA CustomerKeeps ==
  ASSUME Base, Timed, LoadInv, FlashInv, ProfileInv, CustomerNext
  PROVE  CustomerCases
  BY CustomerOnly, NoticesKeep, CardsKeep, ProfileKeeps DEF CustomerPages

(* LiveScreens *)

\* What the steps of LiveScreens keep.
LiveCases == Base' /\ Timed' /\ screen' = screen /\ FlashInv'

\* On a screen without calls a step is one that keeps the timeouts in shape.
LEMMA LiveRests ==
  ASSUME Base, UNCHANGED <<screen, calls, past>>, Timed', FlashInv' PROVE LiveCases
  BY DEF LiveCases, Base

\* A handler of a layout or of the globe sets hooks.
LEMMA LiveSets ==
  ASSUME Base, Timed, screen \in {"globe"} \union Layouts, NEW h, Set(h) PROVE LiveCases
  BY LiveRests DEF Set, Timed, FlashInv, Layouts, Chats

\* A screen is opened.
LEMMA LiveOpens ==
  ASSUME Base, NEW h, NEW ts, MountWith(screen, h, <<>>, ts), IsSequence(ts), Len(ts) <= MaxTimers,
         screen \in LivePages,
         screen = "contact" => h = ContactState,
         screen = "landing" => h = LandingState /\ ts = LandingTimers
  PROVE  LiveCases
  <1>1. Base' /\ screen' = screen /\ hooks' = h /\ timers' = ts
    BY OpenQuiet DEF SameFamily
  <1>2. Timed'
    BY <1>1 DEF Timed
  <1>3. FlashInv'
    BY <1>1 DEF FlashInv, LivePages, Layouts, Chats, ContactState, LandingState, LandingTimers, Pending
  <1> QED BY <1>1, <1>2, <1>3 DEF LiveCases

\* A payment appears on the globe, and with it the timeout of its arc.
LEMMA GlobeSpawns ==
  ASSUME Base, Timed, GlobeSpawn \/ GlobeSpawnLater PROVE LiveCases
  <1>1. screen = "globe" /\ UNCHANGED <<screen, calls, past>>
    BY DEF GlobeSpawn, GlobeSpawnLater
  <1>2. FlashInv'
    BY <1>1 DEF FlashInv, Chats
  <1>3. Timed'
    <2>1. CASE GlobeSpawnLater
      <3> DEFINE w == RemoveAt(timers, First("spawn"))
      <3>1. Pending("spawn") /\ timers' = Append(w, "arc")
        BY <2>1 DEF GlobeSpawnLater
      <3>2. First("spawn") \in DOMAIN timers
        BY <3>1, FirstFacts DEF Timed
      <3>3. IsSequence(w) /\ Len(w) = Len(timers) - 1
        BY <3>2, RemoveAtFacts DEF Timed
      <3> HIDE DEF w
      <3>4. IsSequence(timers') /\ Len(timers') = Len(w) + 1
        BY <3>1, <3>3, AppendFacts
      <3> QED BY <3>3, <3>4 DEF Timed, IsSequence
    <2>2. CASE GlobeSpawn
      <3> DEFINE w == timers \o <<"arc">>
      <3>1. PICK more \in {<<>>, <<"spawn">>} :
               Len(timers) + 1 + Len(more) <= MaxTimers /\ timers' = w \o more
        BY <2>2 DEF GlobeSpawn
      <3>2. IsSequence(w) /\ Len(w) = Len(timers) + 1 /\ Len(timers) \in Nat
        BY ConcatOne, AppendFacts DEF Timed, IsSequence
      <3> HIDE DEF w
      <3>3. CASE more = <<>>
        <4>1. w \o <<>> = w
          BY <3>2, SequenceFacts
        <4> QED BY <3>1, <3>2, <3>3, <4>1 DEF Timed
      <3>4. CASE more = <<"spawn">>
        <4>1. timers' = Append(w, "spawn")
          BY <3>1, <3>2, <3>4, ConcatOne, Zenon
        <4>2. IsSequence(Append(w, "spawn")) /\ Len(Append(w, "spawn")) = Len(w) + 1
          BY <3>2, AppendFacts, Zenon
        <4>3. Len(more) = 1
          BY <3>4
        <4> QED BY <3>1, <3>2, <4>1, <4>2, <4>3 DEF Timed
      <3> QED BY <3>1, <3>3, <3>4
    <2> QED BY <2>1, <2>2
  <1> QED BY <1>1, <1>2, <1>3, LiveRests

\* The globe turns or stops, and with it the frames.
LEMMA GlobeTurns ==
  ASSUME Base, Timed, NEW h, Rotate(h) PROVE LiveCases
  <1>1. screen = "globe" /\ UNCHANGED <<screen, calls, past>>
    BY DEF Rotate
  <1>2. FlashInv'
    BY <1>1 DEF FlashInv, Chats
  <1>3. Timed'
    <2>1. CASE h.autoRotate /\ ~Pending("frame")
      <3>1. timers' = Append(timers, "frame") /\ Len(timers) + 1 <= MaxTimers
        BY <2>1 DEF Rotate
      <3> QED BY <3>1, AppendFacts DEF Timed
    <2>2. CASE ~h.autoRotate /\ Pending("frame")
      <3>1. timers' = RemoveAt(timers, First("frame"))
        BY <2>2 DEF Rotate
      <3> QED BY <2>2, <3>1, FireFacts
    <2>3. CASE h.autoRotate <=> Pending("frame")
      BY <2>3 DEF Rotate, Timed
    <2> QED BY <2>1, <2>2, <2>3
  <1> QED BY <1>1, <1>2, <1>3, LiveRests

\* Every step of LiveScreens.
LEMMA LiveKeeps ==
  ASSUME Base, Timed, FlashInv, LiveNext PROVE LiveCases
  <1>1. ASSUME NEW s \in Layouts, screen = s, ShellMount(s) PROVE LiveCases
    <2>1. MountWith(screen, ShellState, <<>>, <<>>)
      BY <1>1, Zenon DEF ShellMount, Mount
    <2> HIDE DEF ShellState
    <2>2. IsSequence(<<>>) /\ Len(<<>>) <= MaxTimers
      BY BoundsAssumption DEF IsSequence
    <2> QED BY <1>1, <2>1, <2>2, LiveOpens DEF LivePages, Layouts
  <1>2. CASE screen = "globe" /\ GlobeMount
    <2>1. IsSequence(GlobeTimers) /\ Len(GlobeTimers) <= MaxTimers
      BY LimitsAssumption DEF GlobeTimers, IsSequence
    <2> QED BY <1>2, <2>1, LiveOpens DEF GlobeMount, LivePages, Layouts
  <1>3. CASE screen = "landing" /\ LandingMount
    <2>1. IsSequence(LandingTimers) /\ Len(LandingTimers) <= MaxTimers
      BY LimitsAssumption, BoundsAssumption DEF LandingTimers, IsSequence
    <2> QED BY <1>3, <2>1, LiveOpens DEF LandingMount, LivePages, Layouts
  <1>4. CASE screen = "contact" /\ ContactMount
    <2>1. MountWith(screen, ContactState, <<>>, <<>>)
      BY <1>4, Zenon DEF ContactMount, Mount
    <2>2. IsSequence(<<>>) /\ Len(<<>>) <= MaxTimers
      BY BoundsAssumption DEF IsSequence
    <2> QED BY <1>4, <2>1, <2>2, LiveOpens DEF LivePages, Layouts
  <1>5. CASE ShellMessage \/ ShellToastEnds
    <2>1. screen \in Layouts /\ \E h, kind : SetAndDelay(h, kind) \/ Fire(kind, h)
      BY <1>5, Zenon DEF ShellMessage, ShellToastEnds, Layouts
    <2> QED BY <2>1, FlashSteps DEF LiveCases, FlashInv, Layouts, Chats
  <1>6. CASE ShellMenu \/ AdminLink \/ NotificationCenter
    <2>1. screen \in Layouts /\ \E h : Set(h)
      BY <1>6, Zenon DEF ShellMenu, AdminLink, NotificationCenter, Layouts
    <2> QED BY <2>1, LiveSets
  <1>7. CASE ToggleTheme
    BY <1>7, LiveRests DEF ToggleTheme, Timed, FlashInv, Layouts, Chats
  <1>8. CASE GlobeZoom \/ GlobeOverview
    <2>1. screen = "globe" /\ \E h : Set(h)
      BY <1>8, Zenon DEF GlobeZoom, GlobeOverview
    <2> QED BY <2>1, LiveSets
  <1>9. CASE GlobeArcEnds
    <2>1. screen = "globe" /\ \E h : Fire("arc", h)
      BY <1>9, Zenon DEF GlobeArcEnds
    <2> QED BY <2>1, FlashSteps DEF LiveCases, FlashInv, Chats
  <1>10. CASE GlobeRotate
    BY <1>10, GlobeTurns DEF GlobeRotate
  <1>11. ASSUME NEW c, GlobeCity(c) PROVE LiveCases
    BY <1>11, GlobeTurns DEF GlobeCity
  <1>12. CASE LandingCount
    <2> DEFINE start == hooks.count + CountStep
    <2>1. screen = "landing" /\ Pending("count") /\ UNCHANGED <<screen, calls, past>>
      BY <1>12 DEF LandingCount
    <2>2. "count" \in DOMAIN hooks
      BY <2>1 DEF FlashInv
    <2>3. \/ hooks' = [hooks EXCEPT !.count = CountEnd] /\ timers' = <<>>
          \/ hooks' = [hooks EXCEPT !.count = start] /\ timers' = timers
      BY <1>12 DEF LandingCount
    <2> HIDE DEF start
    <2>4. CASE hooks' = [hooks EXCEPT !.count = CountEnd] /\ timers' = <<>>
      <3>1. FlashInv'
        BY <2>1, <2>2, <2>4 DEF FlashInv, Chats, CountEnd
      <3> QED BY <2>1, <2>4, <3>1, NoTimers, LiveRests
    <2>5. CASE hooks' = [hooks EXCEPT !.count = start] /\ timers' = timers
      <3>1. FlashInv'
        BY <2>1, <2>2, <2>5 DEF FlashInv, Chats, Pending
      <3> QED BY <2>1, <2>5, <3>1, LiveRests DEF Timed
    <2> QED BY <2>3, <2>4, <2>5
  <1>13. CASE ContactSubmit
    <2> DEFINE h == [hooks EXCEPT !.submitted = TRUE]
    <2>1. screen = "contact" /\ SetAndDelay(h, "submitted")
      BY <1>13 DEF ContactSubmit
    <2>2. "submitted" \in DOMAIN h
      BY <2>1 DEF FlashInv
    <2> HIDE DEF h
    <2> QED BY <2>1, <2>2, FlashSteps DEF LiveCases, FlashInv, Chats
  <1>14. CASE ContactEnds
    <2> DEFINE h == [hooks EXCEPT !.submitted = FALSE]
    <2>1. screen = "contact" /\ Fire("submitted", h)
      BY <1>14 DEF ContactEnds
    <2>2. "submitted" \in DOMAIN h /\ ~h.submitted
      BY <2>1 DEF FlashInv
    <2> HIDE DEF h
    <2> QED BY <2>1, <2>2, FlashSteps DEF LiveCases, FlashInv, Chats
  <1> QED BY <1>1, <1>2, <1>3, <1>4, <1>5, <1>6, <1>7, <1>8, <1>9, <1>10, <1>11, <1>12, <1>13, <1>14, GlobeSpawns
          DEF LiveNext

(* What goes away by itself *)

Least(m, n) == IF m <= n THEN m ELSE n

\* The n newest of the first t payments, in the order they came and the other way round.
Newest(t, n) == [k \in 1 .. n |-> t - n + k]
Latest(t, n) == [k \in 1 .. n |-> t - k + 1]

\* The arcs are the newest of those in the air, and a frame is asked for once.
GlobeGood(h, ts) ==
  /\ {"livePayments", "txFeed", "totalTx", "autoRotate"} \subseteq DOMAIN h
  /\ h.totalTx \in Nat /\ Times(ts, "arc") <= h.totalTx
  /\ h.livePayments = Newest(h.totalTx, Least(Times(ts, "arc"), ArcLimit + 1))
  /\ h.txFeed = Latest(h.totalTx, Least(h.totalTx, FeedLimit))
  /\ h.autoRotate \in BOOLEAN /\ Times(ts, "frame") = (IF h.autoRotate THEN 1 ELSE 0)

\* Each toast has a timeout, and the last one is the last message.
ToastsGood(h, ts) ==
  /\ {"wsNotifs", "received"} \subseteq DOMAIN h
  /\ IsSequence(h.wsNotifs) /\ h.received \in Nat
  /\ Len(h.wsNotifs) <= Times(ts, "toast")
  /\ Len(h.wsNotifs) # 0 => h.wsNotifs[Len(h.wsNotifs)] = h.received

MovingScreens == {"globe", "customerLayout"}

TransientInv ==
  /\ screen = "globe" => GlobeGood(hooks, timers)
  /\ screen = "customerLayout" => ToastsGood(hooks, timers)

\* Newest is a sequence.
LEMMA NewestFacts ==
  ASSUME NEW t \in Int, NEW n \in Nat
  PROVE  /\ IsSequence(Newest(t, n)) /\ Len(Newest(t, n)) = n
         /\ DOMAIN Newest(t, n) = 1 .. n /\ \A k \in 1 .. n : Newest(t, n)[k] = t - n + k
  <1> DEFINE s == Newest(t, n)
  <1>1. DOMAIN s = 1 .. n /\ (\A k \in 1 .. n : s[k] = t - n + k) /\ s = [k \in 1 .. n |-> s[k]]
    BY DEF Newest
  <1> HIDE DEF s
  <1>2. IsSequence(s) /\ Len(s) = n
    BY <1>1, FunctionIsSequence
  <1> QED BY <1>1, <1>2 DEF s

\* The last of the newest.
LEMMA NewestLast ==
  ASSUME NEW t \in Nat, NEW n \in Nat, NEW l \in Nat \ {0}
  PROVE  LastOf(Newest(t, n), l) = Newest(t, Least(n, l))
  <1> DEFINE s == Newest(t, n)
  <1>1. IsSequence(s) /\ Len(s) = n /\ \A k \in 1 .. n : s[k] = t - n + k
    BY NewestFacts
  <1> HIDE DEF s
  <1>2. CASE l >= n
    BY <1>1, <1>2 DEF LastOf, Least, s
  <1>3. CASE l < n
    <2> DEFINE w == SubSeq(s, n - l + 1, n)
    <2>1. LastOf(s, l) = w /\ Least(n, l) = l
      BY <1>1, <1>3 DEF LastOf, Least
    <2>2. n - l + 1 \in Nat \ {0} /\ n - (n - l + 1) + 1 = l /\ n - l + 1 <= n + 1
      BY <1>3
    <2>3. IsSequence(w) /\ Len(w) = l /\ \A k \in 1 .. l : w[k] = s[(n - l + 1) + k - 1]
      BY <1>1, <2>2, SliceFacts
    <2> HIDE DEF w
    <2>4. \A k \in 1 .. l : w[k] = t - l + k
      <3> TAKE k \in 1 .. l
      <3>1. (n - l + 1) + k - 1 \in 1 .. n /\ t - n + ((n - l + 1) + k - 1) = t - l + k
        BY <1>3
      <3> QED BY <1>1, <2>3, <3>1
    <2>5. /\ IsSequence(Newest(t, l)) /\ Len(Newest(t, l)) = l
          /\ \A k \in 1 .. l : Newest(t, l)[k] = t - l + k
      BY NewestFacts
    <2>6. w = Newest(t, l)
      BY <2>3, <2>4, <2>5, SameSequence
    <2> QED BY <2>1, <2>6 DEF s
  <1> QED BY <1>2, <1>3

\* One more payment.
LEMMA NewestAppend ==
  ASSUME NEW t \in Nat, NEW n \in Nat
  PROVE  Append(Newest(t, n), t + 1) = Newest(t + 1, n + 1)
  <1> DEFINE s == Newest(t, n)
             w == Append(s, t + 1)
             v == Newest(t + 1, n + 1)
  <1>1. IsSequence(s) /\ Len(s) = n /\ DOMAIN s = 1 .. n /\ \A k \in 1 .. n : s[k] = t - n + k
    BY NewestFacts
  <1>2. IsSequence(v) /\ Len(v) = n + 1 /\ \A k \in 1 .. n + 1 : v[k] = (t + 1) - (n + 1) + k
    BY NewestFacts
  <1> HIDE DEF s, v
  <1>3. IsSequence(w) /\ Len(w) = n + 1 /\ (\A k \in 1 .. n : w[k] = s[k]) /\ w[n + 1] = t + 1
    BY <1>1, AppendFacts
  <1> HIDE DEF w
  <1>4. \A k \in 1 .. n + 1 : w[k] = v[k]
    <2> TAKE k \in 1 .. n + 1
    <2>1. (t + 1) - (n + 1) + k = t - n + k
      OBVIOUS
    <2>2. CASE k = n + 1
      BY <1>2, <1>3, <2>1, <2>2
    <2>3. CASE k \in 1 .. n
      BY <1>1, <1>2, <1>3, <2>1, <2>3
    <2> QED BY <2>2, <2>3
  <1>5. w = v
    BY <1>2, <1>3, <1>4, SameSequence
  <1> QED BY <1>5 DEF w, v, s

\* The oldest of the newest goes.
LEMMA NewestDismiss ==
  ASSUME NEW t \in Nat, NEW n \in Nat \ {0}
  PROVE  Dismiss(Newest(t, n), t - n + 1) = Newest(t, n - 1)
  <1> DEFINE i == 1
             s == Newest(t, n)
             v == Newest(t, n - 1)
             w == RemoveAt(s, i)
  <1>1. IsSequence(s) /\ Len(s) = n /\ DOMAIN s = 1 .. n /\ \A k \in 1 .. n : s[k] = t - n + k
    BY NewestFacts
  <1>2. IsSequence(v) /\ Len(v) = n - 1 /\ \A k \in 1 .. n - 1 : v[k] = t - (n - 1) + k
    <2>1. n - 1 \in Nat /\ t \in Int
      OBVIOUS
    <2> QED BY <2>1, NewestFacts
  <1>0. i = 1
    OBVIOUS
  <1> HIDE DEF i, s, v
  <1>3. i \in DOMAIN s /\ s[i] = t - n + 1 /\ \A k \in DOMAIN s : s[k] = t - n + 1 => k = i
    BY <1>0, <1>1
  <1>4. Dismiss(s, t - n + 1) = w
    BY <1>3 DEF Dismiss
  <1>5. /\ IsSequence(w) /\ Len(w) = Len(s) - 1 /\ DOMAIN w = 1 .. Len(s) - 1
        /\ \A k \in DOMAIN w : w[k] = s[IF k < i THEN k ELSE k + 1]
    <2>1. IsSequence(s) /\ i \in DOMAIN s
      BY <1>1, <1>3
    <2> QED BY <2>1, RemoveAtFacts
  <1> HIDE DEF w
  <1>6. \A k \in 1 .. n - 1 : w[k] = v[k]
    <2> SUFFICES ASSUME NEW k \in 1 .. n - 1 PROVE w[k] = v[k]
      OBVIOUS
    <2>1. k + 1 \in 1 .. n /\ ~(k < 1) /\ t - n + (k + 1) = t - (n - 1) + k /\ k \in DOMAIN w
      BY <1>1, <1>5
    <2>2. w[k] = s[k + 1]
      BY <1>0, <1>5, <2>1
    <2>3. s[k + 1] = t - n + (k + 1)
      BY <1>1, <2>1
    <2> QED BY <1>2, <2>1, <2>2, <2>3
  <1>7. w = v
    BY <1>1, <1>2, <1>5, <1>6, SameSequence
  <1> QED BY <1>4, <1>7 DEF v, s

\* One that has already made room is not there.
LEMMA NewestKept ==
  ASSUME NEW t \in Nat, NEW n \in Nat, NEW x \in Int, x < t - n + 1
  PROVE  Dismiss(Newest(t, n), x) = Newest(t, n)
  <1>1. \A k \in 1 .. n : Newest(t, n)[k] # x
    <2> TAKE k \in 1 .. n
    <2>1. Newest(t, n)[k] = t - n + k
      BY DEF Newest
    <2> QED BY <2>1
  <1> QED BY <1>1, NewestFacts DEF Dismiss

\* The feed gets one more.
LEMMA LatestFirst ==
  ASSUME NEW t \in Nat, NEW n \in Nat, NEW l \in Nat, n <= l
  PROVE  FirstOf(<<t + 1>> \o Latest(t, n), l) = Latest(t + 1, Least(n + 1, l))
  <1> DEFINE s == Latest(t, n)
             one == <<t + 1>>
             c == one \o s
  <1>1. DOMAIN s = 1 .. n /\ (\A k \in 1 .. n : s[k] = t - k + 1) /\ s = [k \in 1 .. n |-> s[k]]
    BY DEF Latest
  <1> HIDE DEF s
  <1>2. IsSequence(s) /\ Len(s) = n
    BY <1>1, FunctionIsSequence
  <1>3. s \in Seq(Int) /\ one \in Seq(Int) /\ Len(one) = 1 /\ one[1] = t + 1
    BY <1>1, <1>2, SequenceFacts
  <1> HIDE DEF one
  <1>4. c \in Seq(Int) /\ Len(c) = n + 1 /\ \A k \in 1 .. n + 1 : c[k] = IF k <= 1 THEN one[k] ELSE s[k - 1]
    <2>1. /\ c \in Seq(Int) /\ Len(c) = Len(one) + Len(s)
          /\ \A k \in 1 .. Len(one) + Len(s) : c[k] = IF k <= Len(one) THEN one[k] ELSE s[k - Len(one)]
      BY <1>3, ConcatProperties
    <2>2. Len(one) + Len(s) = n + 1
      BY <1>2, <1>3
    <2> HIDE DEF c
    <2> QED BY <1>3, <2>1, <2>2
  <1> HIDE DEF c
  <1>5. IsSequence(c)
    BY <1>4, SeqIsSequence
  <1>6. \A k \in 1 .. n + 1 : c[k] = (t + 1) - k + 1
    <2> TAKE k \in 1 .. n + 1
    <2>1. CASE k = 1
      BY <1>3, <1>4, <2>1
    <2>2. CASE k # 1
      <3>1. k - 1 \in 1 .. n /\ ~(k <= 1) /\ t - (k - 1) + 1 = (t + 1) - k + 1
        BY <2>2
      <3> QED BY <1>1, <1>4, <3>1
    <2> QED BY <2>1, <2>2
  <1> DEFINE m == Least(n + 1, l)
             v == Latest(t + 1, m)
             w == FirstOf(c, l)
  <1>7. m \in Nat /\ m <= n + 1
    BY DEF Least
  <1>8. (\A k \in 1 .. m : v[k] = (t + 1) - k + 1) /\ v = [k \in 1 .. m |-> v[k]]
    BY DEF Latest
  <1> HIDE DEF v
  <1>9. IsSequence(v) /\ Len(v) = m
    BY <1>7, <1>8, FunctionIsSequence
  <1>10. IsSequence(w) /\ Len(w) = m /\ \A k \in 1 .. m : w[k] = c[k]
    <2>1. CASE l >= n + 1
      BY <1>4, <1>5, <2>1 DEF FirstOf, Least
    <2>2. CASE l < n + 1
      <3>1. w = SubSeq(c, 1, l) /\ m = l
        BY <1>4, <2>2 DEF FirstOf, Least
      <3>2. /\ IsSequence(SubSeq(c, 1, l)) /\ Len(SubSeq(c, 1, l)) = l - 1 + 1
            /\ \A k \in 1 .. l - 1 + 1 : SubSeq(c, 1, l)[k] = c[1 + k - 1]
        BY <1>4, <1>5, <2>2, SliceFacts
      <3>3. l - 1 + 1 = l /\ \A k \in 1 .. l : 1 + k - 1 = k
        OBVIOUS
      <3> QED BY <3>1, <3>2, <3>3
    <2> QED BY <2>1, <2>2
  <1> HIDE DEF w, m
  <1>11. w = v
    <2>1. \A k \in 1 .. m : w[k] = v[k]
      BY <1>6, <1>7, <1>8, <1>10
    <2> QED BY <1>9, <1>10, <2>1, SameSequence
  <1> QED BY <1>11 DEF w, v, m, c, one, s

\* A timeout is pending if it is there at least once.
LEMMA PendingTimes ==
  ASSUME Timed, NEW kind
  PROVE  Times(timers, kind) \in Nat /\ (Pending(kind) <=> Times(timers, kind) # 0)
  BY PlacesFacts DEF Timed, Pending

\* What the timeout that fires leaves.
LEMMA TimesFire ==
  ASSUME Timed, NEW kind, Pending(kind), NEW e
  PROVE  /\ IsSequence(RemoveAt(timers, First(kind)))
         /\ Times(RemoveAt(timers, First(kind)), e) = Times(timers, e) - (IF kind = e THEN 1 ELSE 0)
  <1>1. IsSequence(timers)
    BY DEF Timed
  <1>2. First(kind) \in DOMAIN timers /\ timers[First(kind)] = kind
    BY <1>1, FirstFacts
  <1> QED BY <1>1, <1>2, RemoveAtFacts, TimesRemove

\* One more payment on the globe, with its arc.
LEMMA SpawnGood ==
  ASSUME NEW h, NEW ts, NEW us, GlobeGood(h, ts), Times(ts, "arc") \in Nat,
         Times(us, "arc") = Times(ts, "arc") + 1, Times(us, "frame") = Times(ts, "frame")
  PROVE  GlobeGood(Spawned(h), us)
  <1> DEFINE t == h.totalTx
             a == Times(ts, "arc")
             n == Least(a, ArcLimit + 1)
             f == Least(t, FeedLimit)
             g == Spawned(h)
  <1>1. /\ {"livePayments", "txFeed", "totalTx", "autoRotate"} \subseteq DOMAIN h
        /\ t \in Nat /\ a \in Nat /\ a <= t /\ h.livePayments = Newest(t, n) /\ h.txFeed = Latest(t, f)
        /\ h.autoRotate \in BOOLEAN /\ Times(us, "frame") = (IF h.autoRotate THEN 1 ELSE 0)
    BY DEF GlobeGood
  <1>2. /\ DOMAIN g = DOMAIN h /\ g.totalTx = t + 1 /\ g.autoRotate = h.autoRotate
        /\ g.livePayments = Append(LastOf(h.livePayments, ArcLimit), t + 1)
        /\ g.txFeed = FirstOf(<<t + 1>> \o h.txFeed, FeedLimit)
    BY <1>1 DEF Spawned
  <1>3. ArcLimit \in Nat \ {0} /\ FeedLimit \in Nat
    BY LimitsAssumption
  <1>4. /\ n \in Nat /\ Least(n, ArcLimit) \in Nat
        /\ Least(n, ArcLimit) + 1 = Least(a + 1, ArcLimit + 1)
        /\ f \in Nat /\ f <= FeedLimit /\ Least(f + 1, FeedLimit) = Least(t + 1, FeedLimit)
    BY <1>1, <1>3 DEF Least
  <1> HIDE DEF g, t, a, n, f
  <1>5. g.livePayments = Newest(t + 1, Least(a + 1, ArcLimit + 1))
    <2>1. LastOf(Newest(t, n), ArcLimit) = Newest(t, Least(n, ArcLimit))
      BY <1>1, <1>3, <1>4, NewestLast
    <2>2. Append(Newest(t, Least(n, ArcLimit)), t + 1) = Newest(t + 1, Least(n, ArcLimit) + 1)
      BY <1>1, <1>4, NewestAppend
    <2> QED BY <1>1, <1>2, <1>4, <2>1, <2>2
  <1>6. g.txFeed = Latest(t + 1, Least(t + 1, FeedLimit))
    <2>1. FirstOf(<<t + 1>> \o Latest(t, f), FeedLimit) = Latest(t + 1, Least(f + 1, FeedLimit))
      BY <1>1, <1>3, <1>4, LatestFirst
    <2> QED BY <1>1, <1>2, <1>4, <2>1
  <1>7. t + 1 \in Nat /\ Times(us, "arc") = a + 1 /\ a + 1 <= t + 1
    BY <1>1 DEF a
  <1> QED BY <1>1, <1>2, <1>5, <1>6, <1>7 DEF GlobeGood, g

\* A payment appears.
LEMMA TransientSpawn ==
  ASSUME Timed, TransientInv, GlobeSpawn \/ GlobeSpawnLater PROVE TransientInv'
  <1>1. screen = "globe" /\ screen' = screen /\ hooks' = Spawned(hooks) /\ GlobeGood(hooks, timers)
    BY DEF GlobeSpawn, GlobeSpawnLater, TransientInv
  <1>2. Times(timers, "arc") \in Nat /\ Times(timers, "frame") \in Nat /\ IsSequence(timers)
    BY PendingTimes DEF Timed
  <1>3. Times(timers', "arc") = Times(timers, "arc") + 1 /\ Times(timers', "frame") = Times(timers, "frame")
    <2>1. CASE GlobeSpawnLater
      <3> DEFINE w == RemoveAt(timers, First("spawn"))
      <3>1. Pending("spawn") /\ timers' = Append(w, "arc")
        BY <2>1 DEF GlobeSpawnLater
      <3>2. /\ IsSequence(w) /\ Times(w, "arc") = Times(timers, "arc") - (IF "spawn" = "arc" THEN 1 ELSE 0)
            /\ Times(w, "frame") = Times(timers, "frame") - (IF "spawn" = "frame" THEN 1 ELSE 0)
        BY <3>1, TimesFire
      <3> HIDE DEF w
      <3>3. /\ Times(Append(w, "arc"), "arc") = Times(w, "arc") + (IF "arc" = "arc" THEN 1 ELSE 0)
            /\ Times(Append(w, "arc"), "frame") = Times(w, "frame") + (IF "arc" = "frame" THEN 1 ELSE 0)
        BY <3>2, TimesAppend
      <3> QED BY <1>2, <3>1, <3>2, <3>3
    <2>2. CASE GlobeSpawn
      <3> DEFINE w == timers \o <<"arc">>
      <3>1. PICK more \in {<<>>, <<"spawn">>} : timers' = w \o more
        BY <2>2 DEF GlobeSpawn
      <3>2. w = Append(timers, "arc")
        BY <1>2, ConcatOne
      <3> HIDE DEF w
      <3>a. IsSequence(w)
        BY <1>2, <3>2, AppendFacts
      <3>b. /\ Times(Append(timers, "arc"), "arc") = Times(timers, "arc") + (IF "arc" = "arc" THEN 1 ELSE 0)
            /\ Times(Append(timers, "arc"), "frame") = Times(timers, "frame") + (IF "arc" = "frame" THEN 1 ELSE 0)
        BY <1>2, TimesAppend
      <3>3. /\ IsSequence(w) /\ Times(w, "arc") = Times(timers, "arc") + 1
            /\ Times(w, "frame") = Times(timers, "frame")
        BY <1>2, <3>2, <3>a, <3>b
      <3>4. CASE more = <<>>
        <4>1. w \o <<>> = w
          BY <3>3, SequenceFacts
        <4> QED BY <1>2, <3>1, <3>3, <3>4, <4>1
      <3>5. CASE more = <<"spawn">>
        <4>1. timers' = Append(w, "spawn")
          BY <3>1, <3>3, <3>5, ConcatOne, Zenon
        <4>2. /\ Times(Append(w, "spawn"), "arc") = Times(w, "arc") + (IF "spawn" = "arc" THEN 1 ELSE 0)
              /\ Times(Append(w, "spawn"), "frame") = Times(w, "frame") + (IF "spawn" = "frame" THEN 1 ELSE 0)
          BY <3>3, TimesAppend
        <4> QED BY <1>2, <3>3, <4>1, <4>2
      <3> QED BY <3>1, <3>4, <3>5
    <2> QED BY <2>1, <2>2
  <1>4. GlobeGood(hooks', timers')
    BY <1>1, <1>2, <1>3, SpawnGood
  <1> QED BY <1>1, <1>4 DEF TransientInv

\* The oldest payment in the air leaves the globe, if it is still shown.
LEMMA TransientArc ==
  ASSUME Timed, TransientInv, GlobeArcEnds PROVE TransientInv'
  <1> DEFINE t == hooks.totalTx
             a == Times(timers, "arc")
             n == Least(a, ArcLimit + 1)
  <1>1. /\ screen = "globe" /\ screen' = screen /\ Pending("arc")
        /\ hooks' = [hooks EXCEPT !.livePayments = Dismiss(@, NextArc)]
        /\ timers' = RemoveAt(timers, First("arc"))
    BY DEF GlobeArcEnds, Fire
  <1>2. /\ {"livePayments", "txFeed", "totalTx", "autoRotate"} \subseteq DOMAIN hooks
        /\ t \in Nat /\ a <= t /\ hooks.livePayments = Newest(t, n)
        /\ hooks.txFeed = Latest(t, Least(t, FeedLimit))
        /\ hooks.autoRotate \in BOOLEAN /\ Times(timers, "frame") = (IF hooks.autoRotate THEN 1 ELSE 0)
    BY <1>1 DEF TransientInv, GlobeGood
  <1>3. a \in Nat /\ a # 0
    BY <1>1, PendingTimes
  <1>4. /\ Times(timers', "arc") = a - (IF "arc" = "arc" THEN 1 ELSE 0)
        /\ Times(timers', "frame") = Times(timers, "frame") - (IF "arc" = "frame" THEN 1 ELSE 0)
    BY <1>1, TimesFire
  <1>5. NextArc = t - a + 1
    BY DEF NextArc, ArcTimers, Times, Places
  <1>6. ArcLimit \in Nat
    BY LimitsAssumption
  <1>7. /\ DOMAIN hooks' = DOMAIN hooks /\ hooks'.totalTx = t /\ hooks'.txFeed = hooks.txFeed
        /\ hooks'.autoRotate = hooks.autoRotate /\ hooks'.livePayments = Dismiss(Newest(t, n), t - a + 1)
    BY <1>1, <1>2, <1>5
  <1>8. hooks'.livePayments = Newest(t, Least(a - 1, ArcLimit + 1))
    <2> HIDE DEF t, a
    <2>1. CASE a <= ArcLimit + 1
      <3>1. n = a /\ Least(a - 1, ArcLimit + 1) = a - 1 /\ a \in Nat \ {0}
        BY <1>3, <1>6, <2>1 DEF Least
      <3>2. Dismiss(Newest(t, a), t - a + 1) = Newest(t, a - 1)
        BY <1>2, <3>1, NewestDismiss
      <3> QED BY <1>7, <3>1, <3>2
    <2>2. CASE ~(a <= ArcLimit + 1)
      <3>1. n = ArcLimit + 1 /\ Least(a - 1, ArcLimit + 1) = ArcLimit + 1
        BY <1>3, <1>6, <2>2 DEF Least
      <3>2. ArcLimit + 1 \in Nat /\ t - a + 1 \in Int /\ t - a + 1 < t - (ArcLimit + 1) + 1
        BY <1>2, <1>3, <1>6, <2>2
      <3>3. Dismiss(Newest(t, ArcLimit + 1), t - a + 1) = Newest(t, ArcLimit + 1)
        BY <1>2, <3>2, NewestKept
      <3> QED BY <1>7, <3>1, <3>3
    <2> QED BY <2>1, <2>2
  <1>9. Times(timers', "arc") = a - 1 /\ a - 1 <= t /\ Times(timers', "frame") = Times(timers, "frame")
    <2>1. Times(timers, "frame") \in Nat
      BY PendingTimes
    <2> HIDE DEF t, a
    <2> QED BY <1>2, <1>3, <1>4, <2>1
  <1> HIDE DEF t, a, n
  <1>10. GlobeGood(hooks', timers')
    BY <1>2, <1>7, <1>8, <1>9 DEF GlobeGood
  <1> QED BY <1>1, <1>10 DEF TransientInv

\* The globe turns exactly while a frame is asked for.
LEMMA TransientTurn ==
  ASSUME Timed, TransientInv, NEW h, Rotate(h), h.autoRotate \in BOOLEAN, DOMAIN h = DOMAIN hooks,
         h.livePayments = hooks.livePayments, h.txFeed = hooks.txFeed, h.totalTx = hooks.totalTx
  PROVE  TransientInv'
  <1>1. screen = "globe" /\ screen' = screen /\ hooks' = h /\ GlobeGood(hooks, timers)
    BY DEF Rotate, TransientInv
  <1>2. IsSequence(timers) /\ Times(timers, "arc") \in Nat
        /\ Times(timers, "frame") \in {0, 1} /\ (Pending("frame") <=> Times(timers, "frame") = 1)
    BY <1>1, PendingTimes DEF Timed, GlobeGood
  <1>3. /\ Times(timers', "arc") = Times(timers, "arc")
        /\ Times(timers', "frame") = (IF h.autoRotate THEN 1 ELSE 0)
    <2>1. CASE h.autoRotate /\ ~Pending("frame")
      <3>1. timers' = Append(timers, "frame")
        BY <2>1 DEF Rotate
      <3>2. /\ Times(timers', "frame") = Times(timers, "frame") + (IF "frame" = "frame" THEN 1 ELSE 0)
            /\ Times(timers', "arc") = Times(timers, "arc") + (IF "frame" = "arc" THEN 1 ELSE 0)
        BY <1>2, <3>1, TimesAppend
      <3> QED BY <1>2, <2>1, <3>2
    <2>2. CASE ~h.autoRotate /\ Pending("frame")
      <3>1. timers' = RemoveAt(timers, First("frame"))
        BY <2>2 DEF Rotate
      <3>2. /\ Times(timers', "frame") = Times(timers, "frame") - (IF "frame" = "frame" THEN 1 ELSE 0)
            /\ Times(timers', "arc") = Times(timers, "arc") - (IF "frame" = "arc" THEN 1 ELSE 0)
        BY <2>2, <3>1, TimesFire
      <3> QED BY <1>2, <2>2, <3>2
    <2>3. CASE h.autoRotate <=> Pending("frame")
      <3>1. timers' = timers
        BY <2>3 DEF Rotate
      <3> QED BY <1>2, <2>3, <3>1
    <2> QED BY <2>1, <2>2, <2>3
  <1>4. GlobeGood(h, timers')
    BY <1>1, <1>3 DEF GlobeGood
  <1> QED BY <1>1, <1>4 DEF TransientInv

\* A toast comes with its timeout, and pushes older ones out.
LEMMA TransientMessage ==
  ASSUME Timed, TransientInv, ShellMessage PROVE TransientInv'
  <1> DEFINE s == hooks.wsNotifs
             m == hooks.received + 1
             u == LastOf(s, ToastLimit)
             w == Append(u, m)
  <1>1. /\ screen = "customerLayout" /\ screen' = screen /\ timers' = Append(timers, "toast")
        /\ hooks' = [hooks EXCEPT !.wsNotifs = w, !.received = m]
    BY DEF ShellMessage, SetAndDelay
  <1>2. ToastsGood(hooks, timers) /\ IsSequence(timers) /\ Times(timers, "toast") \in Nat
    BY <1>1, PendingTimes DEF TransientInv, Timed
  <1>3. Times(timers', "toast") = Times(timers, "toast") + (IF "toast" = "toast" THEN 1 ELSE 0)
    BY <1>1, <1>2, TimesAppend
  <1>4. /\ DOMAIN hooks' = DOMAIN hooks /\ hooks'.wsNotifs = w /\ hooks'.received = m
        /\ IsSequence(s) /\ m \in Nat /\ Len(s) <= Times(timers, "toast")
    BY <1>1, <1>2 DEF ToastsGood
  <1> HIDE DEF s, m
  <1>5. IsSequence(u) /\ Len(u) <= Len(s) /\ Len(s) \in Nat
    <2>1. CASE ToastLimit >= Len(s)
      BY <1>4, <2>1, LimitsAssumption DEF LastOf, IsSequence
    <2>2. CASE ToastLimit < Len(s)
      <3> DEFINE e == Len(s)
                 b == e - ToastLimit + 1
      <3>a. e \in Nat /\ ToastLimit \in Nat \ {0} /\ ToastLimit < e
        BY <1>4, <2>2, LimitsAssumption DEF IsSequence
      <3>b. u = SubSeq(s, b, e)
        BY <3>a DEF LastOf
      <3>c. b \in Nat \ {0} /\ b <= e + 1 /\ e - b + 1 = ToastLimit
        <4> HIDE DEF e
        <4> QED BY <3>a
      <3>1. u = SubSeq(s, b, e) /\ b \in Nat \ {0} /\ e \in Nat /\ b <= e + 1 /\ e - b + 1 = ToastLimit
        BY <3>a, <3>b, <3>c
      <3>2. IsSequence(SubSeq(s, b, e)) /\ Len(SubSeq(s, b, e)) = e - b + 1
        <4>1. e <= Len(s)
          BY <3>1
        <4> HIDE DEF b, e
        <4> QED BY <1>4, <3>1, <4>1, SliceFacts
      <3> QED BY <2>2, <3>1, <3>2
    <2> QED BY <1>4, <2>1, <2>2, LimitsAssumption DEF IsSequence
  <1> HIDE DEF u
  <1>6. IsSequence(w) /\ Len(w) = Len(u) + 1 /\ w[Len(u) + 1] = m
    BY <1>5, AppendFacts
  <1> HIDE DEF w
  <1>7. Len(w) <= Times(timers', "toast") /\ w[Len(w)] = m
    BY <1>2, <1>3, <1>4, <1>5, <1>6 DEF IsSequence
  <1>8. {"wsNotifs", "received"} \subseteq DOMAIN hooks'
    BY <1>2, <1>4 DEF ToastsGood
  <1>9. ToastsGood(hooks', timers')
    BY <1>4, <1>6, <1>7, <1>8 DEF ToastsGood
  <1> QED BY <1>1, <1>9 DEF TransientInv

\* The oldest toast ends.
LEMMA TransientToast ==
  ASSUME Timed, TransientInv, ShellToastEnds PROVE TransientInv'
  <1> DEFINE s == hooks.wsNotifs
             n == Len(s)
             w == SubSeq(s, 2, n)
  <1>1. /\ screen = "customerLayout" /\ screen' = screen /\ Pending("toast")
        /\ timers' = RemoveAt(timers, First("toast")) /\ hooks' = [hooks EXCEPT !.wsNotifs = w]
    BY DEF ShellToastEnds, Fire
  <1>2. ToastsGood(hooks, timers) /\ Times(timers, "toast") \in Nat /\ Times(timers, "toast") # 0
    BY <1>1, PendingTimes DEF TransientInv
  <1>3. Times(timers', "toast") = Times(timers, "toast") - (IF "toast" = "toast" THEN 1 ELSE 0)
    BY <1>1, TimesFire
  <1>4. /\ {"wsNotifs", "received"} \subseteq DOMAIN hooks'
        /\ hooks'.wsNotifs = w /\ hooks'.received = hooks.received /\ hooks.received \in Nat
        /\ IsSequence(s) /\ n <= Times(timers, "toast") /\ n \in Nat /\ (n # 0 => s[n] = hooks.received)
    BY <1>1, <1>2 DEF ToastsGood, IsSequence
  <1> HIDE DEF s
  <1>5. CASE n = 0
    <2> DEFINE S == {s[k] : k \in DOMAIN s}
    <2>1. s \in Seq(S)
      BY <1>4, SequenceFacts
    <2>2. w \in Seq(S) /\ Len(w) = 0
      BY <1>5, <2>1, SubSeqProperties
    <2>3. IsSequence(w)
      BY <2>2, SeqIsSequence
    <2> HIDE DEF w
    <2>4. Len(w) <= Times(timers', "toast")
      BY <1>2, <1>3, <2>2
    <2> QED BY <1>1, <1>4, <2>2, <2>3, <2>4 DEF ToastsGood, TransientInv
  <1>6. CASE n # 0
    <2> DEFINE b == 2
    <2>1. b \in Nat \ {0} /\ b <= n + 1 /\ n - b + 1 = n - 1 /\ b = 2
      BY <1>4, <1>6
    <2> HIDE DEF b
    <2>2. /\ IsSequence(SubSeq(s, b, n)) /\ Len(SubSeq(s, b, n)) = n - b + 1
          /\ \A k \in 1 .. n - b + 1 : SubSeq(s, b, n)[k] = s[b + k - 1]
      BY <1>4, <2>1, SliceFacts
    <2>3. w = SubSeq(s, b, n)
      BY <2>1
    <2> HIDE DEF w, n
    <2>4. IsSequence(w) /\ Len(w) = n - 1 /\ \A k \in 1 .. n - 1 : w[k] = s[2 + k - 1]
      BY <2>1, <2>2, <2>3
    <2>5. Len(w) # 0 => w[Len(w)] = hooks.received
      <3> SUFFICES ASSUME Len(w) # 0 PROVE w[Len(w)] = hooks.received
        OBVIOUS
      <3>1. n - 1 \in 1 .. n - 1 /\ 2 + (n - 1) - 1 = n
        BY <1>4, <1>6, <2>4
      <3>2. w[n - 1] = s[2 + (n - 1) - 1]
        BY <2>4, <3>1
      <3> QED BY <1>4, <1>6, <2>4, <3>1, <3>2
    <2>6. Len(w) <= Times(timers', "toast")
      BY <1>2, <1>3, <1>4, <2>4
    <2> QED BY <1>1, <1>4, <2>4, <2>5, <2>6 DEF ToastsGood, TransientInv
  <1> QED BY <1>5, <1>6

\* What is there when the globe or a layout is opened.
LEMMA TransientOpened ==
  GlobeGood(GlobeState, GlobeTimers) /\ ToastsGood(ShellState, <<>>)
  <1>1. GlobeGood(GlobeState, GlobeTimers)
    <2>1. DOMAIN GlobeTimers = 1 .. 4 /\ GlobeTimers[1] = "spawn" /\ GlobeTimers[2] = "spawn"
          /\ GlobeTimers[3] = "spawn" /\ GlobeTimers[4] = "frame"
      BY DEF GlobeTimers
    <2>2. Places(GlobeTimers, "arc") = {}
      BY <2>1 DEF Places
    <2>3. Places(GlobeTimers, "frame") = {4}
      BY <2>1 DEF Places
    <2>4. Times(GlobeTimers, "arc") = 0 /\ Times(GlobeTimers, "frame") = 1
      BY <2>2, <2>3, FS_EmptySet, FS_Singleton DEF Times
    <2>5. Least(0, ArcLimit + 1) = 0 /\ Least(0, FeedLimit) = 0
      BY LimitsAssumption DEF Least
    <2>6. Newest(0, 0) = <<>> /\ Latest(0, 0) = <<>>
      BY DEF Newest, Latest
    <2>7. /\ DOMAIN GlobeState = {"livePayments", "txFeed", "totalTx", "zoom", "autoRotate", "selectedCity"}
          /\ GlobeState.livePayments = <<>> /\ GlobeState.txFeed = <<>> /\ GlobeState.totalTx = 0
          /\ GlobeState.autoRotate = TRUE
      BY DEF GlobeState
    <2> DEFINE h == GlobeState
               ts == GlobeTimers
    <2>8. /\ {"livePayments", "txFeed", "totalTx", "autoRotate"} \subseteq DOMAIN h
          /\ h.totalTx = 0 /\ h.livePayments = Newest(0, Least(0, ArcLimit + 1))
          /\ h.txFeed = Latest(0, Least(0, FeedLimit)) /\ h.autoRotate = TRUE
          /\ Times(ts, "arc") = 0 /\ Times(ts, "frame") = 1
      BY <2>4, <2>5, <2>6, <2>7
    <2> HIDE DEF h, ts
    <2>a. h.autoRotate \in BOOLEAN /\ Times(ts, "frame") = (IF h.autoRotate THEN 1 ELSE 0)
      BY <2>8, Zenon
    <2>9. GlobeGood(h, ts)
      BY <2>8, <2>a DEF GlobeGood
    <2> QED BY <2>9 DEF h, ts
  <1>2. ToastsGood(ShellState, <<>>)
    <2>1. IsSequence(<<>>) /\ Len(<<>>) = 0
      BY DEF IsSequence
    <2>2. Times(<<>>, "toast") \in Nat
      BY <2>1, PlacesFacts
    <2>3. /\ {"wsNotifs", "received"} \subseteq DOMAIN ShellState
          /\ ShellState.wsNotifs = <<>> /\ ShellState.received = 0
      BY DEF ShellState
    <2> QED BY <2>1, <2>2, <2>3 DEF ToastsGood
  <1> QED BY <1>1, <1>2

\* Every step of LiveScreens.
LEMMA TransientKeeps ==
  ASSUME Timed, TransientInv, LiveNext PROVE TransientInv'
  <1>1. ASSUME NEW s \in Layouts, screen = s, ShellMount(s) PROVE TransientInv'
    <2>1. screen' = s /\ hooks' = ShellState /\ timers' = <<>>
      BY <1>1 DEF ShellMount, Mount, MountWith
    <2> QED BY <2>1, TransientOpened DEF TransientInv, Layouts
  <1>2. CASE screen = "globe" /\ GlobeMount
    <2>1. screen' = "globe" /\ hooks' = GlobeState /\ timers' = GlobeTimers
      BY <1>2 DEF GlobeMount, MountWith
    <2> QED BY <2>1, TransientOpened DEF TransientInv
  <1>3. CASE \/ screen = "landing" /\ LandingMount
             \/ screen = "contact" /\ ContactMount
    BY <1>3 DEF LandingMount, ContactMount, Mount, MountWith, TransientInv
  <1>4. CASE ShellMenu \/ AdminLink \/ NotificationCenter \/ ToggleTheme
    <2>1. screen \in Layouts /\ screen' = screen /\ timers' = timers
      BY <1>4 DEF ShellMenu, AdminLink, NotificationCenter, ToggleTheme, Set, Layouts
    <2>2. \/ \E b : hooks' = [hooks EXCEPT !.mobileMenuOpen = b]
          \/ \E b : hooks' = [hooks EXCEPT !.open = b]
          \/ \E b : hooks' = [hooks EXCEPT !.unread = b]
          \/ \E b : hooks' = [hooks EXCEPT !.theme = b]
      BY <1>4 DEF ShellMenu, AdminLink, NotificationCenter, ToggleTheme, Set
    <2>3. DOMAIN hooks' = DOMAIN hooks
      BY <2>2
    <2>4. CASE screen = "customerLayout"
      <3>1. ToastsGood(hooks, timers)
        BY <2>4 DEF TransientInv
      <3>2. hooks'.wsNotifs = hooks.wsNotifs /\ hooks'.received = hooks.received
        BY <2>2, <3>1 DEF ToastsGood
      <3>3. ToastsGood(hooks', timers')
        BY <2>1, <2>3, <3>1, <3>2 DEF ToastsGood
      <3> QED BY <2>1, <2>4, <3>3 DEF TransientInv
    <2> QED BY <2>1, <2>4 DEF TransientInv, Layouts
  <1>5. CASE GlobeZoom \/ GlobeOverview
    <2>1. screen = "globe" /\ screen' = screen /\ timers' = timers
      BY <1>5 DEF GlobeZoom, GlobeOverview, Set
    <2>2. \E b : hooks' = [hooks EXCEPT !.zoom = b] \/ hooks' = [hooks EXCEPT !.selectedCity = b]
      BY <1>5 DEF GlobeZoom, GlobeOverview, Set
    <2>3. GlobeGood(hooks, timers)
      BY <2>1 DEF TransientInv
    <2>4. /\ DOMAIN hooks' = DOMAIN hooks /\ hooks'.livePayments = hooks.livePayments
          /\ hooks'.txFeed = hooks.txFeed /\ hooks'.totalTx = hooks.totalTx /\ hooks'.autoRotate = hooks.autoRotate
      BY <2>2, <2>3 DEF GlobeGood
    <2>5. GlobeGood(hooks', timers')
      BY <2>1, <2>3, <2>4 DEF GlobeGood
    <2> QED BY <2>1, <2>5 DEF TransientInv
  <1>6. CASE GlobeRotate
    <2> DEFINE h == [hooks EXCEPT !.autoRotate = ~@]
    <2>1. screen = "globe" /\ Rotate(h)
      BY <1>6 DEF GlobeRotate
    <2>2. GlobeGood(hooks, timers)
      BY <2>1 DEF TransientInv
    <2>3. /\ h.autoRotate \in BOOLEAN /\ DOMAIN h = DOMAIN hooks
          /\ h.livePayments = hooks.livePayments /\ h.txFeed = hooks.txFeed /\ h.totalTx = hooks.totalTx
      BY <2>2 DEF GlobeGood
    <2> HIDE DEF h
    <2> QED BY <2>1, <2>3, TransientTurn
  <1>7. ASSUME NEW c, GlobeCity(c) PROVE TransientInv'
    <2> DEFINE h == [hooks EXCEPT !.selectedCity = c, !.autoRotate = FALSE]
    <2>1. screen = "globe" /\ Rotate(h)
      BY <1>7 DEF GlobeCity
    <2>2. GlobeGood(hooks, timers)
      BY <2>1 DEF TransientInv
    <2>3. /\ h.autoRotate \in BOOLEAN /\ DOMAIN h = DOMAIN hooks
          /\ h.livePayments = hooks.livePayments /\ h.txFeed = hooks.txFeed /\ h.totalTx = hooks.totalTx
      BY <2>2 DEF GlobeGood
    <2> HIDE DEF h
    <2> QED BY <2>1, <2>3, TransientTurn
  <1>8. CASE LandingCount \/ ContactSubmit \/ ContactEnds
    BY <1>8 DEF LandingCount, ContactSubmit, ContactEnds, SetAndDelay, Fire, TransientInv
  <1>9. CASE GlobeSpawn \/ GlobeSpawnLater
    BY <1>9, TransientSpawn
  <1>10. CASE GlobeArcEnds
    BY <1>10, TransientArc
  <1>11. CASE ShellMessage
    BY <1>11, TransientMessage
  <1>12. CASE ShellToastEnds
    BY <1>12, TransientToast
  <1> QED BY <1>1, <1>2, <1>3, <1>4, <1>5, <1>6, <1>7, <1>8, <1>9, <1>10, <1>11, <1>12 DEF LiveNext

(* LegacyPages *)

\* One call at a time waits for a list, and it is one that the page has not shown.
LegacyGood(h, cs, ts) ==
  /\ h \in LegacyHooks
  /\ h.toasts = Len(ts) /\ \A k \in DOMAIN ts : ts[k] = "legacyToast"
  /\ Alone(cs, "legacy")
  /\ Working(cs, "legacy") => h.page \in LegacyNames /\ h.shown < Len(LegacyPages[h.page].fetches)

\* The same on their screen, and what their steps keep.
LegacyInv == screen = "legacy" => LegacyGood(hooks, calls, timers)

LegacyCases == Base' /\ Timed' /\ screen' = "legacy" /\ LegacyInv'

\* A page fetches one list or two.
LEMMA LegacyLengths ==
  ASSUME NEW p \in LegacyNames PROVE Len(LegacyPages[p].fetches) \in 1 .. 2
  BY DEF LegacyNames, LegacyPages, LegacyPage, LegacyTransactions, LegacyPortfolio, LegacyAiPortfolio,
         LegacyLoans, LegacySecurityLogs, LegacyFraud, LegacyAdmin, LegacyAnalytics, LegacyForecasting,
         LegacyAml, LegacyHealth, LegacyDashboard

\* A call that nobody waits for is forgotten.
LEMMA StaleFacts ==
  ASSUME Base, NEW i \in DOMAIN calls, ~calls[i].live, calls' = RemoveAt(calls, i), UNCHANGED <<screen, past>>
  PROVE  /\ Base'
         /\ \A job : Working(calls', job) <=> Working(calls, job)
         /\ \A job : Alone(calls, job) => Alone(calls', job)
  <1> DEFINE g(k) == IF k < i THEN k ELSE k + 1
  <1>1. Shaped(calls) /\ IsSequence(calls) /\ DOMAIN calls = 1 .. Len(calls) /\ Len(calls) \in Nat
    BY SequenceFacts DEF Base, Shaped, IsSequence
  <1>2. /\ IsSequence(calls') /\ Len(calls') = Len(calls) - 1 /\ DOMAIN calls' = 1 .. Len(calls) - 1
        /\ \A k \in DOMAIN calls' : calls'[k] = calls[g(k)] /\ g(k) \in DOMAIN calls \ {i}
    <2> DEFINE w == RemoveAt(calls, i)
    <2>1. /\ IsSequence(w) /\ Len(w) = Len(calls) - 1
          /\ DOMAIN w = 1 .. Len(calls) - 1
          /\ \A k \in DOMAIN w :
               /\ k \in 1 .. Len(calls) - 1
               /\ w[k] = calls[IF k < i THEN k ELSE k + 1]
               /\ (IF k < i THEN k ELSE k + 1) \in DOMAIN calls \ {i}
      BY <1>1, RemoveAtFacts, Zenon
    <2>2. calls' = w
      OBVIOUS
    <2> HIDE DEF w
    <2>3. \A k \in DOMAIN w : w[k] = calls[g(k)] /\ g(k) \in DOMAIN calls \ {i}
      BY <2>1, Zenon
    <2> QED BY <2>1, <2>2, <2>3
  <1>3. \A j, k \in DOMAIN calls' : g(j) = g(k) => j = k
    BY <1>1, <1>2
  <1>4. \A j \in DOMAIN calls \ {i} : \E k \in DOMAIN calls' : g(k) = j
    <2> TAKE j \in DOMAIN calls \ {i}
    <2>1. CASE j < i
      BY <1>1, <1>2, <2>1
    <2>2. CASE ~(j < i)
      <3>1. j - 1 \in DOMAIN calls' /\ g(j - 1) = j
        BY <1>1, <1>2, <2>2
      <3> QED BY <3>1
    <2> QED BY <2>1, <2>2
  <1> HIDE DEF g
  <1>5. Shaped(calls')
    BY <1>1, <1>2, BoundsAssumption DEF Shaped
  <1>6. OwnCalls(calls', screen')
    BY <1>2 DEF OwnCalls, Base
  <1>7. \A job : Working(calls', job) <=> Working(calls, job)
    BY <1>2, <1>4 DEF Working, Does
  <1>8. \A job : Alone(calls, job) => Alone(calls', job)
    BY <1>2, <1>3 DEF Alone
  <1> QED BY <1>5, <1>6, <1>7, <1>8 DEF Base, AloneAll

\* A page is loaded.
LEMMA LegacyLoads ==
  ASSUME Base, screen = "legacy", NEW p \in LegacyNames \union {"login"}, NEW token \in BOOLEAN,
         LegacyLoad(p, token)
  PROVE  LegacyCases
  <1>1. \A q \in LegacyNames \union {"login"} :
          LegacyState(q, token) \in LegacyHooks /\ LegacyState(q, token).toasts = 0
                                /\ LegacyState(q, token).shown = 0 /\ LegacyState(q, token).page = q
    BY DEF LegacyState, LegacyHooks
  <1>2. SameFamily(screen, "legacy")
    BY DEF SameFamily
  <1>3. CASE p = "login" \/ ~token
    <2> DEFINE h == LegacyState("login", token)
    <2>1. MountWith("legacy", h, <<>>, <<>>)
      BY <1>3, Zenon DEF LegacyLoad, Mount
    <2>2. h \in LegacyHooks /\ h.toasts = 0
      BY <1>1
    <2> HIDE DEF h
    <2>3. /\ Base' /\ Dropped(calls', calls) /\ screen' = "legacy" /\ hooks' = h /\ timers' = <<>>
      BY <1>2, <2>1, OpenQuiet
    <2>4. LegacyGood(h, calls', <<>>)
      BY <2>2, <2>3 DEF LegacyGood, Dropped
    <2> QED BY <2>3, <2>4, NoTimers DEF LegacyCases, LegacyInv
  <1>4. CASE p # "login" /\ token
    <2> DEFINE h == LegacyState(p, token)
               c == LegacyFetch(p, 1)
    <2>1. MountWith("legacy", h, <<c>>, <<>>)
      BY <1>4, Zenon DEF LegacyLoad, Mount
    <2>2. h \in LegacyHooks /\ h.toasts = 0 /\ h.shown = 0 /\ h.page = p
      BY <1>1
    <2>3. Shape(c) /\ c.op = "legacy"
      BY GetShape DEF LegacyFetch
    <2> HIDE DEF h, c
    <2>4. "legacy" \in Home(c.op) /\ Job(c) = "legacy" /\ Job(c) \notin Writes
      BY <2>3, HomeFacts DEF Job, Writes
    <2>5. /\ Base' /\ \E mid : Dropped(mid, calls) /\ Made(calls', mid, c)
          /\ screen' = "legacy" /\ hooks' = h /\ timers' = <<>>
      BY <1>2, <2>1, <2>3, <2>4, OpenSends
    <2>6. Alone(calls', "legacy")
      BY <2>5 DEF Dropped, Made
    <2>7. p \in LegacyNames /\ 0 < Len(LegacyPages[p].fetches)
      BY <1>4, LegacyLengths
    <2>8. LegacyGood(h, calls', <<>>)
      BY <2>2, <2>6, <2>7 DEF LegacyGood
    <2> QED BY <2>5, <2>8, NoTimers DEF LegacyCases, LegacyInv
  <1> QED BY <1>3, <1>4

\* A handler changes what no list depends on.
LEMMA LegacySets ==
  ASSUME Base, Timed, LegacyInv, screen = "legacy", NEW h \in LegacyHooks, Set(h),
         h.toasts = hooks.toasts, h.page = hooks.page, h.shown = hooks.shown
  PROVE  LegacyCases
  BY DEF Set, LegacyCases, LegacyInv, LegacyGood, Base, Timed

\* A form is sent.
LEMMA LegacySends ==
  ASSUME Base, Timed, LegacyInv, screen = "legacy", NEW h \in LegacyHooks, NEW c, Shape(c), c.live,
         c.op \in {"legacyLogin", "legacyOtp"}, hooks' = h, Send(<<c>>), UNCHANGED <<screen, timers>>,
         past' \subseteq Pasts,
         h.toasts = hooks.toasts, h.page = hooks.page, h.shown = hooks.shown
  PROVE  LegacyCases
  <1>1. screen \in Home(c.op) /\ Job(c) \notin Writes /\ Job(c) # "legacy"
    BY HomeFacts DEF Job, Writes
  <1>2. Base' /\ Made(calls', calls, c)
    BY <1>1, SendOne
  <1>3. Alone(calls', "legacy") /\ (Working(calls', "legacy") => Working(calls, "legacy"))
    BY <1>1, <1>2 DEF Made, Does, LegacyInv, LegacyGood
  <1> QED BY <1>2, <1>3 DEF LegacyCases, LegacyInv, LegacyGood, Timed

\* An answer comes in and nothing more is asked.
LEMMA LegacyEnds ==
  ASSUME Base, Timed, LegacyInv, screen = "legacy", NEW i \in DOMAIN calls, NEW h \in LegacyHooks,
         Resolve(i, h, <<>>), timers' = timers,
         h.toasts = hooks.toasts, h.page = hooks.page,
         h.shown = hooks.shown \/ (calls[i].live /\ calls[i].op = "legacy")
  PROVE  LegacyCases
  <1>1. Base' /\ Ended(calls', calls, i) /\ Settled(i, h)
    BY ResolveEnds
  <1>2. LegacyGood(hooks, calls, timers)
    BY DEF LegacyInv
  <1>3. Alone(calls', "legacy")
    BY <1>1, <1>2 DEF LegacyGood, Ended
  <1>4. Working(calls', "legacy") => Working(calls, "legacy") /\ hooks'.shown = hooks.shown
    BY <1>1, <1>2 DEF LegacyGood, Ended, Settled, Does, Job
  <1>5. LegacyGood(hooks', calls', timers)
    BY <1>1, <1>2, <1>3, <1>4 DEF LegacyGood, Settled
  <1> QED BY <1>1, <1>5 DEF LegacyCases, LegacyInv, Settled, Timed

\* A list came in.
LEMMA LegacyShows ==
  ASSUME Base, Timed, LegacyInv, screen = "legacy", NEW i \in DOMAIN calls, LegacyAnswered(i)
  PROVE  LegacyCases
  <1> DEFINE page == LegacyPages[hooks.page]
             k == hooks.shown + 1
             empty == calls[i].reply.value = 0 /\ k \in page.ends
             h == [hooks EXCEPT !.shown = IF empty THEN @ ELSE k, !.said = IF empty THEN "empty" ELSE @]
             c == LegacyFetch(hooks.page, k + 1)
  <1>1. LegacyGood(hooks, calls, timers) /\ hooks \in LegacyHooks
    BY DEF LegacyInv, LegacyGood
  <1>2. calls[i].op = "legacy" /\ calls[i].live /\ timers' = timers
    BY DEF LegacyAnswered, Back
  <1>3. Resolve(i, h, IF empty \/ k = Len(page.fetches) THEN <<>> ELSE <<c>>)
    BY Zenon DEF LegacyAnswered
  <1>4. Does(calls[i], "legacy")
    BY <1>2 DEF Does, Job
  <1>5. hooks.page \in LegacyNames /\ hooks.shown < Len(page.fetches) /\ Len(page.fetches) \in 1 .. 2
    BY <1>1, <1>4, LegacyLengths DEF LegacyGood, Working
  <1>6. k \in 1 .. 2 /\ k <= Len(page.fetches)
    <2>1. hooks.shown \in 0 .. 2
      BY <1>1 DEF LegacyHooks
    <2> DEFINE n == Len(page.fetches)
    <2>2. hooks.shown < n /\ n \in 1 .. 2
      BY <1>5
    <2> HIDE DEF n
    <2>3. k \in 1 .. 2 /\ k <= n
      BY <2>1, <2>2
    <2> QED BY <2>3 DEF n
  <1>7. /\ h \in LegacyHooks /\ h.toasts = hooks.toasts /\ h.page = hooks.page
        /\ ~empty => h.shown = k
    <2> DEFINE n == IF empty THEN hooks.shown ELSE k
               s == IF empty THEN "empty" ELSE hooks.said
    <2>1. n \in 0 .. 2 /\ s \in {"none", "empty", "failed"} /\ (~empty => n = k)
      BY <1>1, <1>6 DEF LegacyHooks
    <2>2. h = [hooks EXCEPT !.shown = n, !.said = s]
      OBVIOUS
    <2> HIDE DEF h, n, s, empty
    <2> QED BY <1>1, <2>1, <2>2 DEF LegacyHooks
  <1>8. Shape(c) /\ c.op = "legacy"
    BY GetShape DEF LegacyFetch
  <1> HIDE DEF h, c
  <1>9. CASE empty \/ k = Len(page.fetches)
    BY <1>2, <1>3, <1>7, <1>9, LegacyEnds
  <1>10. CASE ~(empty \/ k = Len(page.fetches))
    <2>1. Resolve(i, h, <<c>>) /\ k < Len(page.fetches) /\ h.shown = k
      BY <1>3, <1>5, <1>6, <1>7, <1>10
    <2>2. screen \in Home(c.op) /\ Job(c) = "legacy" /\ Job(c) \notin Writes
      BY <1>8, HomeFacts DEF Job, Writes
    <2>3. /\ Base' /\ Settled(i, h)
          /\ \E d, mid : /\ d.op = c.op /\ d.arg = c.arg
                         /\ Ended(mid, calls, i) /\ Made(calls', mid, d)
      BY <1>8, <2>1, <2>2, ResolveSends
    <2>4. Alone(calls', "legacy")
      BY <1>1, <1>4, <2>3 DEF LegacyGood, Ended, Made
    <2>5. hooks' = h /\ screen' = "legacy"
      BY <1>2, <2>3 DEF Settled
    <2>6. LegacyGood(h, calls', timers)
      BY <1>1, <1>5, <1>7, <2>1, <2>4 DEF LegacyGood
    <2> QED BY <1>2, <2>3, <2>5, <2>6 DEF LegacyCases, LegacyInv, Timed
  <1> QED BY <1>9, <1>10

\* The server answers.
LEMMA LegacyAnswers ==
  ASSUME Base', Timed, LegacyInv, screen = "legacy", NEW i \in DOMAIN calls, NEW r,
         Answered(calls', calls, i, r), UNCHANGED <<screen, hooks, timers>>
  PROVE  LegacyCases
  BY DEF LegacyCases, LegacyInv, LegacyGood, Timed, Answered

\* A toast comes and goes with its timeout.
LEMMA LegacyToasts ==
  ASSUME Base, Timed, LegacyInv, screen = "legacy", LegacyTick \/ LegacyToastEnds
  PROVE  LegacyCases
  <1>1. LegacyGood(hooks, calls, timers) /\ hooks \in LegacyHooks
    BY DEF LegacyInv, LegacyGood
  <1>2. IsSequence(timers) /\ Len(timers) \in Nat /\ hooks.toasts = Len(timers)
    BY <1>1 DEF Timed, IsSequence, LegacyGood
  <1>3. CASE LegacyTick
    <2>1. /\ hooks' = [hooks EXCEPT !.toasts = @ + 1] /\ timers' = Append(timers, "legacyToast")
          /\ Len(timers) < MaxTimers /\ UNCHANGED <<screen, calls, past>>
      BY <1>3 DEF LegacyTick, SetAndDelay
    <2>2. /\ IsSequence(timers') /\ Len(timers') = Len(timers) + 1
          /\ DOMAIN timers' = DOMAIN timers \union {Len(timers) + 1}
          /\ \A k \in DOMAIN timers : timers'[k] = timers[k]
          /\ timers'[Len(timers) + 1] = "legacyToast"
      BY <1>2, <2>1, AppendFacts
    <2>3. /\ hooks' \in LegacyHooks /\ hooks'.toasts = Len(timers) + 1
          /\ hooks'.page = hooks.page /\ hooks'.shown = hooks.shown
      BY <1>1, <1>2, <2>1 DEF LegacyHooks
    <2>4. LegacyGood(hooks', calls, timers')
      BY <1>1, <2>2, <2>3 DEF LegacyGood
    <2>5. Timed'
      BY <1>2, <2>1, <2>2, BoundsAssumption DEF Timed
    <2> QED BY <2>1, <2>4, <2>5 DEF LegacyCases, LegacyInv, Base
  <1>4. CASE LegacyToastEnds
    <2>1. /\ hooks' = [hooks EXCEPT !.toasts = @ - 1] /\ timers' = RemoveAt(timers, First("legacyToast"))
          /\ Pending("legacyToast") /\ UNCHANGED <<screen, calls, past>>
      BY <1>4 DEF LegacyToastEnds, Fire
    <2>2. First("legacyToast") \in DOMAIN timers
      BY <1>2, <2>1, FirstFacts
    <2>3. /\ IsSequence(timers') /\ Len(timers') = Len(timers) - 1
          /\ \A k \in DOMAIN timers' : timers'[k] = "legacyToast"
      BY <1>1, <1>2, <2>1, <2>2, RemoveAtFacts DEF LegacyGood
    <2>4. Len(timers) - 1 \in Nat
      BY <1>2, <2>3 DEF IsSequence
    <2>5. /\ hooks' \in LegacyHooks /\ hooks'.toasts = Len(timers) - 1
          /\ hooks'.page = hooks.page /\ hooks'.shown = hooks.shown
      BY <1>1, <1>2, <2>1, <2>4 DEF LegacyHooks
    <2>6. LegacyGood(hooks', calls, timers')
      BY <1>1, <2>3, <2>5 DEF LegacyGood
    <2>7. Timed'
      BY <1>2, <2>3, BoundsAssumption DEF Timed
    <2> QED BY <2>1, <2>6, <2>7 DEF LegacyCases, LegacyInv, Base
  <1> QED BY <1>3, <1>4

\* Every step of LegacyPages.
LEMMA LegacyKeeps ==
  ASSUME Base, Timed, LegacyInv, screen = "legacy", LegacyNext
  PROVE  LegacyCases
  <1>1. LegacyGood(hooks, calls, timers) /\ hooks \in LegacyHooks /\ hooks.token \in BOOLEAN
    BY DEF LegacyInv, LegacyGood, LegacyHooks
  <1>2. ASSUME NEW p \in LegacyNames \union {"login"}, LegacyMount(p) PROVE LegacyCases
    BY <1>1, <1>2, LegacyLoads DEF LegacyMount
  <1>3. ASSUME NEW u \in LegacyUsers, LegacyLogin(u) PROVE LegacyCases
    <2> DEFINE c == Post("legacyLogin", u)
               h == [hooks EXCEPT !.username = u]
    <2>1. Shape(c) /\ c.op = "legacyLogin" /\ c.live
      BY PostShape
    <2>2. /\ hooks' = h /\ Send(<<c>>) /\ UNCHANGED <<screen, timers>>
          /\ past' = IF InFlight("legacyLogin") # {} THEN past \union {"overlapped"} ELSE past
      BY <1>3, Zenon DEF LegacyLogin
    <2>3. past' \subseteq Pasts
      BY <2>2 DEF Base, Pasts
    <2>4. h \in LegacyHooks /\ h.toasts = hooks.toasts /\ h.page = hooks.page /\ h.shown = hooks.shown
      BY <1>1 DEF LegacyHooks
    <2> HIDE DEF c, h
    <2> QED BY <2>1, <2>2, <2>3, <2>4, LegacySends
  <1>4. CASE LegacyOtp
    <2> DEFINE c == Post("legacyOtp", hooks.username)
    <2>1. Shape(c) /\ c.op = "legacyOtp" /\ c.live
      BY PostShape
    <2>2. hooks' = hooks /\ Send(<<c>>) /\ UNCHANGED <<screen, timers, past>>
      BY <1>4, Zenon DEF LegacyOtp, SetAndSend
    <2>3. past' \subseteq Pasts
      BY <2>2 DEF Base
    <2> HIDE DEF c
    <2> QED BY <1>1, <2>1, <2>2, <2>3, LegacySends
  <1>5. CASE LegacyTheme
    <2> DEFINE t == IF hooks.theme = "light" THEN "dark" ELSE "light"
               h == [hooks EXCEPT !.theme = t]
    <2>1. Set(h) /\ t \in {"dark", "light"}
      BY <1>5 DEF LegacyTheme
    <2> HIDE DEF t
    <2>2. h \in LegacyHooks /\ h.toasts = hooks.toasts /\ h.page = hooks.page /\ h.shown = hooks.shown
      BY <1>1, <2>1 DEF LegacyHooks
    <2> HIDE DEF h
    <2> QED BY <2>1, <2>2, LegacySets
  <1>6. CASE LegacySocket
    <2>1. PICK w \in {"open", "closed"} : Set([hooks EXCEPT !.ws = w])
      BY <1>6 DEF LegacySocket
    <2> DEFINE h == [hooks EXCEPT !.ws = w]
    <2>2. h \in LegacyHooks /\ h.toasts = hooks.toasts /\ h.page = hooks.page /\ h.shown = hooks.shown
      BY <1>1, <2>1 DEF LegacyHooks
    <2>3. Set(h)
      BY <2>1
    <2> HIDE DEF h
    <2> QED BY <2>2, <2>3, LegacySets
  <1>7. ASSUME NEW i \in DOMAIN calls, LegacyStale(i) PROVE LegacyCases
    <2>1. ~calls[i].live /\ calls' = RemoveAt(calls, i) /\ UNCHANGED <<screen, hooks, timers, past>>
      BY <1>7 DEF LegacyStale
    <2>2. /\ Base' /\ (Working(calls', "legacy") => Working(calls, "legacy"))
          /\ (Alone(calls, "legacy") => Alone(calls', "legacy"))
      BY <2>1, StaleFacts
    <2> QED BY <1>1, <2>1, <2>2 DEF LegacyCases, LegacyInv, LegacyGood, Timed
  <1>8. ASSUME NEW i \in DOMAIN calls, LegacyFailed(i) PROVE LegacyCases
    <2> DEFINE s == IF LegacyPages[hooks.page].says THEN "failed" ELSE hooks.said
               h == [hooks EXCEPT !.said = s]
    <2>1. Resolve(i, h, <<>>) /\ timers' = timers
      BY <1>8 DEF LegacyFailed
    <2>2. s \in {"none", "empty", "failed"}
      BY <1>1 DEF LegacyHooks
    <2> HIDE DEF s
    <2>3. h \in LegacyHooks /\ h.toasts = hooks.toasts /\ h.page = hooks.page /\ h.shown = hooks.shown
      BY <1>1, <2>2 DEF LegacyHooks
    <2> HIDE DEF h
    <2> QED BY <2>1, <2>3, LegacyEnds
  <1>9. ASSUME NEW i \in DOMAIN calls, LegacyExpired(i) PROVE LegacyCases
    BY <1>9, LegacyLoads DEF LegacyExpired
  <1>10. ASSUME NEW i \in DOMAIN calls, LegacyLoginServe(i) \/ LegacyOtpServe(i) PROVE LegacyCases
    <2>1. \E op, v : Write(i, op, server, v)
      BY <1>10, Zenon DEF LegacyLoginServe, LegacyOtpServe
    <2> QED BY <2>1, WriteOne, LegacyAnswers
  <1>11. ASSUME NEW i \in DOMAIN calls, LegacyLoggedIn(i) PROVE LegacyCases
    <2> DEFINE f == IF calls[i].reply = Ok(202) THEN "otp" ELSE hooks.form
               h == [hooks EXCEPT !.form = f]
    <2>1. Resolve(i, h, <<>>) /\ timers' = timers
      BY <1>11 DEF LegacyLoggedIn
    <2>2. f \in {"login", "otp"}
      BY <1>1 DEF LegacyHooks
    <2> HIDE DEF f
    <2>3. h \in LegacyHooks /\ h.toasts = hooks.toasts /\ h.page = hooks.page /\ h.shown = hooks.shown
      BY <1>1, <2>2 DEF LegacyHooks
    <2> HIDE DEF h
    <2> QED BY <2>1, <2>3, LegacyEnds
  <1>12. ASSUME NEW i \in DOMAIN calls, LegacyVerified(i) PROVE LegacyCases
    <2>1. CASE LegacyLoad("dashboard", TRUE)
      <3>1. "dashboard" \in LegacyNames
        BY DEF LegacyNames, LegacyPages
      <3> QED BY <2>1, <3>1, LegacyLoads
    <2>2. CASE Resolve(i, hooks, <<>>) /\ timers' = timers
      BY <1>1, <2>2, LegacyEnds
    <2> QED BY <1>12, <2>1, <2>2 DEF LegacyVerified
  <1> QED BY <1>2, <1>3, <1>4, <1>5, <1>6, <1>7, <1>8, <1>9, <1>10, <1>11, <1>12, LegacyShows, LegacyToasts
          DEF LegacyNext

(* All screens together *)

\* The inductive invariant: the calls and the timeouts are in shape, and of each
\* family of screens what it relies on.
PagesInv ==
  /\ Base /\ Timed
  /\ TransferInv /\ FirstInv /\ BillPayInv /\ FxInv
  /\ LoadInv /\ ListInv /\ FlashInv /\ ProfileInv /\ TransientInv /\ LegacyInv

\* What is not on screen holds of nothing.
LEMMA Elsewhere ==
  /\ screen # "transfer" => TransferInv
  /\ screen \notin FirstScreens => FirstInv
  /\ screen # "billpay" => BillPayInv
  /\ screen # "fx" => FxInv
  /\ screen \notin LoadScreens => LoadInv
  /\ screen \notin ListScreens => ListInv
  /\ screen \notin FlashScreens => FlashInv
  /\ screen # "profile" => ProfileInv
  /\ screen \notin MovingScreens => TransientInv
  /\ screen # "legacy" => LegacyInv
  BY DEF TransferInv, FirstInv, BillPayInv, FxInv, LoadInv, LoadGood, ListInv, ListGood,
         FlashInv, FlashScreens, ProfileInv, TransientInv, MovingScreens, LegacyInv

\* The families have no screen in common.
LEMMA Apart ==
  ASSUME NEW s
  PROVE  /\ s \in {"transfer", "billpay", "fx", "legacy"} \union FirstScreens
              => s \notin LoadScreens /\ s \notin FlashScreens /\ s # "profile" /\ s \notin MovingScreens
         /\ s \in ListingScreens \union AdminPages \union CustomerPages => s \notin MovingScreens
         /\ s \in ListingScreens \union AdminPages \union CustomerPages \union LivePages
              => s \notin {"transfer", "billpay", "fx", "legacy"} \union FirstScreens
         /\ s \in ListingScreens => s \notin FlashScreens /\ s # "profile"
         /\ s \in AdminPages => s # "profile"
         /\ s \in LivePages => s \notin LoadScreens /\ s # "profile"
         /\ s \in {"transfer", "billpay", "fx", "legacy"} => s \notin FirstScreens
         /\ s \notin ListingScreens => s \notin ListScreens
         /\ s \in {"transfer", "billpay", "fx", "legacy", "profile"} \union FirstScreens \union FlashScreens
                    \union AdminPages \union CustomerPages \union LivePages
              => s \notin ListScreens
  BY DEF FirstScreens, LoadScreens, ListScreens, FlashScreens, ListingScreens, AdminPages, CustomerPages, LivePages,
         MovingScreens, AdminLists, Chats, Layouts

\* The server's side of any call: it is answered, and a GET gets what it names.
LEMMA ServerAnswers ==
  ASSUME Base, NEW i \in DOMAIN calls, Read(i) \/ Reject(i) \/ Lose(i)
  PROVE  /\ UNCHANGED <<screen, hooks, timers, server, past>>
         /\ \E r : /\ Base' /\ Answered(calls', calls, i, r) /\ r.status \in {"ok", "failed"}
                   /\ r.status = "ok" => /\ calls[i].resource \in DOMAIN server
                                         /\ r.value = server[calls[i].resource]
  <1>1. UNCHANGED <<screen, hooks, timers, server, past>>
    BY Zenon DEF Read, Reject, Lose
  <1>2. past' \subseteq Pasts
    BY <1>1 DEF Base
  <1>3. CASE Read(i)
    <2> DEFINE r == Ok(server[calls[i].resource])
    <2>1. Answer(i, r) /\ calls[i].resource \in DOMAIN server
      BY <1>3 DEF Read
    <2>2. r \in [status : {"waiting", "ok", "failed"}, value : {r.value}] /\ r.value = server[calls[i].resource]
          /\ r.status = "ok"
      BY DEF Ok
    <2> HIDE DEF r
    <2>3. Base' /\ Answered(calls', calls, i, r)
      BY <1>1, <1>2, <2>1, <2>2, AnswerOne
    <2> QED BY <1>1, <2>1, <2>2, <2>3
  <1>4. CASE Reject(i) \/ Lose(i)
    <2> DEFINE r == Failed
    <2>1. Answer(i, r)
      BY <1>4 DEF Reject, Lose
    <2>2. r \in [status : {"waiting", "ok", "failed"}, value : {r.value}] /\ r.status = "failed"
      BY DEF Failed
    <2> HIDE DEF r
    <2>3. Base' /\ Answered(calls', calls, i, r)
      BY <1>1, <1>2, <2>1, <2>2, AnswerOne
    <2> QED BY <1>1, <2>2, <2>3
  <1> QED BY <1>3, <1>4

\* An answer on the screen of transfers.
LEMMA TransferAnswers ==
  ASSUME Base, Base', TransferInv, screen = "transfer", NEW i \in DOMAIN calls, NEW r,
         Answered(calls', calls, i, r), UNCHANGED <<screen, hooks, server, past>>,
         r.status = "ok" => calls[i].resource \in DOMAIN server /\ r.value = server[calls[i].resource]
  PROVE  TransferInv'
  <1>1. TransferGood(hooks, calls, server, past)
    BY DEF TransferInv
  <1>2. TransferCall(calls[i], hooks, server, past)
    BY <1>1 DEF TransferGood
  <1>3. DOMAIN server = {"accounts", "ledger", "staff"}
    BY <1>1 DEF TransferGood, TransferServer, BankRecord
  <1>4. TransferCall(calls'[i], hooks, server, past)
    BY <1>2, <1>3 DEF TransferCall, Answered
  <1>5. \A k \in DOMAIN calls' : TransferCall(calls'[k], hooks, server, past)
    BY <1>1, <1>4 DEF TransferGood, Answered
  <1>6. TransferGood(hooks, calls', server, past)
    BY <1>1, <1>5 DEF TransferGood, Answered
  <1> QED BY <1>6 DEF TransferInv

\* An answer on any screen.
LEMMA AnswersKeep ==
  ASSUME PagesInv, NEW i \in DOMAIN calls, Read(i) \/ Reject(i) \/ Lose(i)
  PROVE  PagesInv'
  <1>1. Base /\ Timed
    BY DEF PagesInv
  <1>2. UNCHANGED <<screen, hooks, timers, server, past>>
    BY <1>1, ServerAnswers
  <1>3. PICK r : /\ Base' /\ Answered(calls', calls, i, r)
                 /\ r.status = "ok" => calls[i].resource \in DOMAIN server /\ r.value = server[calls[i].resource]
    BY <1>1, ServerAnswers
  <1>4. Timed'
    BY <1>1, <1>2 DEF Timed
  <1>5. screen = "transfer" => TransferInv'
    BY <1>1, <1>2, <1>3, TransferAnswers DEF PagesInv
  <1>6. screen \in FirstScreens => FirstInv'
    <2> SUFFICES ASSUME screen \in FirstScreens PROVE FirstInv'
      OBVIOUS
    <2>1. FirstGood(screen, hooks, calls, server)
      BY DEF PagesInv, FirstInv
    <2>2. calls[i].op = "first" => calls[i].resource = "none"
      BY <2>1 DEF FirstGood, FirstCall
    <2>3. "none" \notin DOMAIN server
      BY <2>1 DEF FirstGood, BankRecord
    <2> QED BY <1>1, <1>2, <1>3, <2>2, <2>3, FirstAnswers DEF PagesInv, FirstCases
  <1>7. screen = "billpay" => BillPayInv'
    <2> SUFFICES ASSUME screen = "billpay" PROVE BillPayInv'
      OBVIOUS
    <2>1. BillServer(server) /\ BillCall(calls[i])
      BY DEF PagesInv, BillPayInv, BillGood
    <2>2. IsBillMap(server.bills)
      <3>1. PICK n \in 0 .. Bills : server.bills \in [1 .. n -> BillStatuses]
        BY <2>1 DEF BillServer
      <3> QED BY <3>1, BillsAssumption DEF IsBillMap, BillIds
    <2>3. r.status = "ok" => calls[i].op # "fetchBills" \/ IsBillMap(r.value)
      BY <1>3, <2>1, <2>2 DEF BillCall
    <2> QED BY <1>1, <1>2, <1>3, <2>1, <2>3, BillAnswers DEF PagesInv, BillCases
  <1>8. screen = "fx" => FxInv'
    BY <1>1, <1>2, <1>3, FxAnswers DEF PagesInv, FxCases
  <1>9. LoadInv' /\ FlashInv' /\ ProfileInv' /\ TransientInv'
    BY <1>2, <1>3 DEF PagesInv, LoadInv, LoadGood, FlashInv, Pending, ProfileInv, ProfileGood, TransientInv, Answered
  <1>10. screen = "legacy" => LegacyInv'
    BY <1>1, <1>2, <1>3, LegacyAnswers DEF PagesInv, LegacyCases
  <1>11. ListInv'
    BY <1>1, <1>2, <1>3, ListAnswers DEF PagesInv
  <1> QED BY <1>2, <1>3, <1>4, <1>5, <1>6, <1>7, <1>8, <1>9, <1>10, <1>11
          DEF PagesInv, TransferInv, FirstInv, BillPayInv, FxInv, LegacyInv

\* A step of the screens keeps the invariant.
LEMMA NextKeeps ==
  ASSUME PagesInv, PagesNext PROVE PagesInv'
  <1>1. /\ Base /\ Timed /\ TransferInv /\ FirstInv /\ BillPayInv /\ FxInv
        /\ LoadInv /\ ListInv /\ FlashInv /\ ProfileInv /\ TransientInv /\ LegacyInv
    BY DEF PagesInv
  <1>2. /\ screen' # "transfer" => TransferInv'
        /\ screen' \notin FirstScreens => FirstInv'
        /\ screen' # "billpay" => BillPayInv'
        /\ screen' # "fx" => FxInv'
        /\ screen' \notin LoadScreens => LoadInv'
        /\ screen' \notin ListScreens => ListInv'
        /\ screen' \notin FlashScreens => FlashInv'
        /\ screen' # "profile" => ProfileInv'
        /\ screen' \notin MovingScreens => TransientInv'
        /\ screen' # "legacy" => LegacyInv'
    BY DEF TransferInv, FirstInv, FirstScreens, BillPayInv, FxInv, LoadInv, LoadGood, LoadScreens, AdminLists,
           ListInv, ListGood, FlashInv, FlashScreens, Chats, ProfileInv, TransientInv, MovingScreens, LegacyInv
  <1>3. CASE TransferNext
    <2>1. Base' /\ Timed' /\ screen' = "transfer" /\ TransferInv'
      BY <1>1, <1>3, TransferOnly, TransferKeeps
    <2> QED BY <1>2, <2>1, Apart DEF PagesInv
  <1>4. CASE FirstTransactionNext
    <2>1. Base' /\ Timed' /\ screen' \in FirstScreens /\ FirstInv'
      BY <1>1, <1>4, FirstOnly, FirstKeeps DEF FirstCases, FirstScreens
    <2>2. screen' \notin {"transfer", "billpay", "fx", "legacy"}
      BY <2>1 DEF FirstScreens
    <2> QED BY <1>2, <2>1, <2>2, Apart DEF PagesInv
  <1>5. CASE BillPayNext
    <2>1. Base' /\ Timed' /\ screen' = "billpay" /\ BillPayInv'
      BY <1>1, <1>5, BillPayOnly, BillPayKeeps DEF BillCases
    <2> QED BY <1>2, <2>1, Apart DEF PagesInv
  <1>6. CASE FxNext
    <2>1. Base' /\ Timed' /\ screen' = "fx" /\ FxInv'
      BY <1>1, <1>6, FxOnly, FxKeeps DEF FxCases
    <2> QED BY <1>2, <2>1, Apart DEF PagesInv
  <1>7. CASE LegacyNext
    <2>1. Base' /\ Timed' /\ screen' = "legacy" /\ LegacyInv'
      BY <1>1, <1>7, LegacyOnly, LegacyKeeps DEF LegacyCases
    <2> QED BY <1>2, <2>1, Apart DEF PagesInv
  <1>8. CASE ListingsNext
    <2>1. Base' /\ Timed' /\ screen' = screen /\ screen' \in ListingScreens /\ LoadInv'
      BY <1>1, <1>8, ListingsOnly, ListingsKeep DEF LoadCases
    <2>2. ListInv'
      BY <1>1, <1>8, <2>1, ListingsShow
    <2> QED BY <1>2, <2>1, <2>2, Apart DEF PagesInv
  <1>9. CASE AdminNext
    <2>1. Base' /\ Timed' /\ screen' \in AdminPages /\ LoadInv' /\ FlashInv'
      BY <1>1, <1>9, AdminOnly, AdminKeeps DEF AdminCases, LoadCases
    <2> QED BY <1>2, <2>1, Apart DEF PagesInv
  <1>10. CASE CustomerNext
    <2>1. Base' /\ Timed' /\ screen' \in CustomerPages /\ LoadInv' /\ FlashInv' /\ ProfileInv'
      BY <1>1, <1>10, CustomerOnly, CustomerKeeps DEF CustomerCases, LoadCases
    <2> QED BY <1>2, <2>1, Apart DEF PagesInv
  <1>11. CASE LiveNext
    <2>1. Base' /\ Timed' /\ screen' \in LivePages /\ FlashInv'
      BY <1>1, <1>11, LiveOnly, LiveKeeps DEF LiveCases
    <2>2. TransientInv'
      BY <1>1, <1>11, TransientKeeps
    <2> QED BY <1>2, <2>1, <2>2, Apart DEF PagesInv
  <1> QED BY <1>3, <1>4, <1>5, <1>6, <1>7, <1>8, <1>9, <1>10, <1>11, AnswersKeep DEF PagesNext

\* A sequence of one call that has been sent, or of none.
LEMMA FirstCalls ==
  ASSUME NEW c, Shape(c), c.live
  PROVE  /\ Shaped(<<c>>) /\ DOMAIN <<c>> = {1} /\ <<c>>[1] = c /\ IsSequence(<<c>>) /\ Len(<<c>>) = 1
         /\ \A job : Alone(<<c>>, job) /\ (Working(<<c>>, job) <=> Job(c) = job)
  <1>1. IsSequence(<<c>>) /\ Len(<<c>>) = 1 /\ DOMAIN <<c>> = {1} /\ <<c>>[1] = c
    BY DEF IsSequence
  <1>2. Shaped(<<c>>)
    BY <1>1, BoundsAssumption DEF Shaped
  <1>3. \A job : Alone(<<c>>, job) /\ (Working(<<c>>, job) <=> Job(c) = job)
    BY <1>1 DEF Alone, Working, Does
  <1> QED BY <1>1, <1>2, <1>3

\* A screen that has been opened with one call under way.
LEMMA OpenedWithCall ==
  ASSUME past = {}, NEW s, NEW rows, NEW h, NEW op, NEW resource,
         Opened(s, rows, h, <<Get(op, resource)>>), s \in Home(op), op # "revoke"
  PROVE  /\ Base /\ Timed /\ screen = s /\ hooks = h /\ server \in rows /\ timers = <<>>
         /\ \A job : Alone(calls, job) /\ (Working(calls, job) <=> op = job)
         /\ \A k \in DOMAIN calls : /\ calls[k].op = op /\ calls[k].resource = resource
                                    /\ calls[k].live /\ calls[k].reply.status = "waiting"
  <1> DEFINE c == Get(op, resource)
  <1>1. /\ Shape(c) /\ c.op = op /\ c.resource = resource /\ c.live /\ c.reply.status = "waiting"
    BY GetShape
  <1>2. server \in rows /\ screen = s /\ hooks = h /\ calls = <<c>> /\ timers = <<>>
    BY DEF Opened
  <1> HIDE DEF c
  <1>3. /\ Shaped(calls) /\ DOMAIN calls = {1} /\ calls[1] = c
        /\ \A job : Alone(calls, job) /\ (Working(calls, job) <=> Job(c) = job)
    BY <1>1, <1>2, FirstCalls
  <1>4. Job(c) = op
    BY <1>1 DEF Job
  <1>5. Base
    BY <1>1, <1>2, <1>3 DEF Base, OwnCalls, AloneAll
  <1>6. Timed
    <2>1. IsSequence(<<>>) /\ Len(<<>>) <= MaxTimers
      BY BoundsAssumption DEF IsSequence
    <2> QED BY <1>2, <2>1 DEF Timed
  <1> QED BY <1>1, <1>2, <1>3, <1>4, <1>5, <1>6

\* A screen that has been opened and asked for nothing.
LEMMA OpenedQuietly ==
  ASSUME past = {}, calls = <<>>, IsSequence(timers), Len(timers) <= MaxTimers
  PROVE  Base /\ Timed /\ \A job : Alone(calls, job) /\ ~Working(calls, job)
  <1>1. IsSequence(calls) /\ Len(calls) = 0 /\ DOMAIN calls = {}
    BY DEF IsSequence
  <1>2. Shaped(calls)
    BY <1>1, BoundsAssumption DEF Shaped
  <1> QED BY <1>1, <1>2 DEF Base, OwnCalls, AloneAll, Alone, Working, Timed

\* The screens begin in the invariant.
LEMMA InitHolds ==
  ASSUME PagesInit PROVE PagesInv
  <1>1. past = {}
    BY DEF PagesInit
  <1>2. ASSUME Base, Timed,
               screen = "transfer" => TransferInv, screen \in FirstScreens => FirstInv,
               screen = "billpay" => BillPayInv, screen = "fx" => FxInv,
               screen \in LoadScreens => LoadInv, screen \in ListScreens => ListInv,
               screen \in FlashScreens => FlashInv,
               screen = "profile" => ProfileInv, screen \in MovingScreens => TransientInv,
               screen = "legacy" => LegacyInv
        PROVE  PagesInv
    BY <1>2, Elsewhere DEF PagesInv
  <1>3. CASE Opened("transfer", BankRows, TransferState, <<Get("transferAccounts", "accounts")>>)
    <2>1. /\ Base /\ Timed /\ screen = "transfer" /\ hooks = TransferState /\ server \in BankRows
          /\ ~Working(calls, "transfer")
          /\ \A k \in DOMAIN calls : /\ calls[k].op = "transferAccounts" /\ calls[k].resource = "accounts"
                                     /\ calls[k].reply.status = "waiting"
      BY <1>1, <1>3, OpenedWithCall, HomeFacts
    <2>2. TransferServer(server)
      <3>1. /\ BankRecord(server) /\ DOMAIN server.accounts \in {{}, Accounts} /\ DOMAIN server.ledger = {}
        BY <2>1 DEF BankRows, BankRecord, IsSequence
      <3> QED BY <3>1 DEF TransferServer
    <2>3. TransferState \in TransferHooks
      BY DEF TransferState, TransferHooks, Offered, Tabs
    <2>4. TransferState.step = "form" /\ ~TransferState.loading /\ ~TransferState.accounts.demo
      BY DEF TransferState, Offered
    <2>5. TransferGood(TransferState, calls, server, past)
      BY <2>1, <2>2, <2>3, <2>4 DEF TransferGood, TransferView, TransferCall
    <2> QED BY <1>2, <2>1, <2>5, Apart DEF TransferInv
  <1>4. CASE Opened("first", {r \in BankRows : ~r.staff}, FirstState, <<Get("firstAccounts", "accounts")>>)
    <2>1. /\ Base /\ Timed /\ screen = "first" /\ hooks = FirstState /\ server \in BankRows
          /\ ~Working(calls, "first") /\ Working(calls, "firstAccounts")
          /\ \A k \in DOMAIN calls : calls[k].op = "firstAccounts"
      BY <1>1, <1>4, OpenedWithCall, HomeFacts
    <2>2. BankRecord(server)
      BY <2>1 DEF BankRows, BankRecord, IsSequence
    <2>3. FirstView(FirstState, calls, server) /\ ~FirstState.showConfetti
      BY <2>1 DEF FirstView, FirstState
    <2>4. FirstGood("first", FirstState, calls, server)
      BY <2>1, <2>2, <2>3 DEF FirstGood, FirstCall
    <2>5. screen \in FirstScreens
      BY <2>1 DEF FirstScreens
    <2> QED BY <1>2, <2>1, <2>3, <2>4, <2>5, Apart DEF FirstInv
  <1>5. CASE Opened("billpay", BillRows, BillPayState, FetchBills)
    <2>1. /\ Base /\ Timed /\ screen = "billpay" /\ hooks = BillPayState /\ server \in BillRows
          /\ Working(calls, "fetchBills")
          /\ \A k \in DOMAIN calls : /\ calls[k].op = "fetchBills" /\ calls[k].resource = "bills"
                                     /\ calls[k].reply.status = "waiting"
      BY <1>1, <1>5, OpenedWithCall, HomeFacts DEF FetchBills
    <2>2. BillServer(server)
      <3>1. PICK b \in {NoBills, [p \in {1} |-> "active"]} : server = [bills |-> b]
        BY <2>1 DEF BillRows
      <3>2. NoBills \in [1 .. 0 -> BillStatuses] /\ [p \in {1} |-> "active"] \in [1 .. 1 -> BillStatuses]
        BY DEF NoBills, BillStatuses
      <3>3. server \in [bills : {b}] /\ server.bills = b
        BY <3>1
      <3>4. 0 \in 0 .. Bills /\ 1 \in 0 .. Bills
        BY BillsAssumption
      <3>5. \E n \in 0 .. Bills : b \in [1 .. n -> BillStatuses]
        BY <3>2, <3>4
      <3> QED BY <3>3, <3>5 DEF BillServer
    <2>3. BillHooks(BillPayState)
      <3>1. IsBillMap(NoBills)
        BY DEF IsBillMap, NoBills
      <3> QED BY <3>1 DEF BillHooks, BillPayState
    <2>4. BillGood(BillPayState, calls, server)
      BY <2>1, <2>2, <2>3 DEF BillGood, BillCall
    <2> QED BY <1>2, <2>1, <2>4, Apart DEF BillPayInv
  <1>6. CASE Opened("fx", FxRows, FxState, <<Get("fxWallet", "wallet")>>)
    <2>1. /\ Base /\ Timed /\ screen = "fx" /\ hooks = FxState /\ ~Working(calls, "convert")
          /\ \A k \in DOMAIN calls : calls[k].op = "fxWallet"
      BY <1>1, <1>6, OpenedWithCall, HomeFacts
    <2>2. FxState \in FxHooks /\ ~FxState.converting /\ FxState.result = NoResult
      BY CurrenciesAssumption DEF FxState, FxHooks
    <2>3. FxGood(FxState, calls, past)
      BY <2>1, <2>2 DEF FxGood, FxCall
    <2> QED BY <1>2, <2>1, <2>3, Apart DEF FxInv
  <1>7. ASSUME NEW s \in LoadScreens, NEW rows, NEW h, NEW resource,
               Opened(s, rows, h, <<Get(Loader(s), resource)>>), "loading" \in DOMAIN h,
               s \in ListScreens =>
                 /\ rows = ListingRows /\ resource = Source(s) /\ h.loading
                 /\ (IF s = "accounts" THEN "accounts" ELSE "transactions") \in DOMAIN h
                 /\ s = "transactions" => PageGood(h)
        PROVE  PagesInv
    <2>1. Base /\ Timed /\ screen = s /\ hooks = h /\ Working(calls, Loader(s))
      BY <1>1, <1>7, OpenedWithCall, LoaderFacts
    <2>2. LoadInv /\ screen \notin FlashScreens
      BY <1>7, <2>1 DEF LoadInv, LoadGood, LoadScreens, FlashScreens, AdminLists, Chats
    <2>3. screen \notin {"transfer", "billpay", "fx", "legacy", "profile"} \union FirstScreens \union MovingScreens
      BY <1>7, <2>1 DEF LoadScreens, AdminLists, FirstScreens, MovingScreens
    <2>4. /\ server \in rows /\ \A job : Alone(calls, job)
          /\ \A k \in DOMAIN calls : /\ calls[k].op = Loader(s) /\ calls[k].resource = resource
                                     /\ calls[k].reply.status = "waiting"
      BY <1>1, <1>7, OpenedWithCall, LoaderFacts
    <2>5. ListInv
      BY <1>7, <2>1, <2>4 DEF ListInv, ListGood, ListCall
    <2> QED BY <1>2, <2>1, <2>2, <2>3, <2>5
  <1>8. CASE \/ Opened("transactions", ListingRows, TransactionsState, <<Get("transactions", "transactions")>>)
             \/ Opened("dashboard", ListingRows, DashboardState, <<Get("dashboard", "transactions")>>)
             \/ Opened("accounts", ListingRows, AccountsState, <<Get("accountList", "list")>>)
             \/ Opened("users", AdminRows, UsersState, <<Get("users", "users")>>)
             \/ \E s \in AdminLists : Opened(s, AdminRows, AdminListState, <<Get(s, "events")>>)
             \/ Opened("notifications", CustomerRows, NoticesState, <<Get("notices", "notices")>>)
    <2>2. /\ TransactionsState.loading /\ DashboardState.loading /\ AccountsState.loading
          /\ PageGood(TransactionsState) /\ "transactions" \in DOMAIN TransactionsState
          /\ "transactions" \in DOMAIN DashboardState /\ "accounts" \in DOMAIN AccountsState
      BY DEF TransactionsState, DashboardState, AccountsState, PageGood, IsSequence
    <2>3. /\ Source("transactions") = "transactions" /\ Source("dashboard") = "transactions"
          /\ Source("accounts") = "list"
          /\ \A s \in {"users", "notifications"} \union AdminLists : s \notin ListScreens
      BY DEF Source, ListScreens, AdminLists
    <2>1. /\ "loading" \in DOMAIN TransactionsState /\ "loading" \in DOMAIN DashboardState
          /\ "loading" \in DOMAIN AccountsState /\ "loading" \in DOMAIN UsersState
          /\ "loading" \in DOMAIN AdminListState /\ "loading" \in DOMAIN NoticesState
      BY DEF TransactionsState, DashboardState, AccountsState, UsersState, AdminListState, NoticesState
    <2> QED BY <1>7, <1>8, <2>1, <2>2, <2>3, LoaderNames
  <1>9. CASE Opened("flags", AdminRows, FlagsState, FetchFlags)
    <2>1. Base /\ Timed /\ screen = "flags"
      BY <1>1, <1>9, OpenedWithCall, HomeFacts DEF FetchFlags
    <2> QED BY <1>2, <2>1 DEF FirstScreens, LoadScreens, ListScreens, FlashScreens, MovingScreens, AdminLists, Chats
  <1>10. CASE Opened("profile", CustomerRows, ProfileState, FetchSessions)
    <2>1. /\ Base /\ Timed /\ screen = "profile" /\ hooks = ProfileState
          /\ Working(calls, "fetchSessions") /\ ~Working(calls, "revokeAll")
      BY <1>1, <1>10, OpenedWithCall, HomeFacts DEF FetchSessions
    <2>2. ProfileInv
      BY <2>1 DEF ProfileInv, ProfileGood, ProfileState
    <2> QED BY <1>2, <2>1, <2>2 DEF FirstScreens, LoadScreens, ListScreens, FlashScreens, MovingScreens, AdminLists, Chats
  <1>11. IsSequence(<<>>) /\ Len(<<>>) = 0
    BY DEF IsSequence
  <1>12. ASSUME NEW s, NEW rows, NEW h, Opened(s, rows, h, <<>>)
         PROVE  /\ Base /\ Timed /\ screen = s /\ hooks = h /\ timers = <<>>
                /\ \A job : Alone(calls, job) /\ ~Working(calls, job)
    <2>1. calls = <<>> /\ timers = <<>> /\ screen = s /\ hooks = h
      BY <1>12 DEF Opened
    <2>2. IsSequence(timers) /\ Len(timers) <= MaxTimers
      BY <1>11, <2>1, BoundsAssumption
    <2> QED BY <1>1, <2>1, <2>2, OpenedQuietly
  <1>13. CASE \/ Opened("markets", ListingRows, MarketsState, <<>>)
              \/ Opened("showcase", AdminRows, ShowcaseState, <<>>)
              \/ Opened("roadmap", AdminRows, RoadmapState, <<>>)
              \/ Opened("goals", CustomerRows, GoalsState, <<>>)
              \/ \E s \in Layouts : Opened(s, LiveRows, ShellState, <<>>)
    <2>1. /\ Base /\ Timed /\ timers = <<>>
          /\ \/ screen \in {"markets", "showcase", "roadmap", "goals"}
             \/ screen \in Layouts /\ hooks = ShellState
      BY <1>12, <1>13
    <2>2. TransientInv
      <3> HIDE DEF ShellState
      <3> QED BY <2>1, TransientOpened DEF TransientInv, Layouts
    <2> QED BY <1>2, <2>1, <2>2 DEF FirstScreens, LoadScreens, ListScreens, FlashScreens, AdminLists, Chats, Layouts
  <1>14. CASE \/ Opened("backups", AdminRows, BackupsState, <<>>)
              \/ Opened("cards", CustomerRows, CardsState, <<>>)
              \/ \E s \in Chats : Opened(s, CustomerRows, ChatState(s), <<>>)
              \/ Opened("contact", LiveRows, ContactState, <<>>)
    <2>1. /\ Base /\ Timed
          /\ \/ screen = "backups" /\ hooks = BackupsState
             \/ screen = "cards" /\ hooks = CardsState
             \/ screen \in Chats /\ hooks = ChatState(screen)
             \/ screen = "contact" /\ hooks = ContactState
      BY <1>12, <1>14
    <2>2. /\ "restoring" \in DOMAIN BackupsState /\ BackupsState.restoring = "none"
          /\ "copied" \in DOMAIN CardsState /\ ~CardsState.copied
          /\ "submitted" \in DOMAIN ContactState /\ ~ContactState.submitted
      BY DEF BackupsState, CardsState, ContactState
    <2>3. "typing" \in DOMAIN ChatState(screen) /\ ~ChatState(screen).typing
      BY DEF ChatState
    <2>4. CASE screen = "backups" /\ hooks = BackupsState
      BY <1>2, <2>1, <2>2, <2>4 DEF FlashInv, FirstScreens, LoadScreens, ListScreens, MovingScreens, AdminLists, Chats
    <2>5. CASE screen = "cards" /\ hooks = CardsState
      BY <1>2, <2>1, <2>2, <2>5 DEF FlashInv, FirstScreens, LoadScreens, ListScreens, MovingScreens, AdminLists, Chats
    <2>6. CASE screen \in Chats /\ hooks = ChatState(screen)
      BY <1>2, <2>1, <2>3, <2>6 DEF FlashInv, FirstScreens, LoadScreens, ListScreens, MovingScreens, AdminLists, Chats
    <2>7. CASE screen = "contact" /\ hooks = ContactState
      BY <1>2, <2>1, <2>2, <2>7 DEF FlashInv, FirstScreens, LoadScreens, ListScreens, MovingScreens, AdminLists, Chats
    <2> QED BY <2>1, <2>4, <2>5, <2>6, <2>7
  <1>15. CASE Opened("legacy", LegacyRows, LegacyState("login", FALSE), <<>>)
    <2>1. /\ Base /\ Timed /\ screen = "legacy" /\ hooks = LegacyState("login", FALSE) /\ timers = <<>>
          /\ Alone(calls, "legacy") /\ ~Working(calls, "legacy")
      BY <1>12, <1>15
    <2>2. LegacyState("login", FALSE) \in LegacyHooks /\ LegacyState("login", FALSE).toasts = 0
      BY DEF LegacyState, LegacyHooks
    <2>3. DOMAIN <<>> = {}
      OBVIOUS
    <2>4. LegacyState("login", FALSE).toasts = Len(<<>>)
      BY <1>11, <2>2
    <2> DEFINE h == LegacyState("login", FALSE)
    <2>5. h \in LegacyHooks /\ h.toasts = Len(<<>>) /\ hooks = h
      BY <2>1, <2>2, <2>4
    <2> HIDE DEF h
    <2>6. LegacyGood(h, calls, <<>>)
      BY <2>1, <2>3, <2>5 DEF LegacyGood
    <2> QED BY <1>2, <2>1, <2>5, <2>6, Apart DEF LegacyInv
  <1>16. CASE /\ server \in LiveRows /\ calls = <<>>
              /\ \/ screen = "globe" /\ hooks = GlobeState /\ timers = GlobeTimers
                 \/ screen = "landing" /\ hooks = LandingState /\ timers = LandingTimers
    <2>4. IsSequence(GlobeTimers) /\ Len(GlobeTimers) <= MaxTimers
      BY LimitsAssumption DEF GlobeTimers, IsSequence
    <2>5. IsSequence(LandingTimers) /\ Len(LandingTimers) <= MaxTimers
      BY LimitsAssumption, BoundsAssumption DEF LandingTimers, IsSequence
    <2>1. IsSequence(timers) /\ Len(timers) <= MaxTimers
      BY <1>16, <2>4, <2>5
    <2>2. Base /\ Timed
      BY <1>1, <1>16, <2>1, OpenedQuietly
    <2>3. FlashInv
      BY <1>16 DEF FlashInv, Chats, LandingState, LandingTimers, Pending
    <2>6. TransientInv
      BY <1>16, TransientOpened DEF TransientInv
    <2> QED BY <1>2, <1>16, <2>2, <2>3, <2>6 DEF FirstScreens, LoadScreens, ListScreens, AdminLists
  <1> QED BY <1>3, <1>4, <1>5, <1>6, <1>8, <1>9, <1>10, <1>13, <1>14, <1>15, <1>16 DEF PagesInit

\* A step that changes nothing keeps it as well.
LEMMA StutterKeeps ==
  ASSUME PagesInv, UNCHANGED vars PROVE PagesInv'
  BY DEF PagesInv, vars, tab, Base, Timed, TransferInv, FirstInv, BillPayInv, FxInv, LoadInv, LoadGood,
         ListInv, FlashInv, ProfileInv, TransientInv, LegacyInv, Pending

\* The inductive invariant holds.
THEOREM PagesInvariant == PagesSpec => []PagesInv
  <1>1. PagesInit => PagesInv
    BY InitHolds
  <1>2. PagesInv /\ [PagesNext]_vars => PagesInv'
    BY NextKeeps, StutterKeeps
  <1> QED BY <1>1, <1>2, PTL DEF PagesSpec

(* Properties *)

\* At most one call does a job that is done alone.
LEMMA AtMostOne ==
  ASSUME NEW S, \A j, k \in S : j = k PROVE Cardinality(S) <= 1
  <1>1. CASE S = {}
    BY <1>1, FS_EmptySet
  <1>2. CASE S # {}
    <2>1. PICK j : j \in S
      BY <1>2
    <2>2. S = {j}
      BY <2>1
    <2> QED BY <2>2, FS_Singleton
  <1> QED BY <1>1, <1>2

\* However the user goes back and forth, one transfer, first transaction, conversion
\* or mass revocation is under way at most: what the disabled buttons of Transfer,
\* FirstTransaction, MultiCurrency and Profile are for.  BillPay disables nothing
\* while it schedules a payment, and nothing is said of it here.
THEOREM OneWriteHolds == PagesSpec => []OneWriteAtATime
  <1>1. PagesInv => OneWriteAtATime
    <2> SUFFICES ASSUME PagesInv PROVE OneWriteAtATime
      OBVIOUS
    <2>1. \A job \in {"transfer", "first", "convert", "revokeAll"} : Alone(calls, job)
      BY DEF PagesInv, Base, AloneAll, Writes
    <2>2. ASSUME NEW op \in {"transfer", "first", "convert"} PROVE Cardinality(InFlight(op)) <= 1
      <3>1. \A j, k \in InFlight(op) : j = k
        BY <2>1 DEF InFlight, Alone, Does, Job
      <3> QED BY <3>1, AtMostOne
    <2>3. Cardinality(RevokesAll) <= 1
      <3>1. \A j, k \in RevokesAll : j = k
        BY <2>1 DEF RevokesOne, RevokesAll, InFlight, Alone, Does, Job
      <3> QED BY <3>1, AtMostOne
    <2> QED BY <2>2, <2>3 DEF OneWriteAtATime
  <1> QED BY <1>1, PagesInvariant, PTL

\* A job that is under way has a call in flight.
LEMMA WorkingInFlight ==
  ASSUME NEW op, op # "revoke", op # "revokeAll", Working(calls, op) PROVE InFlight(op) # {}
  BY DEF Working, Does, Job, InFlight

\* No screen waits for nothing: what it shows as loading, sending, revoking,
\* restoring, typing or celebrating is ended by a call or a timeout that is
\* pending, in whatever order the calls of the screen come back or fail.
THEOREM BusyHasCauseHolds == PagesSpec => []BusyHasCause
  <1>1. PagesInv => BusyHasCause
    <2> SUFFICES ASSUME PagesInv PROVE BusyHasCause
      OBVIOUS
    <2>1. screen = "transfer" => (hooks.loading => InFlight("transfer") # {})
      BY WorkingInFlight DEF PagesInv, TransferInv, TransferGood
    <2>2. screen = "first" => /\ hooks.loading => InFlight("first") # {}
                              /\ hooks.loadingAccounts => InFlight("firstAccounts") # {}
                              /\ hooks.showConfetti => Pending("confetti")
      BY WorkingInFlight DEF PagesInv, FirstInv, FirstScreens, FirstGood, FirstView
    <2>3. screen = "lifecycle" => (hooks.loading => InFlight("lifecycle") # {})
      BY WorkingInFlight DEF PagesInv, FirstInv, FirstScreens, FirstGood, LifecycleFields
    <2>4. screen = "billpay" => (hooks.loading => InFlight("fetchBills") # {})
      BY WorkingInFlight DEF PagesInv, BillPayInv, BillGood
    <2>5. screen = "fx" => (hooks.converting => InFlight("convert") # {})
      BY WorkingInFlight DEF PagesInv, FxInv, FxGood
    <2>6. \A s \in LoadScreens : screen = s => (hooks.loading => InFlight(Loader(s)) # {})
      <3> SUFFICES ASSUME NEW s \in LoadScreens, screen = s, hooks.loading PROVE InFlight(Loader(s)) # {}
        OBVIOUS
      <3>1. Working(calls, Loader(s))
        BY DEF PagesInv, LoadInv, LoadGood
      <3>2. Loader(s) # "revoke" /\ Loader(s) # "revokeAll"
        BY LoaderFacts DEF Writes
      <3> QED BY <3>1, <3>2, WorkingInFlight
    <2>7. FlashInv
      BY DEF PagesInv
    <2>8. screen = "profile" =>
             /\ hooks.sessionsLoading => InFlight("fetchSessions") # {}
             /\ hooks.revokingId # "none" => RevokesOne # {}
             /\ hooks.revokingAll => RevokesAll # {}
      <3> SUFFICES ASSUME screen = "profile"
                   PROVE  /\ hooks.sessionsLoading => InFlight("fetchSessions") # {}
                          /\ hooks.revokingId # "none" => RevokesOne # {}
                          /\ hooks.revokingAll => RevokesAll # {}
        OBVIOUS
      <3>1. ProfileGood(hooks, calls)
        BY DEF PagesInv, ProfileInv
      <3>2. Working(calls, "revoke") => RevokesOne # {}
        BY DEF Working, Does, Job, InFlight, RevokesOne, RevokesAll
      <3>3. Working(calls, "revokeAll") => RevokesAll # {}
        <4>1. ASSUME NEW k \in DOMAIN calls PROVE calls[k].op # "revokeAll"
          BY DEF PagesInv, Base, OwnCalls, Home, FlagWrites, AdminLists
        <4> QED BY <4>1 DEF Working, Does, Job, InFlight, RevokesOne, RevokesAll
      <3> QED BY <3>1, <3>2, <3>3, WorkingInFlight DEF ProfileGood
    <2>9. screen = "legacy" => hooks.toasts = Count("legacyToast")
      <3> SUFFICES ASSUME screen = "legacy" PROVE hooks.toasts = Count("legacyToast")
        OBVIOUS
      <3>1. hooks.toasts = Len(timers) /\ \A k \in DOMAIN timers : timers[k] = "legacyToast"
        BY DEF PagesInv, LegacyInv, LegacyGood
      <3>2. DOMAIN timers = 1 .. Len(timers) /\ Len(timers) \in Nat
        BY SequenceFacts DEF PagesInv, Timed, IsSequence
      <3>3. {k \in DOMAIN timers : timers[k] = "legacyToast"} = 1 .. Len(timers)
        BY <3>1, <3>2
      <3>4. Cardinality(1 .. Len(timers)) = Len(timers)
        <4> DEFINE n == Len(timers)
        <4>1. n \in Nat
          BY <3>2
        <4> HIDE DEF n
        <4>2. Cardinality(1 .. n) = n
          BY <4>1, FS_Interval
        <4> QED BY <4>2 DEF n
      <3> QED BY <3>1, <3>3, <3>4 DEF Count
    <2>10. /\ screen = "transactions" => (hooks.loading => InFlight("transactions") # {})
           /\ screen = "dashboard" => (hooks.loading => InFlight("dashboard") # {})
           /\ screen = "accounts" => (hooks.loading => InFlight("accountList") # {})
           /\ screen = "users" => (hooks.loading => InFlight("users") # {})
           /\ screen = "notifications" => (hooks.loading => InFlight("notices") # {})
           /\ screen \in AdminLists => (hooks.loading => InFlight(screen) # {})
      BY <2>6, LoaderNames, Zenon
    <2>11. /\ screen = "backups" => (hooks.restoring # "none" => Pending("restored"))
           /\ screen = "cards" => (hooks.copied => Pending("copied"))
           /\ screen \in Chats => (hooks.typing => Pending("reply"))
           /\ screen = "contact" => (hooks.submitted => Pending("submitted"))
           /\ screen = "landing" => (hooks.count < CountEnd => Pending("count"))
      BY <2>7 DEF FlashInv
    <2> QED BY <2>1, <2>2, <2>3, <2>4, <2>5, <2>8, <2>9, <2>10, <2>11
            DEF BusyHasCause
  <1> QED BY <1>1, PagesInvariant, PTL

\* Calls and timeouts keep within their bounds and the hooks keep their types.
THEOREM PagesTypeHolds == PagesSpec => []PagesTypeOK
  <1>1. PagesInv => PagesTypeOK
    <2> SUFFICES ASSUME PagesInv PROVE PagesTypeOK
      OBVIOUS
    <2>1. Base /\ Timed
      BY DEF PagesInv
    <2>2. screen = "billpay" => hooks \in BillPayHooks
      BY BillHooksTyped DEF PagesInv, BillPayInv, BillGood
    <2>3. \A i \in DOMAIN calls : calls[i].reply.status \in {"waiting", "ok", "failed"}
      BY <2>1 DEF Base, Shaped, Shape
    <2>4. Len(calls) <= MaxCalls /\ Len(timers) <= MaxTimers
          /\ past \subseteq {"failed", "overtaken", "outlived", "edited", "overlapped"}
      BY <2>1 DEF Base, Shaped, Timed, Pasts
    <2>5. /\ screen = "transfer" => hooks \in TransferHooks
          /\ screen = "fx" => hooks \in FxHooks
          /\ screen = "legacy" => hooks \in LegacyHooks
      BY DEF PagesInv, TransferInv, TransferGood, TransferView, FxInv, FxGood, LegacyInv, LegacyGood
    <2> QED BY <2>2, <2>3, <2>4, <2>5 DEF PagesTypeOK
  <1> QED BY <1>1, PagesInvariant, PTL

\* What a screen reports as done is what was posted: the success view of Transfer
\* and the receipt of FirstTransaction name a transaction of the ledger, the
\* result of a conversion belongs to the inputs beside it, and a demo account is
\* not posted to unless the list of accounts could not be fetched.
THEOREM ReceiptHolds == PagesSpec => []ReceiptShowsWhatWasPosted
  <1>1. PagesInv => ReceiptShowsWhatWasPosted
    <2> SUFFICES ASSUME PagesInv PROVE ReceiptShowsWhatWasPosted
      OBVIOUS
    <2>1. screen = "transfer" => TransferView(hooks, server, past)
      BY DEF PagesInv, TransferInv, TransferGood
    <2>2. screen = "first" => (hooks.receipt # NoReceipt => Receipted(hooks.receipt, server))
      BY DEF PagesInv, FirstInv, FirstScreens, FirstGood, FirstView
    <2>3. screen = "fx" => (hooks.result # NoResult /\ "edited" \notin past => hooks.result = Inputs(hooks))
      BY DEF PagesInv, FxInv, FxGood
    <2> QED BY <2>1, <2>2, <2>3 DEF ReceiptShowsWhatWasPosted, TransferView, InLedger, Receipted, ReceiptView
  <1> QED BY <1>1, PagesInvariant, PTL

\* A list of transactions that is not empty has a row on the page that is shown,
\* whatever was filtered, searched and turned before and when the rows come in:
\* what setPage(1) beside each setFilter and setSearch of Transactions is for.
THEOREM PageHasRowsHolds == PagesSpec => []PageHasRows
  <1>1. PagesInv => PageHasRows
    <2> SUFFICES ASSUME PagesInv, screen = "transactions", Filtered(hooks) # {} PROVE Paginated(hooks) # {}
      BY DEF PageHasRows
    <2>1. PageGood(hooks)
      BY DEF PagesInv, ListInv, ListGood, ListScreens
    <2> QED BY <2>1, PageGoodHasRows
  <1> QED BY <1>1, PagesInvariant, PTL

\* The smaller of two numbers, and the newest payments read the other way round.
LEMMA LeastIsMin ==
  ASSUME NEW m \in Int, NEW n \in Int PROVE Min({m, n}) = Least(m, n)
  <1>1. Least(m, n) \in {m, n} /\ \A x \in {m, n} : Least(m, n) <= x
    BY DEF Least
  <1>2. \A y \in {m, n} : (\A x \in {m, n} : y <= x) => y = Least(m, n)
    BY DEF Least
  <1> HIDE DEF Least
  <1> QED BY <1>1, <1>2 DEF Min

\* The newest, from the last to the first.
LEMMA NewestReversed ==
  ASSUME NEW t \in Int, NEW n \in Nat PROVE Reverse(Newest(t, n)) = Latest(t, n)
  <1> DEFINE s == Newest(t, n)
  <1>1. Len(s) = n /\ \A k \in 1 .. n : s[k] = t - n + k
    BY NewestFacts
  <1> HIDE DEF s
  <1>2. Reverse(s) = [k \in 1 .. n |-> s[(n - k) + 1]]
    BY <1>1 DEF Reverse
  <1>3. \A k \in 1 .. n : s[(n - k) + 1] = t - k + 1
    <2> TAKE k \in 1 .. n
    <2>1. (n - k) + 1 \in 1 .. n /\ t - n + ((n - k) + 1) = t - k + 1
      OBVIOUS
    <2> QED BY <1>1, <2>1
  <1> QED BY <1>2, <1>3 DEF Latest, s

\* What goes away by itself matches the timeouts that take it away, however long
\* the globe has turned and however fast the messages came: no arc stays whose
\* timeout has fired, no toast is left without one, and no second frame is asked for.
THEOREM TransientsHold == PagesSpec => []TransientsMatchTimers
  <1>1. PagesInv => TransientsMatchTimers
    <2> SUFFICES ASSUME PagesInv PROVE TransientsMatchTimers
      OBVIOUS
    <2>1. Timed /\ TransientInv
      BY DEF PagesInv
    <2>2. ASSUME screen = "globe"
          PROVE  LET Fresh(n) == [k \in 1..n |-> hooks.totalTx - n + k] IN
                 /\ hooks.livePayments = Fresh(Min({Cardinality(ArcTimers), ArcLimit + 1}))
                 /\ hooks.txFeed = Reverse(Fresh(Min({hooks.totalTx, FeedLimit})))
                 /\ hooks.autoRotate <=> Pending("frame")
      <3> DEFINE t == hooks.totalTx
                 a == Times(timers, "arc")
      <3>1. GlobeGood(hooks, timers)
        BY <2>1, <2>2 DEF TransientInv
      <3>2. /\ t \in Nat /\ hooks.livePayments = Newest(t, Least(a, ArcLimit + 1))
            /\ hooks.txFeed = Latest(t, Least(t, FeedLimit))
            /\ hooks.autoRotate \in BOOLEAN /\ Times(timers, "frame") = (IF hooks.autoRotate THEN 1 ELSE 0)
        BY <3>1 DEF GlobeGood
      <3>3. a \in Nat /\ (Pending("frame") <=> Times(timers, "frame") # 0) /\ Cardinality(ArcTimers) = a
        BY <2>1, PendingTimes DEF ArcTimers, Times, Places
      <3> HIDE DEF t, a
      <3>4. ArcLimit + 1 \in Int /\ FeedLimit \in Nat /\ Least(t, FeedLimit) \in Nat
        BY <3>2, LimitsAssumption DEF Least
      <3>5. Min({a, ArcLimit + 1}) = Least(a, ArcLimit + 1)
        BY <3>3, <3>4, LeastIsMin
      <3>6. Min({t, FeedLimit}) = Least(t, FeedLimit)
        BY <3>2, <3>4, LeastIsMin
      <3>7. Reverse(Newest(t, Least(t, FeedLimit))) = Latest(t, Least(t, FeedLimit))
        BY <3>2, <3>4, NewestReversed
      <3>8. hooks.autoRotate <=> Pending("frame")
        BY <3>2, <3>3
      <3>9. \A n : Newest(t, n) = [k \in 1 .. n |-> t - n + k]
        BY DEF Newest
      <3> QED BY <3>2, <3>3, <3>5, <3>6, <3>7, <3>8, <3>9 DEF t
    <2>3. ASSUME screen = "customerLayout"
          PROVE  /\ Len(hooks.wsNotifs) <= Count("toast")
                 /\ hooks.wsNotifs # <<>> => Last(hooks.wsNotifs) = hooks.received
      <3> DEFINE s == hooks.wsNotifs
      <3>1. ToastsGood(hooks, timers)
        BY <2>1, <2>3 DEF TransientInv
      <3>2. Count("toast") = Times(timers, "toast")
        BY DEF Count, Times, Places
      <3>3. /\ IsSequence(s) /\ Len(s) <= Times(timers, "toast")
            /\ (Len(s) # 0 => s[Len(s)] = hooks.received)
        BY <3>1 DEF ToastsGood
      <3> HIDE DEF s
      <3>4. Len(s) = 0 => s = <<>>
        BY <3>3 DEF IsSequence
      <3> QED BY <3>2, <3>3, <3>4 DEF Last, s
    <2> QED BY <2>2, <2>3 DEF TransientsMatchTimers
  <1> QED BY <1>1, PagesInvariant, PTL

(* What a screen shows once nothing is under way *)

\* Nothing went wrong on this screen; "edited" tells of a form only.
Clean(p) == p \subseteq {"edited"}

\* The calls for a callback that someone waits for.
Awaited(cs, op) == {k \in DOMAIN cs : cs[k].live /\ cs[k].op = op}

\* Screens that fetch what they show more than once, or show what never changes.
OrderScreens == {"first", "lifecycle", "billpay", "flags"} \union AdminLists

\* The call that fetches, and the resource that it reads.
Fetcher(s) ==
  CASE s = "first" -> "firstAccounts"
    [] s = "billpay" -> "fetchBills"
    [] OTHER -> s

Fetched(s) ==
  CASE s = "first" -> "accounts"
    [] s = "billpay" -> "bills"
    [] s = "flags" -> "flags"
    [] OTHER -> "events"

\* The screen shows what the back end has.
Shown(s, h, rows) ==
  CASE s = "first" -> h.accounts = rows.accounts
    [] s = "lifecycle" -> ~h.loading /\ (h.error \/ h.data = h.tx)
    [] s = "billpay" -> h.payments = ShownBills(Ok(rows.bills))
    [] s = "flags" -> h.flags = rows.flags
    [] OTHER -> h.events = rows.events

\* What this call brings is what the back end has.
Due(s, c, h, rows) ==
  IF s = "lifecycle"
    THEN /\ c.resource = "none" /\ c.arg = h.tx
         /\ c.reply.status = "ok" => c.reply.value = h.tx
    ELSE /\ c.resource = Fetched(s)
         /\ c.reply.status = "ok" => c.reply.value = rows[Fetched(s)]

\* Where nothing is awaited the screen is right, and else the fetch that was sent
\* last will make it so, unless an earlier one comes back after it.
InOrder(s, cs, h, rows) ==
  /\ Awaited(cs, Fetcher(s)) = {} => Shown(s, h, rows)
  /\ \A k \in Awaited(cs, Fetcher(s)) :
       (\A j \in Awaited(cs, Fetcher(s)) : j <= k) /\ ~cs[k].overtaken => Due(s, cs[k], h, rows)

\* A change is under way after which the screen fetches again.
Excused(s, cs, h) ==
  \/ s = "first" /\ (h.receipt # NoReceipt \/ Working(cs, "first"))
  \/ s = "billpay" /\ (Working(cs, "schedule") \/ Working(cs, "action"))
  \/ s = "flags" /\ \E op \in FlagWrites : Working(cs, op)

\* What these screens know.
OrderGood(s, cs, h, rows, p) == Clean(p) /\ ~Excused(s, cs, h) => InOrder(s, cs, h, rows)

OrderInv == screen \in OrderScreens => OrderGood(screen, calls, hooks, server, past)

\* The names of the fetches.
LEMMA FetcherNames ==
  /\ Fetcher("first") = "firstAccounts" /\ Fetcher("lifecycle") = "lifecycle"
  /\ Fetcher("billpay") = "fetchBills" /\ Fetcher("flags") = "flags"
  /\ \A s \in AdminLists : Fetcher(s) = s
  /\ Fetched("first") = "accounts" /\ Fetched("billpay") = "bills" /\ Fetched("flags") = "flags"
  /\ \A s \in AdminLists : Fetched(s) = "events"
  BY DEF Fetcher, Fetched, AdminLists

\* A fetch is no change.
LEMMA FetcherFacts ==
  ASSUME NEW s \in OrderScreens
  PROVE  /\ Fetcher(s) \notin {"first", "schedule", "action", "revoke", "revokeAll"} \union FlagWrites \union Writes
         /\ s \in Home(Fetcher(s))
  BY DEF OrderScreens, Fetcher, FlagWrites, AdminLists, Writes, Home

\* A call that is like one that is due is due.
LEMMA DueAlike ==
  ASSUME NEW s, NEW c, NEW d, Alike(d, c), NEW h, NEW rows, Due(s, c, h, rows)
  PROVE  Due(s, d, h, rows)
  BY DEF Due, Alike

\* A call has come back.  If it was a fetch that was sent last, the screen is right.
LEMMA OrderEnds ==
  ASSUME NEW s, NEW new, NEW old, NEW i \in DOMAIN old, TakenOut(new, old, i),
         NEW h, NEW g, NEW rows, InOrder(s, old, h, rows),
         \A c : Due(s, c, h, rows) => Due(s, c, g, rows),
         i \in Awaited(old, Fetcher(s)) =>
           ~old[i].overtaken /\ (Due(s, old[i], h, rows) => Shown(s, g, rows)),
         i \notin Awaited(old, Fetcher(s)) => (Shown(s, h, rows) => Shown(s, g, rows))
  PROVE  InOrder(s, new, g, rows)
  <1> DEFINE A == Awaited(old, Fetcher(s))
             B == Awaited(new, Fetcher(s))
  <1>1. \A k \in B : Slot(k, i) \in A \ {i}
    BY DEF Awaited, TakenOut, Alike
  <1>2. \A j \in A \ {i} : \E k \in B : Slot(k, i) = j
    BY DEF Awaited, TakenOut, Alike
  <1>3. A \subseteq Nat /\ B \subseteq Nat /\ i \in Nat
    BY DEF Awaited, TakenOut
  <1>4. ASSUME B = {} PROVE Shown(s, g, rows)
    <2>1. A \subseteq {i}
      BY <1>2, <1>4
    <2>2. CASE i \in A
      <3>1. \A j \in A : j <= i
        BY <1>3, <2>1
      <3> QED BY <2>2, <3>1 DEF InOrder
    <2>3. CASE i \notin A
      BY <2>1, <2>3 DEF InOrder
    <2> QED BY <2>2, <2>3
  <1>5. ASSUME NEW k \in B, \A j \in B : j <= k, ~new[k].overtaken PROVE Due(s, new[k], g, rows)
    <2> DEFINE m == Slot(k, i)
    <2>1. /\ m \in A \ {i} /\ Alike(new[k], old[m])
          /\ ~old[m].overtaken /\ ~(m < i /\ old[m].op = old[i].op)
      BY <1>1, <1>5 DEF Awaited, TakenOut
    <2>2. \A j \in A \ {i} : j <= m
      <3> TAKE j \in A \ {i}
      <3>1. PICK n \in B : Slot(n, i) = j
        BY <1>2
      <3>2. n <= k
        BY <1>5
      <3> QED BY <1>3, <3>1, <3>2 DEF Slot
    <2>3. i \in A => i <= m
      BY <1>3, <2>1 DEF Awaited
    <2>4. \A j \in A : j <= m
      BY <2>2, <2>3
    <2>5. Due(s, old[m], h, rows)
      BY <2>1, <2>4 DEF InOrder
    <2> HIDE DEF m
    <2> QED BY <2>1, <2>5, DueAlike
  <1> QED BY <1>4, <1>5 DEF InOrder

\* A fetch is sent: it is the last one.
LEMMA OrderFetches ==
  ASSUME NEW s, NEW new, NEW old, NEW c, Extended(new, old, c), c.live, c.op = Fetcher(s),
         NEW h, NEW rows, Due(s, c, h, rows)
  PROVE  InOrder(s, new, h, rows)
  <1>1. PICK n \in Nat \ DOMAIN old :
          /\ DOMAIN old \subseteq Nat /\ DOMAIN new = DOMAIN old \union {n}
          /\ new[n] = c /\ \A k \in DOMAIN old : k < n /\ new[k] = old[k]
    BY DEF Extended
  <1>2. n \in Awaited(new, Fetcher(s))
    BY <1>1 DEF Awaited
  <1>3. ASSUME NEW k \in Awaited(new, Fetcher(s)), \A j \in Awaited(new, Fetcher(s)) : j <= k
        PROVE  k = n
    <2>1. n <= k /\ k \in DOMAIN new
      BY <1>2, <1>3 DEF Awaited
    <2> QED BY <1>1, <2>1
  <1> QED BY <1>1, <1>2, <1>3 DEF InOrder

\* Another call is sent, or one that nobody waits for.
LEMMA OrderSends ==
  ASSUME NEW s, NEW new, NEW old, NEW c, Extended(new, old, c), ~(c.live /\ c.op = Fetcher(s)),
         NEW h, NEW rows, InOrder(s, old, h, rows)
  PROVE  InOrder(s, new, h, rows)
  <1>1. PICK n \in Nat \ DOMAIN old :
          /\ DOMAIN old \subseteq Nat /\ DOMAIN new = DOMAIN old \union {n}
          /\ new[n] = c /\ \A k \in DOMAIN old : k < n /\ new[k] = old[k]
    BY DEF Extended
  <1>2. Awaited(new, Fetcher(s)) = Awaited(old, Fetcher(s))
    BY <1>1 DEF Awaited
  <1>3. \A k \in Awaited(old, Fetcher(s)) : new[k] = old[k]
    BY <1>1 DEF Awaited
  <1> QED BY <1>2, <1>3 DEF InOrder

\* The server answers.
LEMMA OrderAnswers ==
  ASSUME NEW s, NEW new, NEW old, NEW i \in DOMAIN old, NEW r, Answered(new, old, i, r),
         NEW h, NEW rows, InOrder(s, old, h, rows),
         i \in Awaited(old, Fetcher(s)) /\ Due(s, old[i], h, rows) => Due(s, new[i], h, rows)
  PROVE  InOrder(s, new, h, rows)
  <1>1. Awaited(new, Fetcher(s)) = Awaited(old, Fetcher(s))
    BY DEF Awaited, Answered
  <1>2. \A k \in DOMAIN old : new[k].overtaken = old[k].overtaken /\ (k # i => new[k] = old[k])
    BY DEF Answered
  <1>3. ASSUME NEW k \in Awaited(old, Fetcher(s)), \A j \in Awaited(old, Fetcher(s)) : j <= k, ~new[k].overtaken
        PROVE  Due(s, new[k], h, rows)
    <2>1. k \in DOMAIN old
      BY DEF Awaited
    <2>2. Due(s, old[k], h, rows)
      BY <1>2, <1>3, <2>1 DEF InOrder
    <2> QED BY <1>2, <1>3, <2>1, <2>2
  <1> QED BY <1>1, <1>3 DEF InOrder

\* Nobody waits, and the screen is right.
LEMMA OrderRests ==
  ASSUME NEW s, NEW cs, \A k \in DOMAIN cs : ~cs[k].live, NEW h, NEW rows, Shown(s, h, rows)
  PROVE  InOrder(s, cs, h, rows)
  BY DEF InOrder, Awaited

\* One of these screens is opened and fetches.
LEMMA OrderOpens ==
  ASSUME Base, NEW s \in OrderScreens, SameFamily(screen, s), NEW h, NEW c, NEW ts,
         MountWith(s, h, <<c>>, ts), Shape(c), c.op = Fetcher(s), c.live, Due(s, c, h, server)
  PROVE  OrderInv'
  <1>1. s \in Home(c.op) /\ Job(c) \notin Writes
    BY FetcherFacts DEF Job
  <1>2. PICK mid : Dropped(mid, calls) /\ Made(calls', mid, c)
    BY <1>1, OpenSends
  <1>3. screen' = s /\ hooks' = h /\ server' = server
    BY <1>1, OpenSends
  <1>4. InOrder(s, calls', h, server)
    BY <1>2, OrderFetches DEF Made
  <1> QED BY <1>3, <1>4 DEF OrderInv, OrderGood

\* One is opened and need not fetch.
LEMMA OrderOpensQuietly ==
  ASSUME Base, NEW s \in OrderScreens, SameFamily(screen, s), NEW h, NEW ts,
         MountWith(s, h, <<>>, ts), Shown(s, h, server)
  PROVE  OrderInv'
  <1>1. Dropped(calls', calls) /\ screen' = s /\ hooks' = h /\ server' = server
    BY OpenQuiet
  <1>2. InOrder(s, calls', h, server)
    BY <1>1, OrderRests DEF Dropped
  <1> QED BY <1>1, <1>2 DEF OrderInv, OrderGood

\* What is shown is the same, and what it is asked for.
Steady(s, h, g) ==
  CASE s = "first" -> g.accounts = h.accounts /\ g.receipt = h.receipt
    [] s = "lifecycle" -> g.tx = h.tx /\ g.data = h.data /\ g.loading = h.loading /\ g.error = h.error
    [] s = "billpay" -> g.payments = h.payments
    [] s = "flags" -> g.flags = h.flags
    [] OTHER -> g.events = h.events

\* It is the same for whoever looks.
LEMMA SteadyFacts ==
  ASSUME NEW s \in OrderScreens, NEW h, NEW g, Steady(s, h, g)
  PROVE  /\ \A rows : Shown(s, h, rows) => Shown(s, g, rows)
         /\ \A rows, c : Due(s, c, h, rows) => Due(s, c, g, rows)
         /\ \A cs : Excused(s, cs, h) <=> Excused(s, cs, g)
  BY DEF OrderScreens, AdminLists, Steady, Shown, Due, Excused

\* A handler that sends nothing.
LEMMA OrderSets ==
  ASSUME OrderInv, screen \in OrderScreens, Steady(screen, hooks, hooks'),
         UNCHANGED <<screen, calls, server, past>>
  PROVE  OrderInv'
  <1>1. InOrder(screen, calls, hooks, server) => InOrder(screen, calls, hooks', server)
    BY SteadyFacts DEF InOrder
  <1>2. Excused(screen, calls, hooks) <=> Excused(screen, calls, hooks')
    BY SteadyFacts
  <1> QED BY <1>1, <1>2 DEF OrderInv, OrderGood

\* A handler that fetches, or a callback that does.
LEMMA OrderAsks ==
  ASSUME NEW mid, NEW c, Made(calls', mid, c), screen' = screen, server' = server,
         c.live, c.op = Fetcher(screen), Due(screen, c, hooks', server)
  PROVE  OrderInv'
  <1>1. InOrder(screen, calls', hooks', server)
    BY OrderFetches DEF Made
  <1> QED BY <1>1 DEF OrderInv, OrderGood

\* A change is under way.
LEMMA OrderExcused ==
  ASSUME \/ Excused(screen', calls', hooks')
         \/ "failed" \in past' \/ "overtaken" \in past' \/ "outlived" \in past'
  PROVE  OrderInv'
  <1>1. Excused(screen', calls', hooks') \/ ~Clean(past')
    BY DEF Clean
  <1> QED BY <1>1 DEF OrderInv, OrderGood

\* A call comes back that is not the change that was under way.
LEMMA StillExcused ==
  ASSUME NEW s \in OrderScreens, NEW new, NEW old, NEW i \in DOMAIN old, Ended(new, old, i),
         ~old[i].live \/ old[i].op = Fetcher(s), Shape(old[i]),
         NEW h, Excused(s, old, h)
  PROVE  Excused(s, new, h)
  <1>1. \A job \in {"first", "schedule", "action"} \union FlagWrites : ~Does(old[i], job)
    BY FetcherFacts DEF Does, Job
  <1>2. \A job \in {"first", "schedule", "action"} \union FlagWrites : Working(old, job) => Working(new, job)
    BY <1>1 DEF Ended
  <1> QED BY <1>2 DEF Excused

\* The fetch comes back.
LEMMA OrderReturns ==
  ASSUME Base, OrderInv, screen \in OrderScreens, NEW i \in DOMAIN calls, calls[i].op = Fetcher(screen),
         ~Unanswered(i), NEW h, Resolve(i, h, <<>>),
         calls[i].live /\ calls[i].reply.status = "ok" =>
           /\ Due(screen, calls[i], hooks, server) => Shown(screen, h, server)
           /\ \A c : Due(screen, c, hooks, server) => Due(screen, c, h, server)
           /\ \A cs : Excused(screen, cs, hooks) => Excused(screen, cs, h)
  PROVE  OrderInv'
  <1>1. Ended(calls', calls, i) /\ Settled(i, h)
    BY ResolveEnds
  <1>2. screen' = screen /\ server' = server /\ past \subseteq past' /\ hooks' = IF calls[i].live THEN h ELSE hooks
    BY <1>1 DEF Settled
  <1>3. Shape(calls[i])
    BY DEF Base, Shaped
  <1>4. CASE ~calls[i].live
    <2>1. i \notin Awaited(calls, Fetcher(screen))
      BY <1>4 DEF Awaited
    <2>2. InOrder(screen, calls, hooks, server) => InOrder(screen, calls', hooks, server)
      BY <1>1, <2>1, OrderEnds DEF Ended
    <2>3. Excused(screen, calls, hooks) => Excused(screen, calls', hooks)
      BY <1>1, <1>3, <1>4, StillExcused
    <2> QED BY <1>2, <1>4, <2>2, <2>3 DEF OrderInv, OrderGood, Clean
  <1>5. CASE calls[i].live /\ (calls[i].reply.status = "failed" \/ calls[i].overtaken)
    BY <1>1, <1>5, OrderExcused DEF Settled
  <1>6. CASE calls[i].live /\ calls[i].reply.status = "ok" /\ ~calls[i].overtaken
    <2>1. i \in Awaited(calls, Fetcher(screen))
      BY <1>6 DEF Awaited
    <2>2. InOrder(screen, calls, hooks, server) => InOrder(screen, calls', h, server)
      BY <1>1, <1>6, <2>1, OrderEnds DEF Ended
    <2>3. Excused(screen, calls, hooks) => Excused(screen, calls', h)
      BY <1>1, <1>3, <1>6, StillExcused
    <2> QED BY <1>2, <1>6, <2>2, <2>3 DEF OrderInv, OrderGood, Clean
  <1>7. calls[i].reply.status \in {"ok", "failed"}
    BY <1>3 DEF Shape, Unanswered
  <1> QED BY <1>4, <1>5, <1>6, <1>7

\* A call comes back for which nobody waits; what is sent then is not waited for either.
LEMMA OrderAway ==
  ASSUME Base, OrderInv, screen \in OrderScreens, NEW i \in DOMAIN calls, ~calls[i].live,
         NEW mid, Ended(mid, calls, i),
         calls' = mid \/ \E d : ~d.live /\ Made(calls', mid, d),
         hooks' = hooks, screen' = screen, server' = server, past \subseteq past'
  PROVE  OrderInv'
  <1>1. Shape(calls[i])
    BY DEF Base, Shaped
  <1>2. i \notin Awaited(calls, Fetcher(screen))
    BY DEF Awaited
  <1>3. InOrder(screen, calls, hooks, server) => InOrder(screen, mid, hooks, server)
    BY <1>2, OrderEnds DEF Ended
  <1>4. InOrder(screen, mid, hooks, server) => InOrder(screen, calls', hooks, server)
    BY OrderSends DEF Made
  <1>5. Excused(screen, calls, hooks) => Excused(screen, mid, hooks)
    BY <1>1, StillExcused
  <1>6. Excused(screen, mid, hooks) => Excused(screen, calls', hooks)
    BY DEF Excused, Made
  <1> QED BY <1>3, <1>4, <1>5, <1>6 DEF OrderInv, OrderGood, Clean

\* The server answers, and what it answers to a fetch is what it has.
LEMMA OrderServed ==
  ASSUME OrderInv, screen \in OrderScreens, NEW i \in DOMAIN calls, NEW r, Answered(calls', calls, i, r),
         UNCHANGED <<screen, hooks, server>>, past \subseteq past',
         i \in Awaited(calls, Fetcher(screen)) /\ Due(screen, calls[i], hooks, server)
           => Due(screen, calls'[i], hooks, server)
  PROVE  OrderInv'
  <1>1. InOrder(screen, calls, hooks, server) => InOrder(screen, calls', hooks, server)
    BY OrderAnswers
  <1>2. Excused(screen, calls, hooks) => Excused(screen, calls', hooks)
    BY DEF Excused, Answered
  <1> QED BY <1>1, <1>2 DEF OrderInv, OrderGood, Clean

\* A GET is answered, or a call is refused or lost.
LEMMA OrderServerAnswers ==
  ASSUME OrderInv, screen \in OrderScreens, screen = "lifecycle" => "none" \notin DOMAIN server,
         NEW i \in DOMAIN calls, NEW r, Answered(calls', calls, i, r),
         UNCHANGED <<screen, hooks, server, past>>,
         r.status = "ok" => calls[i].resource \in DOMAIN server /\ r.value = server[calls[i].resource]
  PROVE  OrderInv'
  <1>1. calls'[i].resource = calls[i].resource /\ calls'[i].arg = calls[i].arg /\ calls'[i].reply = r
    BY DEF Answered
  <1>2. Due(screen, calls[i], hooks, server) => Due(screen, calls'[i], hooks, server)
    BY <1>1 DEF Due
  <1> QED BY <1>2, OrderServed

\* A change is served: the screen knows of it, or it outlived the one that sent it.
LEMMA OrderChanges ==
  ASSUME Base, NEW i \in DOMAIN calls, NEW op, NEW rows, NEW v, Write(i, op, rows, v), op # "revoke",
         \/ screen = "first" /\ op = "first"
         \/ screen = "billpay" /\ op \in {"schedule", "action"}
         \/ screen = "flags" /\ op \in FlagWrites
  PROVE  OrderInv'
  <1>1. Answered(calls', calls, i, Ok(v)) /\ calls[i].op = op /\ UNCHANGED <<screen, hooks>>
    BY WriteOne
  <1>2. CASE calls[i].live
    <2>1. Does(calls[i], op)
      BY <1>1, <1>2 DEF Does, Job
    <2>2. Working(calls', op)
      BY <1>1, <2>1 DEF Answered, Working
    <2> QED BY <1>1, <2>2, OrderExcused DEF Excused
  <1>3. CASE ~calls[i].live
    <2>1. "outlived" \in past'
      BY <1>3 DEF Write
    <2> QED BY <2>1, OrderExcused
  <1> QED BY <1>2, <1>3

\* A call that has failed comes back, or one for which nobody waits.
LEMMA OrderFails ==
  ASSUME Base, OrderInv, screen \in OrderScreens, NEW i \in DOMAIN calls, NEW h, Resolve(i, h, <<>>),
         calls[i].live => calls[i].reply.status = "failed"
  PROVE  OrderInv'
  <1>1. Ended(calls', calls, i) /\ Settled(i, h)
    BY ResolveEnds
  <1>2. CASE calls[i].live
    BY <1>1, <1>2, OrderExcused DEF Settled
  <1>3. CASE ~calls[i].live
    BY <1>1, <1>3, OrderAway DEF Settled
  <1> QED BY <1>2, <1>3

\* A call comes back and what it changed is fetched again.
LEMMA OrderRefetches ==
  ASSUME Base, OrderInv, screen \in OrderScreens \ {"lifecycle"}, NEW i \in DOMAIN calls, NEW h, NEW c,
         Resolve(i, h, <<c>>), Shape(c), c.op = Fetcher(screen), c.resource = Fetched(screen),
         c.reply.status = "waiting"
  PROVE  OrderInv'
  <1>1. screen \in Home(c.op) /\ Job(c) \notin Writes
    BY FetcherFacts DEF Job
  <1> DEFINE d == [c EXCEPT !.live = calls[i].live]
  <1>2. /\ Settled(i, h)
        /\ d.op = c.op /\ d.resource = c.resource /\ d.reply = c.reply /\ d.live = calls[i].live
        /\ \E mid : Ended(mid, calls, i) /\ Made(calls', mid, d)
    BY <1>1, ResolveSends
  <1> HIDE DEF d
  <1>3. PICK mid : Ended(mid, calls, i) /\ Made(calls', mid, d)
    BY <1>2
  <1>4. CASE calls[i].live
    <2>1. Due(screen, d, hooks', server)
      BY <1>2 DEF Due
    <2>2. screen' = screen /\ server' = server
      BY <1>2 DEF Settled
    <2> QED BY <1>2, <1>3, <1>4, <2>1, <2>2, OrderAsks
  <1>5. CASE ~calls[i].live
    BY <1>2, <1>3, <1>5, OrderAway DEF Settled
  <1> QED BY <1>4, <1>5

\* Every step of FirstTransaction and TransactionLifecycle keeps the order of their fetches.
LEMMA FirstFresh ==
  ASSUME Base, FirstInv, OrderInv, screen \in FirstScreens, FirstTransactionNext
  PROVE  OrderInv'
  <1>1. FirstGood(screen, hooks, calls, server) /\ screen \in OrderScreens
    BY DEF FirstInv, FirstScreens, OrderScreens
  <1>2. screen = "first" => FirstView(hooks, calls, server)
    BY <1>1 DEF FirstGood
  <1>3. screen = "lifecycle" => LifecycleFields(hooks, calls)
    BY <1>1 DEF FirstGood
  <1>4. \A k \in DOMAIN calls : FirstCall(calls[k], screen, server)
    BY <1>1 DEF FirstGood
  <1>5. \A s \in FirstScreens : SameFamily(screen, s)
    BY DEF SameFamily, Home, FirstScreens, FlagWrites, AdminLists
  <1>6. CASE FirstMount
    <2> DEFINE c == Get("firstAccounts", "accounts")
               h == FirstState
    <2>1. Shape(c) /\ c.op = "firstAccounts" /\ c.resource = "accounts" /\ c.live /\ c.reply.status = "waiting"
      BY GetShape
    <2>2. MountWith("first", h, <<c>>, <<>>)
      BY <1>6, Zenon DEF FirstMount, Mount
    <2> HIDE DEF c, h
    <2>3. c.op = Fetcher("first") /\ Due("first", c, h, server) /\ "first" \in OrderScreens
      BY <2>1, FetcherNames DEF Due, OrderScreens
    <2> QED BY <1>5, <2>1, <2>2, <2>3, OrderOpens DEF FirstScreens
  <1>7. ASSUME NEW tx, Mount("lifecycle", LifecycleState(tx), LifecycleFetch(tx)) PROVE OrderInv'
    <2> DEFINE c == Post("lifecycle", tx)
               h == LifecycleState(tx)
    <2>1. /\ Shape(c) /\ c.op = "lifecycle" /\ c.resource = "none" /\ c.arg = tx
          /\ c.live /\ c.reply.status = "waiting"
      BY PostShape
    <2>2. MountWith("lifecycle", h, <<c>>, <<>>)
      BY <1>7, Zenon DEF Mount, LifecycleFetch
    <2>3. h.tx = tx
      BY DEF LifecycleState
    <2> HIDE DEF c, h
    <2>4. c.op = Fetcher("lifecycle") /\ Due("lifecycle", c, h, server) /\ "lifecycle" \in OrderScreens
      BY <2>1, <2>3, FetcherNames DEF Due, OrderScreens
    <2> QED BY <1>5, <2>1, <2>2, <2>4, OrderOpens DEF FirstScreens
  <1>8. CASE LifecycleNone
    <2> DEFINE h == [LifecycleState(0) EXCEPT !.loading = FALSE, !.error = TRUE]
    <2>1. MountWith("lifecycle", h, <<>>, <<>>)
      BY <1>8, Zenon DEF LifecycleNone, Mount
    <2>2. Shown("lifecycle", h, server)
      BY DEF Shown, LifecycleState
    <2> HIDE DEF h
    <2> QED BY <1>5, <2>1, <2>2, OrderOpensQuietly DEF FirstScreens, OrderScreens
  <1>9. CASE \/ \E t \in {"deposit", "withdrawal"} : FirstTab(t)
             \/ FirstInput \/ FirstConfettiEnds
    <2>1. screen = "first" /\ UNCHANGED <<screen, calls, server, past>>
      BY <1>9, Zenon DEF FirstTab, FirstInput, FirstConfettiEnds, FirstOffers, Set, Fire
    <2>2. /\ \A t : LET h == [hooks EXCEPT !.tab = t] IN h.accounts = hooks.accounts /\ h.receipt = hooks.receipt
          /\ \A t : LET h == [hooks EXCEPT !.account = t] IN h.accounts = hooks.accounts /\ h.receipt = hooks.receipt
          /\ \A t : LET h == [hooks EXCEPT !.amount = t] IN h.accounts = hooks.accounts /\ h.receipt = hooks.receipt
          /\ LET h == [hooks EXCEPT !.showConfetti = FALSE] IN h.accounts = hooks.accounts /\ h.receipt = hooks.receipt
      BY <1>2, <2>1 DEF FirstView
    <2>3. hooks'.accounts = hooks.accounts /\ hooks'.receipt = hooks.receipt
      BY <1>9, <2>2, Zenon DEF FirstTab, FirstInput, FirstConfettiEnds, Set, Fire
    <2>4. Steady(screen, hooks, hooks')
      BY <2>1, <2>3 DEF Steady
    <2> QED BY <1>1, <2>1, <2>4, OrderSets
  <1>10. ASSUME NEW s, LifecycleStage(s) PROVE OrderInv'
    <2> DEFINE stage == IF hooks.activeStage = s THEN None ELSE s
    <2>1. /\ screen = "lifecycle" /\ UNCHANGED <<screen, calls, server, past>>
          /\ hooks' = [hooks EXCEPT !.activeStage = stage]
      BY <1>10, Zenon DEF LifecycleStage, LifecycleOffers, Set
    <2> HIDE DEF stage
    <2>2. Steady(screen, hooks, hooks')
      BY <1>3, <2>1 DEF LifecycleFields, Steady
    <2> QED BY <1>1, <2>1, <2>2, OrderSets
  <1>11. CASE FirstSubmit
    <2> DEFINE h == [hooks EXCEPT !.loading = TRUE, !.error = FALSE]
               c == Post("first", FirstRequest(hooks))
    <2>1. /\ screen = "first" /\ hooks' = h /\ Send(<<c>>) /\ UNCHANGED <<screen, server, past>>
      BY <1>11, Zenon DEF FirstSubmit, FirstOffers, SetAndSend
    <2>2. ~hooks.loading
      BY <1>11, <2>1 DEF FirstSubmit, FirstOffers, FirstControls, FirstForm, ReceiptControls
    <2>3. Shape(c) /\ c.op = "first" /\ c.live
      BY PostShape
    <2> HIDE DEF h, c
    <2>4. screen \in Home(c.op) /\ Job(c) = "first" /\ past' \subseteq Pasts /\ ~Working(calls, "first")
      BY <1>2, <2>1, <2>2, <2>3, HomeFacts DEF Job, Base, FirstView
    <2>5. Made(calls', calls, c)
      BY <2>1, <2>3, <2>4, SendOne
    <2>6. Working(calls', "first")
      BY <2>3, <2>4, <2>5 DEF Made, Does
    <2> QED BY <2>1, <2>6, OrderExcused DEF Excused
  <1>12. CASE FirstReset
    <2> DEFINE h == [hooks EXCEPT !.receipt = NoReceipt, !.account = None, !.amount = None, !.error = FALSE]
               c == Get("firstAccounts", "accounts")
    <2>1. /\ screen = "first" /\ hooks' = h /\ Send(<<c>>) /\ UNCHANGED <<screen, server, past>>
      BY <1>12, Zenon DEF FirstReset, FirstOffers, SetAndSend
    <2>2. Shape(c) /\ c.op = "firstAccounts" /\ c.resource = "accounts" /\ c.live /\ c.reply.status = "waiting"
      BY GetShape
    <2> HIDE DEF h, c
    <2>3. screen \in Home(c.op) /\ Job(c) \notin Writes /\ past' \subseteq Pasts
      BY <2>1, <2>2, HomeFacts DEF Job, Base, Writes
    <2>4. Made(calls', calls, c)
      BY <2>1, <2>2, <2>3, SendOne
    <2>5. c.op = Fetcher(screen) /\ Due(screen, c, hooks', server)
      BY <2>1, <2>2, FetcherNames DEF Due
    <2> QED BY <2>1, <2>2, <2>4, <2>5, OrderAsks
  <1>13. ASSUME NEW tx, LifecycleTurn(tx) PROVE OrderInv'
    <2> DEFINE h == [hooks EXCEPT !.tx = tx]
               c == Post("lifecycle", tx)
    <2>1. /\ screen = "lifecycle" /\ hooks' = h /\ Send(<<c>>) /\ UNCHANGED <<screen, server, past>>
      BY <1>13, Zenon DEF LifecycleTurn, LifecycleFetch, SetAndSend
    <2>2. /\ Shape(c) /\ c.op = "lifecycle" /\ c.resource = "none" /\ c.arg = tx
          /\ c.live /\ c.reply.status = "waiting"
      BY PostShape
    <2>3. h.tx = tx
      BY <1>3, <2>1 DEF LifecycleFields
    <2> HIDE DEF h, c
    <2>4. screen \in Home(c.op) /\ Job(c) \notin Writes /\ past' \subseteq Pasts
      BY <2>1, <2>2, HomeFacts DEF Job, Base, Writes
    <2>5. Made(calls', calls, c)
      BY <2>1, <2>2, <2>4, SendOne
    <2>6. c.op = Fetcher(screen) /\ Due(screen, c, hooks', server)
      BY <2>1, <2>2, <2>3, FetcherNames DEF Due
    <2> QED BY <2>1, <2>2, <2>5, <2>6, OrderAsks
  <1>14. ASSUME NEW i \in DOMAIN calls, FirstAccounts(i) PROVE OrderInv'
    <2> DEFINE h == [hooks EXCEPT !.accounts = calls[i].reply.value, !.loadingAccounts = FALSE]
               g == [hooks EXCEPT !.loadingAccounts = FALSE]
    <2>1. /\ calls[i].op = "firstAccounts"
          /\ \/ calls[i].reply.status = "ok" /\ Resolve(i, h, <<>>)
             \/ calls[i].reply.status = "failed" /\ Resolve(i, g, <<>>)
      BY <1>14, Zenon DEF FirstAccounts, Back
    <2>2. calls[i].live => screen = "first"
      BY <1>4, <2>1 DEF FirstCall
    <2>3. screen = "first" => h.accounts = calls[i].reply.value /\ h.receipt = hooks.receipt
      BY <1>2 DEF FirstView
    <2> HIDE DEF h, g
    <2>4. CASE ~calls[i].live
      BY <1>1, <2>1, <2>4, OrderFails
    <2>5. CASE calls[i].live /\ calls[i].reply.status = "ok"
      <3>1. calls[i].op = Fetcher(screen) /\ Fetched(screen) = "accounts"
        BY <2>1, <2>2, <2>5, FetcherNames
      <3>2. Due(screen, calls[i], hooks, server) => Shown(screen, h, server)
        BY <2>2, <2>3, <2>5, <3>1 DEF Due, Shown
      <3>3. /\ \A c : Due(screen, c, hooks, server) => Due(screen, c, h, server)
            /\ \A cs : Excused(screen, cs, hooks) => Excused(screen, cs, h)
        BY <2>2, <2>3, <2>5 DEF Due, Excused
      <3>4. ~Unanswered(i) /\ Resolve(i, h, <<>>)
        BY <2>1, <2>5 DEF Unanswered
      <3> QED BY <1>1, <3>1, <3>2, <3>3, <3>4, OrderReturns
    <2>6. CASE calls[i].reply.status = "failed"
      BY <1>1, <2>1, <2>6, OrderFails
    <2> QED BY <2>1, <2>4, <2>5, <2>6
  <1>15. ASSUME NEW i \in DOMAIN calls, FirstDone(i) PROVE OrderInv'
    <2> DEFINE h == [hooks EXCEPT !.receipt = calls[i].reply.value, !.showConfetti = TRUE, !.loading = FALSE]
               g == [hooks EXCEPT !.error = TRUE, !.loading = FALSE]
    <2>1. /\ calls[i].op = "first"
          /\ \/ calls[i].reply.status = "ok" /\ Resolve(i, h, <<>>)
             \/ calls[i].reply.status = "failed" /\ Resolve(i, g, <<>>)
      BY <1>15, Zenon DEF FirstDone, Back
    <2>2. calls[i].live => screen = "first"
      BY <1>4, <2>1 DEF FirstCall
    <2>3. screen = "first" => h.receipt = calls[i].reply.value
      BY <1>2 DEF FirstView
    <2> HIDE DEF h, g
    <2>4. CASE ~calls[i].live
      BY <1>1, <2>1, <2>4, OrderFails
    <2>5. CASE calls[i].live /\ calls[i].reply.status = "ok"
      <3>1. Receipted(calls[i].reply.value, server) /\ IsSequence(server.ledger)
        BY <1>1, <1>4, <2>1, <2>5 DEF FirstCall, FirstGood, BankRecord
      <3>2. DOMAIN server.ledger = 1 .. Len(server.ledger)
        BY <3>1, SequenceFacts
      <3>3. calls[i].reply.value # NoReceipt
        BY <3>1, <3>2, SequenceFacts DEF Receipted, NoReceipt
      <3>4. hooks' = h /\ screen' = screen
        BY <2>1, <2>5, ResolveEnds DEF Settled
      <3> QED BY <2>2, <2>3, <2>5, <3>3, <3>4, OrderExcused DEF Excused
    <2>6. CASE calls[i].reply.status = "failed"
      BY <1>1, <2>1, <2>6, OrderFails
    <2> QED BY <2>1, <2>4, <2>5, <2>6
  <1>16. ASSUME NEW i \in DOMAIN calls, LifecycleDone(i) PROVE OrderInv'
    <2> DEFINE h == [hooks EXCEPT !.data = calls[i].reply.value, !.loading = FALSE]
               g == [hooks EXCEPT !.error = TRUE, !.loading = FALSE]
    <2>1. /\ calls[i].op = "lifecycle"
          /\ \/ calls[i].reply.status = "ok" /\ Resolve(i, h, <<>>)
             \/ calls[i].reply.status = "failed" /\ Resolve(i, g, <<>>)
      BY <1>16, Zenon DEF LifecycleDone, Back
    <2>2. calls[i].live => screen = "lifecycle"
      BY <1>4, <2>1 DEF FirstCall
    <2>3. screen = "lifecycle" => h.data = calls[i].reply.value /\ ~h.loading /\ h.tx = hooks.tx
      BY <1>3 DEF LifecycleFields
    <2> HIDE DEF h, g
    <2>4. CASE ~calls[i].live
      BY <1>1, <2>1, <2>4, OrderFails
    <2>5. CASE calls[i].live /\ calls[i].reply.status = "ok"
      <3>1. calls[i].op = Fetcher(screen)
        BY <2>1, <2>2, <2>5, FetcherNames
      <3>2. Due(screen, calls[i], hooks, server) => Shown(screen, h, server)
        BY <2>2, <2>3, <2>5 DEF Due, Shown
      <3>3. /\ \A c : Due(screen, c, hooks, server) => Due(screen, c, h, server)
            /\ \A cs : Excused(screen, cs, hooks) => Excused(screen, cs, h)
        BY <2>2, <2>3, <2>5 DEF Due, Excused
      <3>4. ~Unanswered(i) /\ Resolve(i, h, <<>>)
        BY <2>1, <2>5 DEF Unanswered
      <3> QED BY <1>1, <3>1, <3>2, <3>3, <3>4, OrderReturns
    <2>6. CASE calls[i].reply.status = "failed"
      BY <1>1, <2>1, <2>6, OrderFails
    <2> QED BY <2>1, <2>4, <2>5, <2>6
  <1>17. ASSUME NEW i \in DOMAIN calls, BankPosts(i, "first", MaxReceipts) PROVE OrderInv'
    <2>1. PICK rows, v : Write(i, "first", rows, v)
      BY <1>17, Zenon DEF BankPosts
    <2>2. FirstCall(calls[i], screen, server) /\ calls[i].op = "first"
      BY <1>4, <2>1, WriteOne
    <2>3. CASE screen = "first"
      BY <2>1, <2>3, OrderChanges
    <2>4. CASE screen # "first"
      <3>1. "outlived" \in past'
        BY <2>1, <2>2, <2>4 DEF FirstCall, Write
      <3> QED BY <3>1, OrderExcused
    <2> QED BY <2>3, <2>4
  <1>18. ASSUME NEW i \in DOMAIN calls, LifecycleServe(i) PROVE OrderInv'
    <2> DEFINE r == Ok(calls[i].arg)
    <2>1. Write(i, "lifecycle", server, calls[i].arg)
      BY <1>18, Zenon DEF LifecycleServe
    <2>2. /\ Answered(calls', calls, i, r) /\ calls[i].op = "lifecycle"
          /\ UNCHANGED <<screen, hooks, server>> /\ past \subseteq past'
      BY <2>1, WriteOne
    <2>3. r.value = calls[i].arg
      BY DEF Ok
    <2> HIDE DEF r
    <2>4. i \in Awaited(calls, Fetcher(screen)) => screen = "lifecycle"
      BY <1>4, <2>2 DEF Awaited, FirstCall
    <2>5. i \in Awaited(calls, Fetcher(screen)) /\ Due(screen, calls[i], hooks, server)
            => Due(screen, calls'[i], hooks, server)
      BY <2>2, <2>3, <2>4 DEF Due, Answered
    <2> QED BY <1>1, <2>2, <2>5, OrderServed
  <1> QED BY <1>6, <1>7, <1>8, <1>9, <1>10, <1>11, <1>12, <1>13, <1>14, <1>15, <1>16, <1>17, <1>18, Zenon
          DEF FirstTransactionNext, LifecycleMount, FirstToLifecycle, LifecycleToFirst

\* A change is asked for after which the screen fetches again.
LEMMA OrderCommits ==
  ASSUME Base, NEW c, Shape(c), c.live, Send(<<c>>), UNCHANGED <<screen, past>>,
         \/ screen = "billpay" /\ c.op \in {"schedule", "action"}
         \/ screen = "flags" /\ c.op \in FlagWrites
  PROVE  OrderInv'
  <1>1. screen \in Home(c.op) /\ Job(c) = c.op /\ Job(c) \notin Writes /\ past' \subseteq Pasts
    BY HomeFacts DEF Home, FlagWrites, Job, Writes, Base
  <1>2. Made(calls', calls, c)
    BY <1>1, SendOne
  <1>3. Working(calls', c.op)
    BY <1>1, <1>2 DEF Made, Does
  <1> QED BY <1>3, OrderExcused DEF Excused

\* Every step of BillPay keeps the order of its fetches.
LEMMA BillPayFresh ==
  ASSUME Base, BillPayInv, OrderInv, screen = "billpay", BillPayNext
  PROVE  OrderInv'
  <1>1. screen \in OrderScreens \ {"lifecycle"} /\ Fetcher(screen) = "fetchBills" /\ Fetched(screen) = "bills"
    BY FetcherNames DEF OrderScreens
  <1>2. BillHooks(hooks)
    BY DEF BillPayInv, BillGood
  <1> DEFINE c == Get("fetchBills", "bills")
  <1>3. Shape(c) /\ c.op = "fetchBills" /\ c.resource = "bills" /\ c.live /\ c.reply.status = "waiting"
    BY GetShape
  <1>4. FetchBills = <<c>>
    BY Zenon DEF FetchBills
  <1> HIDE DEF c
  <1>5. CASE BillPayMount
    <2>1. MountWith("billpay", BillPayState, <<c>>, <<>>)
      BY <1>4, <1>5, Zenon DEF BillPayMount, Mount
    <2>2. SameFamily(screen, "billpay") /\ Due("billpay", c, BillPayState, server)
      BY <1>1, <1>3 DEF SameFamily, Due
    <2> QED BY <1>1, <1>3, <2>1, <2>2, OrderOpens
  <1>6. CASE BillForm
    <2>1. UNCHANGED <<screen, calls, server, past>>
      BY <1>6, Zenon DEF BillForm, Set
    <2>2. /\ \A b : [hooks EXCEPT !.showForm = b].payments = hooks.payments
          /\ [hooks EXCEPT !.filled = TRUE].payments = hooks.payments
      BY <1>2 DEF BillHooks
    <2>3. hooks'.payments = hooks.payments
      BY <1>6, <2>2, Zenon DEF BillForm, Set
    <2> QED BY <1>1, <2>1, <2>3, OrderSets DEF Steady
  <1>7. CASE BillSchedule
    <2> DEFINE e == Post("schedule", "new")
    <2>1. Shape(e) /\ e.op = "schedule" /\ e.live
      BY PostShape
    <2>2. Send(<<e>>) /\ UNCHANGED <<screen, past>>
      BY <1>7, Zenon DEF BillSchedule, SetAndSend
    <2> HIDE DEF e
    <2> QED BY <2>1, <2>2, OrderCommits
  <1>8. ASSUME NEW p, NEW action, BillAction(p, action) PROVE OrderInv'
    <2> DEFINE e == Post("action", [bill |-> p, action |-> action])
    <2>1. Shape(e) /\ e.op = "action" /\ e.live
      BY PostShape
    <2>2. Send(<<e>>) /\ UNCHANGED <<screen, past>>
      BY <1>8, Zenon DEF BillAction, SetAndSend
    <2> HIDE DEF e
    <2> QED BY <2>1, <2>2, OrderCommits
  <1>9. ASSUME NEW i \in DOMAIN calls, BillsFetched(i) PROVE OrderInv'
    <2> DEFINE h == [hooks EXCEPT !.payments = ShownBills(calls[i].reply), !.loading = FALSE]
    <2>1. calls[i].op = "fetchBills" /\ ~Unanswered(i) /\ Resolve(i, h, <<>>)
      BY <1>9, Zenon DEF BillsFetched
    <2>2. h.payments = ShownBills(calls[i].reply)
      BY <1>2 DEF BillHooks
    <2> HIDE DEF h
    <2>3. calls[i].reply.status = "ok" => (Due(screen, calls[i], hooks, server) => Shown(screen, h, server))
      BY <1>1, <2>2 DEF Due, Shown, ShownBills, Ok
    <2>4. /\ \A d : Due(screen, d, hooks, server) => Due(screen, d, h, server)
          /\ \A cs : Excused(screen, cs, hooks) => Excused(screen, cs, h)
      BY DEF Due, Excused
    <2> QED BY <1>1, <2>1, <2>3, <2>4, OrderReturns
  <1>10. ASSUME NEW i \in DOMAIN calls, BillScheduled(i) \/ BillActed(i) PROVE OrderInv'
    <2>1. \E h : \/ Resolve(i, h, <<c>>)
                 \/ calls[i].reply.status = "failed" /\ Resolve(i, h, <<>>)
      BY <1>4, <1>10, Zenon DEF BillScheduled, BillActed, Back
    <2>2. PICK h : \/ Resolve(i, h, <<c>>)
                   \/ calls[i].reply.status = "failed" /\ Resolve(i, h, <<>>)
      BY <2>1
    <2>3. CASE Resolve(i, h, <<c>>)
      BY <1>1, <1>3, <2>3, OrderRefetches
    <2>4. CASE calls[i].reply.status = "failed" /\ Resolve(i, h, <<>>)
      BY <1>1, <2>4, OrderFails
    <2> QED BY <2>2, <2>3, <2>4
  <1>11. ASSUME NEW i \in DOMAIN calls, ScheduleServe(i) \/ ActionServe(i) PROVE OrderInv'
    <2>1. \E op \in {"schedule", "action"} : \E rows, v : Write(i, op, rows, v)
      BY <1>11, Zenon DEF ScheduleServe, ActionServe
    <2>2. PICK op \in {"schedule", "action"} : \E rows, v : Write(i, op, rows, v)
      BY <2>1
    <2> QED BY <2>2, OrderChanges
  <1> QED BY <1>5, <1>6, <1>7, <1>8, <1>9, <1>10, <1>11 DEF BillPayNext

\* The hooks that the flags and the lists of the console show.
AdminFields ==
  /\ screen = "flags" => {"flags", "editing", "showCreate", "named"} \subseteq DOMAIN hooks
  /\ screen \in AdminLists => {"events", "loading"} \subseteq DOMAIN hooks

\* What these two share with the other screens of the console.
FlagPages == {"flags"} \union AdminLists

\* Every step of the flags and the lists keeps the order of their fetches.
LEMMA FlagsFresh ==
  ASSUME Base, OrderInv, AdminFields, screen \in FlagPages, AdminNext
  PROVE  OrderInv' /\ AdminFields' /\ screen' = screen
  <1>1. /\ screen \in OrderScreens \ {"lifecycle"}
        /\ Fetcher(screen) = screen /\ (screen = "flags" => Fetched(screen) = "flags")
        /\ screen \in AdminLists => Fetched(screen) = "events"
    BY FetcherNames DEF OrderScreens, FlagPages, AdminLists
  <1>2. \A k \in DOMAIN calls :
          /\ calls[k].op \in {"flags"} \union FlagWrites => screen = "flags"
          /\ calls[k].op \in AdminLists => screen = calls[k].op
          /\ calls[k].op \notin {"users", "patchUser"}
    BY HomeFacts DEF Base, OwnCalls, FlagPages, Home, FlagWrites, AdminLists
  <1>3. ASSUME NEW s \in FlagPages, screen = s, NEW h, Mount(s, h, <<Get(s, Fetched(s))>>),
               s = "flags" => {"flags", "editing", "showCreate", "named"} \subseteq DOMAIN h,
               s \in AdminLists => {"events", "loading"} \subseteq DOMAIN h
        PROVE  OrderInv' /\ AdminFields' /\ screen' = screen
    <2> DEFINE c == Get(s, Fetched(s))
    <2>1. Shape(c) /\ c.op = s /\ c.resource = Fetched(s) /\ c.live /\ c.reply.status = "waiting"
      BY GetShape
    <2>2. MountWith(s, h, <<c>>, <<>>)
      BY <1>3, Zenon DEF Mount
    <2> HIDE DEF c
    <2>3. SameFamily(screen, s) /\ Due(s, c, h, server)
      BY <1>1, <1>3, <2>1 DEF SameFamily, Due
    <2>4. OrderInv'
      BY <1>1, <1>3, <2>1, <2>2, <2>3, OrderOpens
    <2>5. screen' = s /\ hooks' = h
      BY <2>2 DEF MountWith
    <2> QED BY <1>3, <2>4, <2>5 DEF AdminFields
  <1>4. CASE screen = "flags" /\ FlagsMount
    <2>1. Mount("flags", FlagsState, <<Get("flags", Fetched("flags"))>>)
      BY <1>4, FetcherNames, Zenon DEF FlagsMount, FetchFlags
    <2>2. {"flags", "editing", "showCreate", "named"} \subseteq DOMAIN FlagsState
      BY DEF FlagsState
    <2>3. "flags" \in FlagPages /\ "flags" \notin AdminLists
      BY DEF FlagPages, AdminLists
    <2> QED BY <1>3, <1>4, <2>1, <2>2, <2>3
  <1>5. ASSUME NEW s \in AdminLists, screen = s, AdminListMount(s)
        PROVE  OrderInv' /\ AdminFields' /\ screen' = screen
    <2>1. Mount(s, AdminListState, <<Get(s, Fetched(s))>>)
      BY <1>5, FetcherNames, Zenon DEF AdminListMount
    <2>2. {"events", "loading"} \subseteq DOMAIN AdminListState
      BY DEF AdminListState
    <2>3. s \in FlagPages /\ s # "flags"
      BY DEF FlagPages, AdminLists
    <2> QED BY <1>3, <1>5, <2>1, <2>2, <2>3
  <1>6. ASSUME UNCHANGED <<screen, calls, server, past>>, DOMAIN hooks' = DOMAIN hooks, Steady(screen, hooks, hooks')
        PROVE  OrderInv' /\ AdminFields' /\ screen' = screen
    BY <1>1, <1>6, OrderSets DEF AdminFields
  <1>7. CASE FlagForm
    <2>1. screen = "flags" /\ UNCHANGED <<screen, calls, server, past>>
      BY <1>7, Zenon DEF FlagForm, Set
    <2>2. /\ \A x : LET h == [hooks EXCEPT !.showCreate = x] IN DOMAIN h = DOMAIN hooks /\ h.flags = hooks.flags
          /\ \A x : LET h == [hooks EXCEPT !.named = x] IN DOMAIN h = DOMAIN hooks /\ h.flags = hooks.flags
          /\ \A x : LET h == [hooks EXCEPT !.editing = x] IN DOMAIN h = DOMAIN hooks /\ h.flags = hooks.flags
      BY <2>1 DEF AdminFields
    <2>3. DOMAIN hooks' = DOMAIN hooks /\ hooks'.flags = hooks.flags
      BY <1>7, <2>2, Zenon DEF FlagForm, Set
    <2> QED BY <1>6, <2>1, <2>3 DEF Steady
  <1>8. ASSUME NEW c, AdminListChoice(c) PROVE OrderInv' /\ AdminFields' /\ screen' = screen
    <2>1. /\ screen \in AdminLists /\ UNCHANGED <<screen, calls, server, past>>
          /\ hooks' = [hooks EXCEPT !.choice = c]
      BY <1>8 DEF AdminListChoice, Set, AdminLists
    <2>2. DOMAIN hooks' = DOMAIN hooks /\ hooks'.events = hooks.events
      BY <2>1 DEF AdminFields
    <2>3. Steady(screen, hooks, hooks')
      BY <2>1, <2>2 DEF Steady, AdminLists
    <2> QED BY <1>6, <2>1, <2>2, <2>3
  <1>9. ASSUME NEW op \in FlagWrites, NEW f, NEW value, FlagSend(op, f, value)
        PROVE  OrderInv' /\ AdminFields' /\ screen' = screen
    <2> DEFINE c == Post(op, [flag |-> f, value |-> value])
    <2>1. Shape(c) /\ c.op = op /\ c.live
      BY PostShape
    <2>2. screen = "flags" /\ Send(<<c>>) /\ UNCHANGED <<screen, past, hooks>>
      BY <1>9, Zenon DEF FlagSend, SetAndSend
    <2> HIDE DEF c
    <2>3. OrderInv'
      BY <2>1, <2>2, OrderCommits
    <2> QED BY <2>2, <2>3 DEF AdminFields
  <1>10. ASSUME NEW f, FlagToggle(f) \/ FlagRollout(f) \/ FlagDelete(f) \/ FlagCreate(f)
         PROVE  OrderInv' /\ AdminFields' /\ screen' = screen
    <2>1. \E op \in FlagWrites : \E value : FlagSend(op, f, value)
      BY <1>10 DEF FlagToggle, FlagRollout, FlagDelete, FlagCreate, FlagWrites
    <2> QED BY <1>9, <2>1
  <1>11. ASSUME NEW i \in DOMAIN calls, NEW h, DOMAIN h = DOMAIN hooks, Settled(i, h), OrderInv'
         PROVE  OrderInv' /\ AdminFields' /\ screen' = screen
    BY <1>11 DEF Settled, AdminFields
  <1>12. ASSUME NEW i \in DOMAIN calls, calls[i].op = screen, ~Unanswered(i), NEW h, Resolve(i, h, <<>>),
                DOMAIN h = DOMAIN hooks, screen = "flags" /\ calls[i].reply.status = "ok" => h.flags = calls[i].reply.value,
                screen \in AdminLists => h.events = calls[i].reply.value
         PROVE  OrderInv' /\ AdminFields' /\ screen' = screen
    <2>1. calls[i].reply.status = "ok" => (Due(screen, calls[i], hooks, server) => Shown(screen, h, server))
      BY <1>1, <1>12 DEF Due, Shown, FlagPages, AdminLists
    <2>2. /\ \A d : Due(screen, d, hooks, server) => Due(screen, d, h, server)
          /\ \A cs : Excused(screen, cs, hooks) => Excused(screen, cs, h)
      BY DEF Due, Excused, FlagPages, AdminLists
    <2>3. OrderInv'
      BY <1>1, <1>12, <2>1, <2>2, OrderReturns
    <2> QED BY <1>11, <1>12, <2>3, ResolveEnds
  <1>13. ASSUME NEW i \in DOMAIN calls, FlagsFetched(i) PROVE OrderInv' /\ AdminFields' /\ screen' = screen
    <2> DEFINE h == [hooks EXCEPT !.flags = calls[i].reply.value]
    <2>1. /\ calls[i].op = "flags" /\ ~Unanswered(i)
          /\ \/ Resolve(i, h, <<>>)
             \/ calls[i].reply.status = "failed" /\ Resolve(i, hooks, <<>>)
      BY <1>13 DEF FlagsFetched, Back, Unanswered
    <2>2. screen = "flags" /\ screen \notin AdminLists
      BY <1>2, <2>1 DEF AdminLists
    <2>3. DOMAIN h = DOMAIN hooks /\ h.flags = calls[i].reply.value
      BY <2>2 DEF AdminFields
    <2> HIDE DEF h
    <2> QED BY <1>12, <2>1, <2>2, <2>3
  <1>14. ASSUME NEW i \in DOMAIN calls, AdminListFetched(i) PROVE OrderInv' /\ AdminFields' /\ screen' = screen
    <2> DEFINE h == [hooks EXCEPT !.events = calls[i].reply.value, !.loading = FALSE]
    <2>1. calls[i].op \in AdminLists /\ ~Unanswered(i) /\ Resolve(i, h, <<>>)
      BY <1>14, Zenon DEF AdminListFetched
    <2>2. screen = calls[i].op /\ screen \in AdminLists /\ screen # "flags"
      BY <1>2, <2>1 DEF AdminLists
    <2>3. DOMAIN h = DOMAIN hooks /\ h.events = calls[i].reply.value
      BY <2>2 DEF AdminFields
    <2> HIDE DEF h
    <2> QED BY <1>12, <2>1, <2>2, <2>3
  <1>15. ASSUME NEW i \in DOMAIN calls, FlagWritten(i) PROVE OrderInv' /\ AdminFields' /\ screen' = screen
    <2> DEFINE c == Get("flags", "flags")
               x == IF calls[i].op = "updateRollout" THEN "none" ELSE hooks.editing
               y == IF calls[i].op = "createFlag" THEN FALSE ELSE hooks.showCreate
               z == IF calls[i].op = "createFlag" THEN FALSE ELSE hooks.named
               h == [hooks EXCEPT !.editing = x, !.showCreate = y, !.named = z]
    <2>1. Shape(c) /\ c.op = "flags" /\ c.resource = "flags" /\ c.live /\ c.reply.status = "waiting"
      BY GetShape
    <2>2. /\ calls[i].op \in FlagWrites
          /\ \/ Resolve(i, h, <<c>>)
             \/ calls[i].reply.status = "failed" /\ Resolve(i, hooks, <<>>)
      BY <1>15 DEF FlagWritten, FetchFlags
    <2> HIDE DEF c, x, y, z
    <2>3. DOMAIN h = DOMAIN hooks
      OBVIOUS
    <2> HIDE DEF h
    <2>4. screen = "flags"
      BY <1>2, <2>2
    <2>5. CASE Resolve(i, h, <<c>>)
      <3>1. OrderInv'
        BY <1>1, <2>1, <2>4, <2>5, OrderRefetches
      <3>2. Settled(i, h)
        BY <2>5 DEF Resolve, Settled
      <3> QED BY <1>11, <2>3, <3>1, <3>2
    <2>6. CASE calls[i].reply.status = "failed" /\ Resolve(i, hooks, <<>>)
      <3>1. OrderInv'
        BY <1>1, <2>6, OrderFails
      <3> QED BY <1>11, <2>6, <3>1, ResolveEnds
    <2> QED BY <2>2, <2>5, <2>6
  <1>16. ASSUME NEW i \in DOMAIN calls, FlagServe(i) PROVE OrderInv' /\ AdminFields' /\ screen' = screen
    <2>1. \E op \in FlagWrites : \E rows, v : Write(i, op, rows, v)
      BY <1>16, Zenon DEF FlagServe, FlagWrites
    <2>2. PICK op \in FlagWrites : \E rows, v : Write(i, op, rows, v)
      BY <2>1
    <2>3. screen = "flags" /\ op # "revoke" /\ UNCHANGED <<screen, hooks>>
      BY <1>2, <2>2, WriteOne DEF FlagWrites
    <2>4. OrderInv'
      BY <2>2, <2>3, OrderChanges
    <2> QED BY <2>3, <2>4 DEF AdminFields
  <1>17. CASE \/ screen = "users" /\ (UsersMount \/ \E u \in DOMAIN hooks.users : UserUpdate(u))
              \/ screen = "backups" /\ BackupsMount
              \/ screen = "showcase" /\ ShowcaseMount
              \/ screen = "roadmap" /\ RoadmapMount
              \/ \E b \in Items : Restore(b) \/ ShowcaseToggle(b) \/ RoadmapToggle(b)
              \/ Restored \/ \E v \in {"map", "catalog"} : ShowcaseView(v)
              \/ \E i \in DOMAIN calls : UsersFetched(i) \/ PatchServe(i) \/ UserUpdated(i)
    <2>1. screen \notin {"users", "backups", "showcase", "roadmap"}
      BY DEF FlagPages, AdminLists
    <2>2. ASSUME NEW i \in DOMAIN calls PROVE ~(UsersFetched(i) \/ PatchServe(i) \/ UserUpdated(i))
      BY <1>2 DEF UsersFetched, PatchServe, UserUpdated, Back
    <2> QED BY <1>17, <2>1, <2>2 DEF Restore, ShowcaseToggle, RoadmapToggle, Restored, ShowcaseView
  <1> QED BY <1>4, <1>5, <1>7, <1>8, <1>10, <1>13, <1>14, <1>15, <1>16, <1>17 DEF AdminNext

(* UserManagement: an update writes the list that it saw *)

\* A live fetch brings the users, and a live update was made on what the back end has.
UserDue(c, h, rows) ==
  /\ c.op = "users" =>
       /\ h.loading /\ c.resource = "users"
       /\ c.reply.status = "ok" => c.reply.value = rows.users
  /\ c.op = "patchUser" =>
       /\ c.resource = "none"
       /\ c.reply.status = "waiting" => c.arg.seen = rows.users
       /\ c.reply.status = "ok" => [c.arg.seen EXCEPT ![c.arg.user] = c.arg.value] = rows.users

\* One call at a time is awaited, and it leaves the list right.
UserOrder(h, cs, rows) ==
  /\ \A j, k \in DOMAIN cs : cs[j].live /\ cs[k].live => j = k
  /\ (\A k \in DOMAIN cs : ~cs[k].live) => h.users = rows.users
  /\ \A k \in DOMAIN cs : cs[k].live => UserDue(cs[k], h, rows)

UserGood(h, cs, rows, p) ==
  /\ {"users", "loading"} \subseteq DOMAIN h /\ DOMAIN rows = {"users", "flags", "events"}
  /\ Clean(p) => UserOrder(h, cs, rows)

UsersInv == screen = "users" => UserGood(hooks, calls, server, past)

\* What remains when a call is taken out.
LEMMA Remaining ==
  ASSUME NEW new, NEW old, NEW i, TakenOut(new, old, i), DOMAIN new \subseteq Nat, i \in Nat
  PROVE  /\ \A k \in DOMAIN new : Slot(k, i) \in DOMAIN old \ {i} /\ Alike(new[k], old[Slot(k, i)])
         /\ \A j, k \in DOMAIN new : Slot(j, i) = Slot(k, i) => j = k
         /\ \A j \in DOMAIN old \ {i} : \E k \in DOMAIN new : Alike(new[k], old[j])
  <1>1. \A k \in DOMAIN new : Slot(k, i) \in DOMAIN old \ {i} /\ Alike(new[k], old[Slot(k, i)])
    BY DEF TakenOut
  <1>2. \A j, k \in DOMAIN new : Slot(j, i) = Slot(k, i) => j = k
    BY DEF Slot
  <1>3. \A j \in DOMAIN old \ {i} : \E k \in DOMAIN new : Slot(k, i) = j
    BY DEF TakenOut
  <1> QED BY <1>1, <1>2, <1>3

\* On this screen the console does nothing but this.
LEMMA UsersOnly ==
  ASSUME Base, screen = "users", AdminNext
  PROVE  \/ UsersMount \/ \E u : UserUpdate(u)
         \/ \E i \in DOMAIN calls : UsersFetched(i) \/ PatchServe(i) \/ UserUpdated(i)
  <1>1. ASSUME NEW i \in DOMAIN calls
        PROVE  ~(FlagsFetched(i) \/ FlagServe(i) \/ FlagWritten(i) \/ AdminListFetched(i))
    <2>1. calls[i].op \notin {"flags"} \union FlagWrites \union AdminLists
      BY HomeFacts DEF Base, OwnCalls, Home, FlagWrites, AdminLists
    <2> QED BY <2>1 DEF FlagsFetched, FlagServe, FlagWritten, AdminListFetched, Back
  <1>2. screen \notin {"flags", "backups", "showcase", "roadmap"} \union AdminLists
    BY DEF AdminLists
  <1>3. ~FlagForm /\ ~Restored
    BY <1>2 DEF FlagForm, Restored
  <1>4. \A b : ~(FlagCreate(b) \/ Restore(b) \/ ShowcaseToggle(b) \/ RoadmapToggle(b) \/ ShowcaseView(b) \/ AdminListChoice(b))
    BY <1>2 DEF FlagCreate, FlagSend, Restore, ShowcaseToggle, RoadmapToggle, ShowcaseView, AdminListChoice, AdminLists
  <1> QED BY <1>1, <1>2, <1>3, <1>4 DEF AdminNext

\* An awaited call comes back in time, or another one that nobody waits for.
LEMMA UserSettles ==
  ASSUME Base, UsersInv, screen = "users", NEW i \in DOMAIN calls, NEW h, Resolve(i, h, <<>>),
         DOMAIN h = DOMAIN hooks, calls[i].op \in {"users", "patchUser"}, calls[i].reply.status \in {"ok", "failed"},
         calls[i].reply.status = "ok" /\ UserDue(calls[i], hooks, server) => h.users = server.users
  PROVE  UsersInv'
  <1>1. Ended(calls', calls, i) /\ Settled(i, h)
    BY ResolveEnds
  <1>2. /\ DOMAIN calls' \subseteq Nat /\ i \in Nat
        /\ \A k \in DOMAIN calls' : Slot(k, i) \in DOMAIN calls \ {i} /\ Alike(calls'[k], calls[Slot(k, i)])
        /\ \A j, k \in DOMAIN calls' : Slot(j, i) = Slot(k, i) => j = k
        /\ \A j \in DOMAIN calls \ {i} : \E k \in DOMAIN calls' : Alike(calls'[k], calls[j])
    BY <1>1, Remaining DEF Ended, TakenOut
  <1>3. UserGood(hooks, calls, server, past)
    BY DEF UsersInv
  <1>4. ASSUME Clean(past') PROVE UserOrder(hooks', calls', server)
    <2>1. Clean(past) /\ (calls[i].live => calls[i].reply.status = "ok")
      BY <1>1, <1>4 DEF Settled, Clean
    <2>2. UserOrder(hooks, calls, server)
      BY <1>3, <2>1 DEF UserGood
    <2>3. CASE calls[i].live
      <3>1. UserDue(calls[i], hooks, server) /\ hooks' = h
        BY <1>1, <2>2, <2>3 DEF UserOrder, Settled
      <3>2. \A k \in DOMAIN calls' : ~calls'[k].live
        BY <1>2, <2>2, <2>3 DEF UserOrder, Alike
      <3> QED BY <2>1, <2>3, <3>1, <3>2 DEF UserOrder
    <2>4. CASE ~calls[i].live
      <3>1. hooks' = hooks
        BY <1>1, <2>4 DEF Settled
      <3>2. ASSUME NEW k \in DOMAIN calls', calls'[k].live PROVE UserDue(calls'[k], hooks, server)
        <4> DEFINE d == calls'[k]
                   c == calls[Slot(k, i)]
        <4>1. Alike(d, c) /\ UserDue(c, hooks, server)
          BY <1>2, <2>2, <3>2 DEF UserOrder, Alike
        <4> HIDE DEF d, c
        <4>2. UserDue(d, hooks, server)
          BY <4>1 DEF UserDue, Alike
        <4> QED BY <4>2 DEF d
      <3>3. (\A k \in DOMAIN calls' : ~calls'[k].live) => \A k \in DOMAIN calls : ~calls[k].live
        BY <1>2, <2>4 DEF Alike
      <3>4. \A j, k \in DOMAIN calls' : calls'[j].live /\ calls'[k].live => j = k
        BY <1>2, <2>2 DEF UserOrder, Alike
      <3> QED BY <2>2, <3>1, <3>2, <3>3, <3>4 DEF UserOrder
    <2> QED BY <2>3, <2>4
  <1> QED BY <1>1, <1>3, <1>4 DEF UsersInv, UserGood, Settled

\* The server answers one of them.
LEMMA UserAnswered ==
  ASSUME UsersInv, screen = "users", NEW i \in DOMAIN calls, NEW r, Answered(calls', calls, i, r),
         UNCHANGED <<screen, hooks>>, past \subseteq past', DOMAIN server' = DOMAIN server,
         Clean(past') => server' = server \/ calls[i].live,
         calls[i].live /\ UserDue(calls[i], hooks, server) => UserDue(calls'[i], hooks, server')
  PROVE  UsersInv'
  <1>1. UserGood(hooks, calls, server, past)
    BY DEF UsersInv
  <1>2. ASSUME Clean(past') PROVE UserOrder(hooks, calls', server')
    <2>1. UserOrder(hooks, calls, server)
      BY <1>1, <1>2 DEF UserGood, Clean
    <2>2. \A k \in DOMAIN calls : (calls'[k].live <=> calls[k].live) /\ (k # i => calls'[k] = calls[k])
      BY DEF Answered
    <2>3. DOMAIN calls' = DOMAIN calls
      BY DEF Answered
    <2>4. CASE calls[i].live
      <3>1. \A k \in DOMAIN calls : calls[k].live => k = i
        BY <2>1, <2>4 DEF UserOrder
      <3> QED BY <2>1, <2>2, <2>3, <2>4, <3>1 DEF UserOrder
    <2>5. CASE ~calls[i].live
      <3>1. server' = server
        BY <1>2, <2>5
      <3> QED BY <2>1, <2>2, <2>3, <2>5, <3>1 DEF UserOrder
    <2> QED BY <2>4, <2>5
  <1> QED BY <1>1, <1>2 DEF UsersInv, UserGood

\* Every step of UserManagement keeps its list right.
LEMMA UsersFresh ==
  ASSUME Base, UsersInv, screen = "users", AdminNext PROVE UsersInv' /\ screen' = screen
  <1>1. UserGood(hooks, calls, server, past)
    BY DEF UsersInv
  <1>2. CASE UsersMount
    <2> DEFINE c == Get("users", "users")
    <2>1. Shape(c) /\ c.op = "users" /\ c.resource = "users" /\ c.live /\ c.reply.status = "waiting"
      BY GetShape
    <2>2. MountWith("users", UsersState, <<c>>, <<>>)
      BY <1>2, Zenon DEF UsersMount, Mount
    <2> HIDE DEF c
    <2>3. "users" \in Home(c.op) /\ Job(c) \notin Writes /\ SameFamily(screen, "users")
      BY <2>1, HomeFacts DEF Job, Writes, SameFamily
    <2>4. /\ \E mid : Dropped(mid, calls) /\ Made(calls', mid, c)
          /\ screen' = "users" /\ hooks' = UsersState /\ server' = server
      BY <2>1, <2>2, <2>3, OpenSends
    <2>5. PICK mid : Dropped(mid, calls) /\ Made(calls', mid, c)
      BY <2>4
    <2>6. PICK n \in Nat : DOMAIN calls' = DOMAIN mid \union {n} /\ calls'[n] = c
                           /\ \A k \in DOMAIN mid : calls'[k] = mid[k]
      BY <2>5 DEF Made, Extended
    <2>7. \A k \in DOMAIN calls' : calls'[k].live => k = n
      BY <2>5, <2>6 DEF Dropped
    <2>8. UsersState.loading /\ {"users", "loading"} \subseteq DOMAIN UsersState
      BY DEF UsersState
    <2>9. UserDue(c, UsersState, server)
      BY <2>1, <2>8 DEF UserDue
    <2>10. UserOrder(UsersState, calls', server)
      BY <2>1, <2>6, <2>7, <2>9 DEF UserOrder
    <2> QED BY <1>1, <2>4, <2>8, <2>10 DEF UsersInv, UserGood
  <1>3. ASSUME NEW u, UserUpdate(u) PROVE UsersInv' /\ screen' = screen
    <2> DEFINE c == Post("patchUser", [user |-> u, value |-> Other(hooks.users[u]), seen |-> hooks.users])
    <2>1. /\ ~hooks.loading /\ Send(<<c>>) /\ UNCHANGED <<screen, hooks, server>>
          /\ past' = IF InFlight("patchUser") # {} THEN past \union {"overlapped"} ELSE past
      BY <1>3, Zenon DEF UserUpdate
    <2>2. Shape(c) /\ c.op = "patchUser" /\ c.resource = "none" /\ c.live /\ c.reply.status = "waiting"
      BY PostShape
    <2>3. c.arg.seen = hooks.users
      BY DEF Post, Sent
    <2> HIDE DEF c
    <2>4. screen \in Home(c.op) /\ Job(c) \notin Writes /\ past' \subseteq Pasts
      BY <2>1, <2>2, HomeFacts DEF Job, Writes, Base, Pasts
    <2>5. Made(calls', calls, c)
      BY <2>1, <2>2, <2>4, SendOne
    <2>6. PICK n \in Nat : DOMAIN calls' = DOMAIN calls \union {n} /\ calls'[n] = c
                           /\ \A k \in DOMAIN calls : calls'[k] = calls[k]
      BY <2>5 DEF Made, Extended
    <2>7. ASSUME Clean(past') PROVE UserOrder(hooks, calls', server)
      <3>1. InFlight("patchUser") = {} /\ Clean(past)
        BY <2>1, <2>7 DEF Clean
      <3>2. UserOrder(hooks, calls, server)
        BY <1>1, <3>1 DEF UserGood
      <3>3. \A k \in DOMAIN calls : ~calls[k].live
        <4>1. \A k \in DOMAIN calls : calls[k].op \in {"users", "patchUser"}
          BY DEF Base, OwnCalls, Home, FlagWrites, AdminLists
        <4> QED BY <2>1, <3>1, <3>2, <4>1 DEF InFlight, UserOrder, UserDue
      <3>4. UserDue(c, hooks, server)
        BY <2>2, <2>3, <3>2, <3>3 DEF UserOrder, UserDue
      <3> QED BY <2>2, <2>6, <3>3, <3>4 DEF UserOrder
    <2> QED BY <1>1, <2>1, <2>7 DEF UsersInv, UserGood
  <1>4. ASSUME NEW i \in DOMAIN calls, UsersFetched(i) PROVE UsersInv' /\ screen' = screen
    <2> DEFINE h == [hooks EXCEPT !.users = calls[i].reply.value, !.loading = FALSE]
               g == [hooks EXCEPT !.loading = FALSE]
    <2>1. /\ calls[i].op = "users"
          /\ \/ calls[i].reply.status = "ok" /\ Resolve(i, h, <<>>)
             \/ calls[i].reply.status = "failed" /\ Resolve(i, g, <<>>)
      BY <1>4, Zenon DEF UsersFetched, Back
    <2>2. DOMAIN h = DOMAIN hooks /\ DOMAIN g = DOMAIN hooks /\ h.users = calls[i].reply.value
      BY <1>1 DEF UserGood
    <2> HIDE DEF h, g
    <2>3. calls[i].reply.status = "ok" /\ UserDue(calls[i], hooks, server) => h.users = server.users
      BY <2>1, <2>2 DEF UserDue
    <2>4. UsersInv'
      BY <2>1, <2>2, <2>3, UserSettles
    <2> QED BY <2>1, <2>4 DEF Resolve
  <1>5. ASSUME NEW i \in DOMAIN calls, UserUpdated(i) PROVE UsersInv' /\ screen' = screen
    <2> DEFINE a == calls[i].arg
               list == [a.seen EXCEPT ![a.user] = a.value]
               h == [hooks EXCEPT !.users = list]
    <2>1. /\ calls[i].op = "patchUser"
          /\ \/ calls[i].reply.status = "ok" /\ Resolve(i, h, <<>>)
             \/ calls[i].reply.status = "failed" /\ Resolve(i, hooks, <<>>)
      BY <1>5, Zenon DEF UserUpdated, Back
    <2>2. calls[i].reply.status = "ok" /\ UserDue(calls[i], hooks, server) => list = server.users
      BY <2>1, Zenon DEF UserDue
    <2> HIDE DEF list
    <2>3. DOMAIN h = DOMAIN hooks /\ h.users = list
      BY <1>1 DEF UserGood
    <2> HIDE DEF h
    <2>4. UsersInv'
      BY <2>1, <2>2, <2>3, UserSettles
    <2> QED BY <2>1, <2>4 DEF Resolve
  <1>6. ASSUME NEW i \in DOMAIN calls, PatchServe(i) PROVE UsersInv' /\ screen' = screen
    <2> DEFINE a == calls[i].arg
               rows == [server EXCEPT !.users[a.user] = a.value]
               list == [a.seen EXCEPT ![a.user] = a.value]
    <2>1. calls[i].op = "patchUser" /\ Write(i, "patchUser", rows, NoValue)
      BY <1>6, Zenon DEF PatchServe
    <2>2. /\ Answered(calls', calls, i, Ok(NoValue)) /\ Unanswered(i) /\ server' = rows
          /\ UNCHANGED <<screen, hooks>> /\ past \subseteq past'
      BY <2>1, WriteOne
    <2>3. DOMAIN rows = DOMAIN server /\ rows.users = [server.users EXCEPT ![a.user] = a.value]
      BY <1>1 DEF UserGood
    <2>4. ~calls[i].live => ~Clean(past')
      BY <2>1 DEF Write, Clean
    <2>5. UserDue(calls[i], hooks, server) => list = rows.users
      BY <2>1, <2>2, <2>3 DEF UserDue, Unanswered
    <2>6. calls'[i].arg = a /\ calls'[i].op = "patchUser" /\ calls'[i].resource = calls[i].resource
          /\ calls'[i].reply.status = "ok"
      BY <2>1, <2>2 DEF Answered, Ok
    <2> HIDE DEF rows
    <2>7. UserDue(calls[i], hooks, server) => UserDue(calls'[i], hooks, server')
      BY <2>1, <2>2, <2>5, <2>6 DEF UserDue
    <2>8. UsersInv'
      BY <2>2, <2>3, <2>4, <2>7, UserAnswered
    <2> QED BY <2>2, <2>8
  <1> QED BY <1>2, <1>3, <1>4, <1>5, <1>6, UsersOnly

\* The calls that someone waits for, when one is taken out.
LEMMA AwaitedEnds ==
  ASSUME NEW new, NEW old, NEW i \in Nat, TakenOut(new, old, i), NEW op
  PROVE  /\ \A k \in Awaited(new, op) : Slot(k, i) \in Awaited(old, op) \ {i} /\ Alike(new[k], old[Slot(k, i)])
         /\ \A j, k \in Awaited(new, op) : Slot(j, i) = Slot(k, i) => j = k
         /\ \A j \in Awaited(old, op) \ {i} : \E k \in Awaited(new, op) : Alike(new[k], old[j])
  <1>1. DOMAIN new \subseteq Nat
    BY DEF TakenOut
  <1>2. /\ \A k \in DOMAIN new : Slot(k, i) \in DOMAIN old \ {i} /\ Alike(new[k], old[Slot(k, i)])
        /\ \A j, k \in DOMAIN new : Slot(j, i) = Slot(k, i) => j = k
        /\ \A j \in DOMAIN old \ {i} : \E k \in DOMAIN new : Alike(new[k], old[j])
    BY <1>1, Remaining
  <1> QED BY <1>2 DEF Awaited, Alike

\* When one is made.
LEMMA AwaitedMade ==
  ASSUME NEW new, NEW old, NEW c, Made(new, old, c), c.live
  PROVE  /\ \E n : /\ n \notin DOMAIN old /\ new[n] = c
                   /\ Awaited(new, c.op) = Awaited(old, c.op) \union {n}
         /\ \A op : op # c.op => Awaited(new, op) = Awaited(old, op)
         /\ \A k \in DOMAIN old : new[k] = old[k]
  <1>1. PICK n \in Nat \ DOMAIN old :
          /\ DOMAIN new = DOMAIN old \union {n} /\ new[n] = c /\ \A k \in DOMAIN old : new[k] = old[k]
    BY DEF Made, Extended
  <1>2. Awaited(new, c.op) = Awaited(old, c.op) \union {n}
    BY <1>1 DEF Awaited
  <1>3. \A op : op # c.op => Awaited(new, op) = Awaited(old, op)
    BY <1>1 DEF Awaited
  <1> QED BY <1>1, <1>2, <1>3

\* When one is answered.
LEMMA AwaitedAnswered ==
  ASSUME NEW new, NEW old, NEW i, NEW r, Answered(new, old, i, r)
  PROVE  \A op : Awaited(new, op) = Awaited(old, op)
  BY DEF Awaited, Answered

(* Notifications: what is marked on the screen is marked at the back end *)

\* Item n is shown as it is, or as it will be.
Truly(m, n, cs, have) ==
  \/ m[n] = have[n]
  \/ m[n] = "read" /\ \E k \in Awaited(cs, "markRead") : cs[k].reply.status # "ok" /\ n \in cs[k].arg

\* A fetch is awaited alone, before there is anything to mark.
NoticeOrder(m, cs, have) ==
  /\ DOMAIN m \subseteq DOMAIN have
  /\ \A k \in Awaited(cs, "notices") :
       cs[k].resource = "notices" /\ (cs[k].reply.status = "ok" => cs[k].reply.value = have)
  /\ \A j, k \in Awaited(cs, "notices") : j = k
  /\ Awaited(cs, "notices") # {} => DOMAIN m = {} /\ Awaited(cs, "markRead") = {}
  /\ \A k \in Awaited(cs, "markRead") :
       cs[k].resource = "none" /\ \A n \in DOMAIN m : n \in cs[k].arg => m[n] = "read"
  /\ \A n \in DOMAIN m : Truly(m, n, cs, have)

NoticeGood(h, cs, rows, p) ==
  /\ {"items", "loading"} \subseteq DOMAIN h
  /\ DOMAIN rows = {"notices", "sessions"} /\ DOMAIN rows.notices = Notices
  /\ Clean(p) => NoticeOrder(h.items, cs, rows.notices)

NoticesInv == screen = "notifications" => NoticeGood(hooks, calls, server, past)

\* A call comes back.
LEMMA NoticeSettles ==
  ASSUME Base, NoticesInv, screen = "notifications", NEW i \in DOMAIN calls, NEW h, Resolve(i, h, <<>>),
         DOMAIN h = DOMAIN hooks, calls[i].reply.status \in {"ok", "failed"},
         calls[i].op = "notices" => (calls[i].reply.status = "ok" => h.items = calls[i].reply.value),
         calls[i].op # "notices" => calls[i].op = "markRead" /\ h.items = hooks.items
  PROVE  NoticesInv' /\ screen' = screen
  <1>1. Ended(calls', calls, i) /\ Settled(i, h)
    BY ResolveEnds
  <1>2. TakenOut(calls', calls, i) /\ i \in Nat
    BY <1>1 DEF Ended, TakenOut
  <1>3. NoticeGood(hooks, calls, server, past)
    BY DEF NoticesInv
  <1> DEFINE m == hooks.items
             have == server.notices
             N == Awaited(calls, "notices")
             M == Awaited(calls, "markRead")
  <1>4. ASSUME Clean(past') PROVE NoticeOrder(hooks'.items, calls', have)
    <2>1. Clean(past) /\ (calls[i].live => calls[i].reply.status = "ok")
      BY <1>1, <1>4 DEF Settled, Clean
    <2>2. NoticeOrder(m, calls, have)
      BY <1>3, <2>1 DEF NoticeGood
    <2>3. \A op : /\ \A k \in Awaited(calls', op) : Slot(k, i) \in Awaited(calls, op) \ {i} /\ Alike(calls'[k], calls[Slot(k, i)])
                  /\ \A j, k \in Awaited(calls', op) : Slot(j, i) = Slot(k, i) => j = k
                  /\ \A j \in Awaited(calls, op) \ {i} : \E k \in Awaited(calls', op) : Alike(calls'[k], calls[j])
      BY <1>2, AwaitedEnds
    <2>4. CASE i \in N
      <3>1. calls[i].live /\ calls[i].op = "notices" /\ hooks' = h
        BY <1>1, <2>4 DEF Settled, Awaited
      <3>2. hooks'.items = have
        BY <2>1, <2>2, <2>4, <3>1 DEF NoticeOrder
      <3>3. Awaited(calls', "notices") = {} /\ Awaited(calls', "markRead") = {}
        BY <2>2, <2>3, <2>4 DEF NoticeOrder
      <3> QED BY <3>2, <3>3 DEF NoticeOrder, Truly
    <2>5. CASE i \notin N
      <3>1. hooks'.items = m
        BY <1>1, <2>5 DEF Settled, Awaited
      <3>2. i \in M => calls[i].reply.status = "ok"
        BY <2>1 DEF Awaited
      <3>3. ASSUME NEW n \in DOMAIN m PROVE Truly(m, n, calls', have)
        <4>1. Truly(m, n, calls, have)
          BY <2>2 DEF NoticeOrder
        <4>2. ASSUME NEW j \in M, calls[j].reply.status # "ok", n \in calls[j].arg
              PROVE  \E k \in Awaited(calls', "markRead") : calls'[k].reply.status # "ok" /\ n \in calls'[k].arg
          <5>1. PICK k \in Awaited(calls', "markRead") : Alike(calls'[k], calls[j])
            BY <2>3, <3>2, <4>2
          <5> QED BY <4>2, <5>1 DEF Alike
        <4> QED BY <4>1, <4>2 DEF Truly
      <3>4. /\ \A k \in Awaited(calls', "notices") :
                 calls'[k].resource = "notices" /\ (calls'[k].reply.status = "ok" => calls'[k].reply.value = have)
            /\ \A j, k \in Awaited(calls', "notices") : j = k
            /\ Awaited(calls', "notices") # {} => DOMAIN m = {} /\ Awaited(calls', "markRead") = {}
        BY <2>2, <2>3 DEF NoticeOrder, Alike
      <3>5. \A k \in Awaited(calls', "markRead") :
              calls'[k].resource = "none" /\ \A n \in DOMAIN m : n \in calls'[k].arg => m[n] = "read"
        BY <2>2, <2>3 DEF NoticeOrder, Alike
      <3>6. DOMAIN m \subseteq DOMAIN have
        BY <2>2 DEF NoticeOrder
      <3> QED BY <3>1, <3>3, <3>4, <3>5, <3>6 DEF NoticeOrder
    <2> QED BY <2>4, <2>5
  <1> QED BY <1>1, <1>3, <1>4 DEF NoticesInv, NoticeGood, Settled

\* The server reads, refuses or loses.
LEMMA NoticeAnswers ==
  ASSUME NoticesInv, screen = "notifications", NEW i \in DOMAIN calls, NEW r, Answered(calls', calls, i, r),
         UNCHANGED <<screen, hooks, server, past>>,
         r.status = "ok" => calls[i].resource \in DOMAIN server /\ r.value = server[calls[i].resource]
  PROVE  NoticesInv'
  <1>1. NoticeGood(hooks, calls, server, past)
    BY DEF NoticesInv
  <1> DEFINE m == hooks.items
             have == server.notices
  <1>2. ASSUME NoticeOrder(m, calls, have) PROVE NoticeOrder(m, calls', have)
    <2>1. \A op : Awaited(calls', op) = Awaited(calls, op)
      BY AwaitedAnswered
    <2>2. \A k \in DOMAIN calls : /\ k # i => calls'[k] = calls[k]
                                  /\ calls'[k].resource = calls[k].resource /\ calls'[k].arg = calls[k].arg
                                  /\ k = i => calls'[k].reply = r
      BY DEF Answered
    <2>3. \A op : Awaited(calls, op) \subseteq DOMAIN calls
      BY DEF Awaited
    <2>4. i \in Awaited(calls, "markRead") => r.status # "ok"
      BY <1>1, <1>2 DEF NoticeOrder, NoticeGood
    <2>5. i \in Awaited(calls, "notices") => (r.status = "ok" => r.value = have)
      BY <1>2 DEF NoticeOrder
    <2>6. \A n \in DOMAIN m : Truly(m, n, calls', have)
      BY <1>2, <2>1, <2>2, <2>3, <2>4 DEF NoticeOrder, Truly
    <2>7. \A k \in Awaited(calls, "notices") :
            calls'[k].resource = "notices" /\ (calls'[k].reply.status = "ok" => calls'[k].reply.value = have)
      BY <1>2, <2>2, <2>3, <2>5 DEF NoticeOrder
    <2>8. \A k \in Awaited(calls, "markRead") :
            calls'[k].resource = "none" /\ \A n \in DOMAIN m : n \in calls'[k].arg => m[n] = "read"
      BY <1>2, <2>2, <2>3 DEF NoticeOrder
    <2> QED BY <1>2, <2>1, <2>6, <2>7, <2>8 DEF NoticeOrder
  <1> QED BY <1>1, <1>2 DEF NoticesInv, NoticeGood

\* Items are marked on the screen, and at the back end soon.
LEMMA NoticeMarks ==
  ASSUME Base, NoticesInv, screen = "notifications", NEW ns, NEW marked, NEW d,
         SetAndSend([hooks EXCEPT !.items = marked], <<Post("markRead", d)>>),
         DOMAIN marked = DOMAIN hooks.items, DOMAIN hooks.items # {},
         \A n \in DOMAIN marked : marked[n] = IF n \in ns THEN "read" ELSE hooks.items[n],
         \A n \in Notices : n \in ns <=> n \in d
  PROVE  NoticesInv' /\ screen' = screen
  <1> DEFINE c == Post("markRead", d)
             h == [hooks EXCEPT !.items = marked]
             m == hooks.items
             have == server.notices
  <1>1. /\ Shape(c) /\ c.op = "markRead" /\ c.resource = "none" /\ c.arg = d
        /\ c.live /\ c.reply.status = "waiting"
    BY PostShape
  <1>2. hooks' = h /\ Send(<<c>>) /\ UNCHANGED <<screen, server, past>>
    BY Zenon DEF SetAndSend
  <1> HIDE DEF c
  <1>3. screen \in Home(c.op) /\ Job(c) \notin Writes /\ past' \subseteq Pasts
    BY <1>1, <1>2, HomeFacts DEF Job, Writes, Base
  <1>4. Made(calls', calls, c)
    BY <1>1, <1>2, <1>3, SendOne
  <1>5. NoticeGood(hooks, calls, server, past)
    BY DEF NoticesInv
  <1>6. h.items = marked /\ DOMAIN h = DOMAIN hooks
    BY <1>5 DEF NoticeGood
  <1>7. PICK n0 : /\ n0 \notin DOMAIN calls /\ calls'[n0] = c
                  /\ Awaited(calls', "markRead") = Awaited(calls, "markRead") \union {n0}
                  /\ Awaited(calls', "notices") = Awaited(calls, "notices")
                  /\ \A k \in DOMAIN calls : calls'[k] = calls[k]
    BY <1>1, <1>4, AwaitedMade
  <1> HIDE DEF h
  <1>8. ASSUME NoticeOrder(m, calls, have) PROVE NoticeOrder(marked, calls', have)
    <2>1. Awaited(calls, "markRead") \subseteq DOMAIN calls /\ Awaited(calls, "notices") \subseteq DOMAIN calls
      BY DEF Awaited
    <2>2. DOMAIN m \subseteq Notices /\ Awaited(calls, "notices") = {}
      BY <1>5, <1>8 DEF NoticeOrder, NoticeGood
    <2>3. \A k \in Awaited(calls', "markRead") :
            calls'[k].resource = "none" /\ \A n \in DOMAIN marked : n \in calls'[k].arg => marked[n] = "read"
      BY <1>1, <1>7, <1>8, <2>1, <2>2 DEF NoticeOrder
    <2>4. ASSUME NEW n \in DOMAIN marked PROVE Truly(marked, n, calls', have)
      <3>1. CASE n \in ns
        BY <1>1, <1>7, <2>2, <3>1 DEF Truly
      <3>2. CASE n \notin ns
        <4>1. Truly(m, n, calls, have) /\ marked[n] = m[n]
          BY <1>8, <3>2 DEF NoticeOrder
        <4> QED BY <1>7, <2>1, <4>1 DEF Truly
      <3> QED BY <3>1, <3>2
    <2> QED BY <1>7, <1>8, <2>2, <2>3, <2>4 DEF NoticeOrder
  <1> QED BY <1>2, <1>5, <1>6, <1>8 DEF NoticesInv, NoticeGood

\* Some items are still shown, as they were.
LEMMA NoticeKeeps ==
  ASSUME NoticesInv, screen = "notifications", UNCHANGED <<screen, calls, server, past>>,
         DOMAIN hooks' = DOMAIN hooks, DOMAIN hooks'.items \subseteq DOMAIN hooks.items,
         \A n \in DOMAIN hooks'.items : hooks'.items[n] = hooks.items[n]
  PROVE  NoticesInv' /\ screen' = screen
  <1>1. NoticeGood(hooks, calls, server, past)
    BY DEF NoticesInv
  <1>2. NoticeOrder(hooks.items, calls, server.notices) => NoticeOrder(hooks'.items, calls, server.notices)
    BY DEF NoticeOrder, Truly
  <1> QED BY <1>1, <1>2 DEF NoticesInv, NoticeGood

\* Every step of Notifications keeps its list right.
LEMMA NoticesFresh ==
  ASSUME Base, NoticesInv, screen = "notifications", CustomerNext PROVE NoticesInv' /\ screen' = screen
  <1>1. NoticeGood(hooks, calls, server, past)
    BY DEF NoticesInv
  <1>2. CASE NoticesMount
    <2> DEFINE c == Get("notices", "notices")
    <2>1. Shape(c) /\ c.op = "notices" /\ c.resource = "notices" /\ c.live /\ c.reply.status = "waiting"
      BY GetShape
    <2>2. MountWith("notifications", NoticesState, <<c>>, <<>>)
      BY <1>2, Zenon DEF NoticesMount, Mount
    <2> HIDE DEF c
    <2>3. "notifications" \in Home(c.op) /\ Job(c) \notin Writes /\ SameFamily(screen, "notifications")
      BY <2>1, HomeFacts DEF Job, Writes, SameFamily
    <2>4. /\ \E mid : Dropped(mid, calls) /\ Made(calls', mid, c)
          /\ screen' = "notifications" /\ hooks' = NoticesState /\ server' = server
      BY <2>1, <2>2, <2>3, OpenSends
    <2>5. PICK mid : Dropped(mid, calls) /\ Made(calls', mid, c)
      BY <2>4
    <2>6. \A op : Awaited(mid, op) = {}
      BY <2>5 DEF Dropped, Awaited
    <2>7. PICK n : calls'[n] = c /\ Awaited(calls', "notices") = {n} /\ Awaited(calls', "markRead") = {}
      BY <2>1, <2>5, <2>6, AwaitedMade
    <2>8. {"items", "loading"} \subseteq DOMAIN NoticesState /\ DOMAIN NoticesState.items = {}
      BY DEF NoticesState
    <2>9. NoticeOrder(NoticesState.items, calls', server.notices)
      BY <2>1, <2>7, <2>8 DEF NoticeOrder
    <2> QED BY <1>1, <2>4, <2>8, <2>9 DEF NoticesInv, NoticeGood
  <1>3. ASSUME NEW n, MarkRead(n) PROVE NoticesInv' /\ screen' = screen
    <2> DEFINE v == MarkedRead(hooks.items, {n})
    <2>1. SetAndSend([hooks EXCEPT !.items = v], <<Post("markRead", {n})>>)
      BY <1>3, Zenon DEF MarkRead
    <2>2. n \in DOMAIN hooks.items
      BY <1>3 DEF MarkRead, NoticesShown
    <2>3. DOMAIN v = DOMAIN hooks.items /\ \A k \in DOMAIN v : v[k] = IF k \in {n} THEN "read" ELSE hooks.items[k]
      BY DEF MarkedRead
    <2> HIDE DEF v
    <2> QED BY <2>1, <2>2, <2>3, NoticeMarks
  <1>4. CASE MarkAllRead
    <2> DEFINE v == MarkedRead(hooks.items, DOMAIN hooks.items)
               ns == DOMAIN hooks.items \union Notices
    <2>1. SetAndSend([hooks EXCEPT !.items = v], <<Post("markRead", Notices)>>)
      BY <1>4, Zenon DEF MarkAllRead
    <2>2. DOMAIN hooks.items # {}
      BY <1>4 DEF MarkAllRead, Unread
    <2>3. DOMAIN v = DOMAIN hooks.items /\ \A k \in DOMAIN v : v[k] = IF k \in ns THEN "read" ELSE hooks.items[k]
      BY DEF MarkedRead
    <2>4. \A k \in Notices : k \in ns <=> k \in Notices
      OBVIOUS
    <2> HIDE DEF v, ns
    <2> QED BY <2>1, <2>2, <2>3, <2>4, NoticeMarks
  <1>5. ASSUME NEW n, NoticeDelete(n) PROVE NoticesInv' /\ screen' = screen
    <2> DEFINE v == [k \in DOMAIN hooks.items \ {n} |-> hooks.items[k]]
    <2>1. hooks' = [hooks EXCEPT !.items = v] /\ UNCHANGED <<screen, calls, server, past>>
      BY <1>5, Zenon DEF NoticeDelete, Set
    <2>2. DOMAIN v \subseteq DOMAIN hooks.items /\ \A k \in DOMAIN v : v[k] = hooks.items[k]
      OBVIOUS
    <2> HIDE DEF v
    <2>3. hooks'.items = v /\ DOMAIN hooks' = DOMAIN hooks
      BY <1>1, <2>1 DEF NoticeGood
    <2> QED BY <2>1, <2>2, <2>3, NoticeKeeps
  <1>6. CASE NoticesClear
    <2>1. hooks' = [hooks EXCEPT !.items = <<>>] /\ UNCHANGED <<screen, calls, server, past>>
      BY <1>6, Zenon DEF NoticesClear, Set
    <2>2. hooks'.items = <<>> /\ DOMAIN hooks' = DOMAIN hooks
      BY <1>1, <2>1 DEF NoticeGood
    <2> QED BY <2>1, <2>2, NoticeKeeps
  <1>7. ASSUME NEW t, NoticesTab(t) PROVE NoticesInv' /\ screen' = screen
    <2>1. hooks' = [hooks EXCEPT !.activeTab = t] /\ UNCHANGED <<screen, calls, server, past>>
      BY <1>7, Zenon DEF NoticesTab, Set
    <2>2. hooks'.items = hooks.items /\ DOMAIN hooks' = DOMAIN hooks
      BY <1>1, <2>1 DEF NoticeGood
    <2> QED BY <2>1, <2>2, NoticeKeeps
  <1>8. ASSUME NEW i \in DOMAIN calls, NoticesFetched(i) PROVE NoticesInv' /\ screen' = screen
    <2> DEFINE h == [hooks EXCEPT !.items = calls[i].reply.value, !.loading = FALSE]
               g == [hooks EXCEPT !.loading = FALSE]
    <2>1. /\ calls[i].op = "notices"
          /\ \/ calls[i].reply.status = "ok" /\ Resolve(i, h, <<>>)
             \/ calls[i].reply.status = "failed" /\ Resolve(i, g, <<>>)
      BY <1>8, Zenon DEF NoticesFetched, Back
    <2>2. DOMAIN h = DOMAIN hooks /\ DOMAIN g = DOMAIN hooks /\ h.items = calls[i].reply.value
      BY <1>1 DEF NoticeGood
    <2> HIDE DEF h, g
    <2> QED BY <2>1, <2>2, NoticeSettles
  <1>9. ASSUME NEW i \in DOMAIN calls, MarkAnswered(i) PROVE NoticesInv' /\ screen' = screen
    <2>1. calls[i].op = "markRead" /\ ~Unanswered(i) /\ Resolve(i, hooks, <<>>)
      BY <1>9, Zenon DEF MarkAnswered
    <2>2. calls[i].reply.status \in {"ok", "failed"}
      BY <2>1 DEF Unanswered, Base, Shaped, Shape
    <2> QED BY <2>1, <2>2, NoticeSettles
  <1>10. ASSUME NEW i \in DOMAIN calls, MarkServe(i) PROVE NoticesInv' /\ screen' = screen
    <2> DEFINE ns == calls[i].arg
               v == MarkedRead(server.notices, ns)
               rows == [server EXCEPT !.notices = v]
               m == hooks.items
    <2>1. calls[i].op = "markRead" /\ Write(i, "markRead", rows, NoValue)
      BY <1>10, Zenon DEF MarkServe
    <2>2. /\ Answered(calls', calls, i, Ok(NoValue)) /\ Unanswered(i) /\ server' = rows
          /\ UNCHANGED <<screen, hooks>> /\ past \subseteq past'
      BY <2>1, WriteOne
    <2>3. ~calls[i].live => ~Clean(past')
      BY <2>1 DEF Write, Clean
    <2>4. DOMAIN v = DOMAIN server.notices /\ \A n \in DOMAIN v : v[n] = IF n \in ns THEN "read" ELSE server.notices[n]
      BY DEF MarkedRead
    <2> HIDE DEF v
    <2>5. DOMAIN rows = DOMAIN server /\ rows.notices = v
      BY <1>1 DEF NoticeGood
    <2> HIDE DEF rows
    <2>6. ASSUME Clean(past') PROVE NoticeOrder(m, calls', v)
      <3>1. NoticeOrder(m, calls, server.notices)
        BY <1>1, <2>2, <2>6 DEF NoticeGood, Clean
      <3>2. i \in Awaited(calls, "markRead") /\ Awaited(calls, "notices") = {}
        BY <2>1, <2>3, <2>6, <3>1 DEF Awaited, NoticeOrder
      <3>3. \A op : Awaited(calls', op) = Awaited(calls, op)
        BY <2>2, AwaitedAnswered
      <3>4. Awaited(calls, "markRead") \subseteq DOMAIN calls
        BY DEF Awaited
      <3>5. \A k \in DOMAIN calls : /\ k # i => calls'[k] = calls[k]
                                    /\ calls'[k].resource = calls[k].resource /\ calls'[k].arg = calls[k].arg
        BY <2>2 DEF Answered
      <3>6. ASSUME NEW n \in DOMAIN m PROVE Truly(m, n, calls', v)
        <4>1. n \in DOMAIN v /\ Truly(m, n, calls, server.notices)
          BY <2>4, <3>1 DEF NoticeOrder
        <4>2. CASE n \in ns
          <5>1. m[n] = "read"
            BY <3>1, <3>2, <4>2 DEF NoticeOrder
          <5> QED BY <2>4, <4>1, <4>2, <5>1 DEF Truly
        <4>3. CASE n \notin ns
          <5>1. v[n] = server.notices[n]
            BY <2>4, <4>1, <4>3
          <5> QED BY <3>3, <3>4, <3>5, <4>1, <4>3, <5>1 DEF Truly
        <4> QED BY <4>2, <4>3
      <3>7. \A k \in Awaited(calls', "markRead") :
              calls'[k].resource = "none" /\ \A n \in DOMAIN m : n \in calls'[k].arg => m[n] = "read"
        BY <3>1, <3>3, <3>4, <3>5 DEF NoticeOrder
      <3>8. DOMAIN m \subseteq DOMAIN v /\ Awaited(calls', "notices") = {}
        BY <2>4, <3>1, <3>2, <3>3 DEF NoticeOrder
      <3> QED BY <3>6, <3>7, <3>8 DEF NoticeOrder
    <2> QED BY <1>1, <2>2, <2>4, <2>5, <2>6 DEF NoticesInv, NoticeGood
  <1>11. ASSUME NEW i \in DOMAIN calls PROVE ~SessionsFetched(i) /\ ~RevokeServe(i) /\ ~RevokeAnswered(i)
    <2>1. calls[i].op \notin {"fetchSessions", "revoke"}
      BY HomeFacts DEF Base, OwnCalls
    <2> QED BY <2>1 DEF SessionsFetched, RevokeServe, RevokeAnswered, Back
  <1>12. /\ ~CardFreeze /\ ~CardDetails /\ ~CardFlip /\ ~CardCreate /\ ~CardCopy /\ ~CardCopied
         /\ ~GoalForm /\ ~GoalCreate /\ ~ProfileToggle /\ ~SessionsRefresh
         /\ ~ChatTyped /\ ~ChatOpen /\ ~ChatSend /\ ~ChatReply
         /\ \A c : ~CardSelect(c)
    BY DEF CardFreeze, CardDetails, CardFlip, CardCreate, CardCopy, CardCopied, GoalForm, GoalCreate,
           ProfileToggle, SessionsRefresh, ProfileSends, ChatTyped, ChatOpen, ChatSend, ChatReply, CardSelect,
           Chats
  <1> QED BY <1>2, <1>3, <1>4, <1>5, <1>6, <1>7, <1>8, <1>9, <1>10, <1>11, <1>12 DEF CustomerNext, Chats

(* Profile: the sessions that are listed are those of the user *)

\* Session s is revoked at the back end and not yet taken from the list.
Gone(s, cs) ==
  \E k \in Awaited(cs, "revoke") : cs[k].reply.status = "ok" /\ s \in Revoked(cs[k].arg)

\* The list is fetched, or a revocation has failed, or the list is right but for
\* the sessions whose revocation has not come back.
SessionsOrder(listed, cs, have) ==
  /\ Awaited(cs, "fetchSessions") = {} \/ Awaited(cs, "revoke") = {}
  /\ \A k \in Awaited(cs, "fetchSessions") :
       cs[k].resource = "sessions" /\ (cs[k].reply.status = "ok" => cs[k].reply.value = have)
  /\ \A k \in Awaited(cs, "revoke") : cs[k].resource = "none"
  /\ \/ Awaited(cs, "fetchSessions") # {}
     \/ \E k \in Awaited(cs, "revoke") : cs[k].reply.status = "failed"
     \/ \A s : s \in have <=> s \in listed /\ ~Gone(s, cs)

SessionFields == {"sessions", "sessionsLoading", "sessionsError", "revokingId", "revokingAll", "mfaEnabled"}

SessionsGood(h, cs, rows, p) ==
  /\ SessionFields \subseteq DOMAIN h
  /\ DOMAIN rows = {"notices", "sessions"}
  /\ Clean(p) => SessionsOrder(h.sessions, cs, rows.sessions)

SessionsInv == screen = "profile" => SessionsGood(hooks, calls, server, past)

\* A call comes back.
LEMMA SessionsSettle ==
  ASSUME Base, SessionsInv, screen = "profile", NEW i \in DOMAIN calls, NEW h, Resolve(i, h, <<>>),
         SessionFields \subseteq DOMAIN h, calls[i].reply.status \in {"ok", "failed"},
         calls[i].op = "fetchSessions" => (calls[i].reply.status = "ok" => h.sessions = calls[i].reply.value),
         calls[i].op # "fetchSessions" =>
           /\ calls[i].op = "revoke"
           /\ calls[i].reply.status = "ok" => h.sessions = hooks.sessions \ Revoked(calls[i].arg)
  PROVE  SessionsInv' /\ screen' = screen
  <1>1. Ended(calls', calls, i) /\ Settled(i, h)
    BY ResolveEnds
  <1>2. TakenOut(calls', calls, i) /\ i \in Nat
    BY <1>1 DEF Ended, TakenOut
  <1>3. SessionsGood(hooks, calls, server, past)
    BY DEF SessionsInv
  <1> DEFINE listed == hooks.sessions
             have == server.sessions
             F == Awaited(calls, "fetchSessions")
             R == Awaited(calls, "revoke")
  <1>4. ASSUME Clean(past') PROVE SessionsOrder(hooks'.sessions, calls', have)
    <2>1. Clean(past) /\ (calls[i].live => calls[i].reply.status = "ok")
      BY <1>1, <1>4 DEF Settled, Clean
    <2>2. SessionsOrder(listed, calls, have)
      BY <1>3, <2>1 DEF SessionsGood
    <2>3. \A op : /\ \A k \in Awaited(calls', op) : Slot(k, i) \in Awaited(calls, op) \ {i} /\ Alike(calls'[k], calls[Slot(k, i)])
                  /\ \A j \in Awaited(calls, op) \ {i} : \E k \in Awaited(calls', op) : Alike(calls'[k], calls[j])
      BY <1>2, AwaitedEnds
    <2>4. /\ Awaited(calls', "fetchSessions") = {} \/ Awaited(calls', "revoke") = {}
          /\ \A k \in Awaited(calls', "fetchSessions") :
               calls'[k].resource = "sessions" /\ (calls'[k].reply.status = "ok" => calls'[k].reply.value = have)
          /\ \A k \in Awaited(calls', "revoke") : calls'[k].resource = "none"
      BY <2>2, <2>3 DEF SessionsOrder, Alike
    <2>5. \A s : Gone(s, calls') => Gone(s, calls)
      BY <2>3 DEF Gone, Alike
    <2>6. \A s : Gone(s, calls) => Gone(s, calls') \/ (i \in R /\ s \in Revoked(calls[i].arg))
      BY <2>3 DEF Gone, Alike
    <2>7. CASE i \in F
      <3>1. calls[i].live /\ calls[i].op = "fetchSessions" /\ hooks' = h
        BY <1>1, <2>7 DEF Settled, Awaited
      <3>2. hooks'.sessions = have
        BY <2>1, <2>2, <2>7, <3>1 DEF SessionsOrder
      <3>3. \A s : ~Gone(s, calls')
        BY <2>2, <2>5, <2>7 DEF SessionsOrder, Gone
      <3> QED BY <2>4, <3>2, <3>3 DEF SessionsOrder
    <2>8. CASE i \in R
      <3>1. calls[i].live /\ calls[i].op # "fetchSessions" /\ calls[i].reply.status = "ok" /\ hooks' = h
        BY <1>1, <2>1, <2>8 DEF Settled, Awaited
      <3>2. hooks'.sessions = listed \ Revoked(calls[i].arg)
        BY <3>1
      <3>3. CASE \E k \in R : calls[k].reply.status = "failed"
        <4>1. PICK k \in R : calls[k].reply.status = "failed"
          BY <3>3
        <4>2. k # i
          BY <3>1, <4>1
        <4>3. PICK m \in Awaited(calls', "revoke") : Alike(calls'[m], calls[k])
          BY <2>3, <4>1, <4>2
        <4> QED BY <2>4, <4>1, <4>3 DEF SessionsOrder, Alike
      <3>4. CASE \A s : s \in have <=> s \in listed /\ ~Gone(s, calls)
        <4>1. \A s \in Revoked(calls[i].arg) : Gone(s, calls)
          BY <2>8, <3>1 DEF Gone
        <4>2. \A s : s \in have <=> s \in hooks'.sessions /\ ~Gone(s, calls')
          BY <2>5, <2>6, <3>2, <3>4, <4>1
        <4> QED BY <2>4, <4>2 DEF SessionsOrder
      <3> QED BY <2>2, <2>8, <3>3, <3>4 DEF SessionsOrder
    <2>9. CASE i \notin F /\ i \notin R
      <3>1. hooks'.sessions = listed
        BY <1>1, <2>9 DEF Settled, Awaited
      <3>2. \A s : Gone(s, calls') <=> Gone(s, calls)
        BY <2>5, <2>6, <2>9
      <3>3. \/ Awaited(calls', "fetchSessions") # {}
            \/ \E k \in Awaited(calls', "revoke") : calls'[k].reply.status = "failed"
            \/ \A s : s \in have <=> s \in listed /\ ~Gone(s, calls)
        BY <2>2, <2>3, <2>9 DEF SessionsOrder, Alike
      <3> QED BY <2>4, <3>1, <3>2, <3>3 DEF SessionsOrder
    <2> QED BY <2>7, <2>8, <2>9
  <1>5. SessionFields \subseteq DOMAIN hooks'
    BY <1>1, <1>3 DEF Settled, SessionsGood
  <1> QED BY <1>1, <1>3, <1>4, <1>5 DEF SessionsInv, SessionsGood, Settled

\* The server reads, refuses or loses.
LEMMA SessionsAnswers ==
  ASSUME SessionsInv, screen = "profile", NEW i \in DOMAIN calls, NEW r, Answered(calls', calls, i, r),
         UNCHANGED <<screen, hooks, server, past>>, r.status \in {"ok", "failed"},
         r.status = "ok" => calls[i].resource \in DOMAIN server /\ r.value = server[calls[i].resource]
  PROVE  SessionsInv'
  <1>1. SessionsGood(hooks, calls, server, past)
    BY DEF SessionsInv
  <1> DEFINE listed == hooks.sessions
             have == server.sessions
  <1>2. ASSUME SessionsOrder(listed, calls, have) PROVE SessionsOrder(listed, calls', have)
    <2>1. \A op : Awaited(calls', op) = Awaited(calls, op)
      BY AwaitedAnswered
    <2>2. \A k \in DOMAIN calls : /\ k # i => calls'[k] = calls[k]
                                  /\ calls'[k].resource = calls[k].resource /\ calls'[k].arg = calls[k].arg
                                  /\ k = i => calls'[k].reply = r
      BY DEF Answered
    <2>3. \A op : Awaited(calls, op) \subseteq DOMAIN calls
      BY DEF Awaited
    <2>4. i \in Awaited(calls, "revoke") => r.status = "failed"
      BY <1>1, <1>2 DEF SessionsOrder, SessionsGood
    <2>5. i \in Awaited(calls, "fetchSessions") => (r.status = "ok" => r.value = have)
      BY <1>2 DEF SessionsOrder
    <2>6. \A k \in Awaited(calls, "fetchSessions") :
            calls'[k].resource = "sessions" /\ (calls'[k].reply.status = "ok" => calls'[k].reply.value = have)
      BY <1>2, <2>2, <2>3, <2>5 DEF SessionsOrder
    <2>7. \A k \in Awaited(calls, "revoke") : calls'[k].resource = "none"
      BY <1>2, <2>2, <2>3 DEF SessionsOrder
    <2>8. CASE i \in Awaited(calls, "revoke")
      <3>1. calls'[i].reply.status = "failed"
        BY <2>2, <2>4, <2>8
      <3> QED BY <1>2, <2>1, <2>6, <2>7, <2>8, <3>1 DEF SessionsOrder
    <2>9. CASE i \notin Awaited(calls, "revoke")
      <3>1. \A k \in Awaited(calls, "revoke") : calls'[k] = calls[k]
        BY <2>2, <2>3, <2>9
      <3>2. \A s : Gone(s, calls') <=> Gone(s, calls)
        BY <2>1, <3>1 DEF Gone
      <3> QED BY <1>2, <2>1, <2>6, <2>7, <3>1, <3>2 DEF SessionsOrder
    <2> QED BY <2>8, <2>9
  <1> QED BY <1>1, <1>2 DEF SessionsInv, SessionsGood

\* The list is asked for, or sessions are revoked.
LEMMA SessionsAsked ==
  ASSUME Base, SessionsInv, screen = "profile", NEW h, NEW c, NEW other, ProfileSends(h, <<c>>, other),
         Shape(c), c.live, c.reply.status = "waiting", SessionFields \subseteq DOMAIN h, h.sessions = hooks.sessions,
         Job(c) \notin Writes \/ ~Working(calls, Job(c)),
         \/ c.op = "fetchSessions" /\ c.resource = "sessions" /\ other = "revoke"
         \/ c.op = "revoke" /\ c.resource = "none" /\ other = "fetchSessions"
  PROVE  SessionsInv' /\ screen' = screen
  <1>1. /\ hooks' = h /\ Send(<<c>>) /\ UNCHANGED <<screen, server>>
        /\ past' = IF InFlight(other) # {} THEN past \union {"overlapped"} ELSE past
    BY Zenon DEF ProfileSends
  <1>2. past' \subseteq Pasts /\ screen \in Home(c.op)
    BY <1>1, HomeFacts DEF Base, Pasts
  <1>3. Made(calls', calls, c)
    BY <1>1, <1>2, SendOne
  <1>4. SessionsGood(hooks, calls, server, past)
    BY DEF SessionsInv
  <1>5. PICK n : /\ n \notin DOMAIN calls /\ calls'[n] = c
                 /\ Awaited(calls', c.op) = Awaited(calls, c.op) \union {n}
                 /\ \A op : op # c.op => Awaited(calls', op) = Awaited(calls, op)
                 /\ \A k \in DOMAIN calls : calls'[k] = calls[k]
    BY <1>3, AwaitedMade
  <1> DEFINE listed == hooks.sessions
             have == server.sessions
  <1>6. ASSUME Clean(past') PROVE SessionsOrder(listed, calls', have)
    <2>1. Clean(past) /\ Awaited(calls, other) = {}
      BY <1>1, <1>6 DEF Clean, InFlight, Awaited
    <2>2. SessionsOrder(listed, calls, have)
      BY <1>4, <2>1 DEF SessionsGood
    <2>3. \A op : Awaited(calls, op) \subseteq DOMAIN calls
      BY DEF Awaited
    <2>4. CASE c.op = "fetchSessions"
      <3>1. Awaited(calls', "revoke") = {}
        BY <1>5, <2>1, <2>4
      <3>2. \A k \in Awaited(calls', "fetchSessions") :
              calls'[k].resource = "sessions" /\ (calls'[k].reply.status = "ok" => calls'[k].reply.value = have)
        BY <1>5, <2>2, <2>3, <2>4 DEF SessionsOrder
      <3> QED BY <1>5, <2>4, <3>1, <3>2 DEF SessionsOrder
    <2>5. CASE c.op = "revoke"
      <3>1. Awaited(calls', "fetchSessions") = {} /\ Awaited(calls, "fetchSessions") = {}
        BY <1>5, <2>1, <2>5
      <3>2. \A k \in Awaited(calls', "revoke") : calls'[k].resource = "none"
        BY <1>5, <2>2, <2>3, <2>5 DEF SessionsOrder
      <3>3. \A s : Gone(s, calls') <=> Gone(s, calls)
        BY <1>5, <2>3, <2>5 DEF Gone
      <3>4. \A k \in Awaited(calls, "revoke") : k \in Awaited(calls', "revoke") /\ calls'[k] = calls[k]
        BY <1>5, <2>3, <2>5
      <3> QED BY <2>2, <3>1, <3>2, <3>3, <3>4 DEF SessionsOrder
    <2> QED BY <2>4, <2>5
  <1> QED BY <1>1, <1>4, <1>6 DEF SessionsInv, SessionsGood

\* Every step of Profile keeps its list right.
LEMMA SessionsFresh ==
  ASSUME Base, SessionsInv, ProfileInv, screen = "profile", CustomerNext PROVE SessionsInv' /\ screen' = screen
  <1>1. SessionsGood(hooks, calls, server, past) /\ SessionFields \subseteq DOMAIN hooks
    BY DEF SessionsInv, SessionsGood
  <1>2. CASE ProfileMount
    <2> DEFINE c == Get("fetchSessions", "sessions")
    <2>1. Shape(c) /\ c.op = "fetchSessions" /\ c.resource = "sessions" /\ c.live /\ c.reply.status = "waiting"
      BY GetShape
    <2>2. MountWith("profile", ProfileState, <<c>>, <<>>)
      BY <1>2, Zenon DEF ProfileMount, Mount, FetchSessions
    <2> HIDE DEF c
    <2>3. "profile" \in Home(c.op) /\ Job(c) \notin Writes /\ SameFamily(screen, "profile")
      BY <2>1, HomeFacts DEF Job, Writes, SameFamily
    <2>4. /\ \E mid : Dropped(mid, calls) /\ Made(calls', mid, c)
          /\ screen' = "profile" /\ hooks' = ProfileState /\ server' = server
      BY <2>1, <2>2, <2>3, OpenSends
    <2>5. PICK mid : Dropped(mid, calls) /\ Made(calls', mid, c)
      BY <2>4
    <2>6. \A op : Awaited(mid, op) = {}
      BY <2>5 DEF Dropped, Awaited
    <2>7. PICK n : calls'[n] = c /\ Awaited(calls', "fetchSessions") = {n} /\ Awaited(calls', "revoke") = {}
      BY <2>1, <2>5, <2>6, AwaitedMade
    <2>8. SessionFields \subseteq DOMAIN ProfileState
      BY DEF ProfileState, SessionFields
    <2>9. SessionsOrder(ProfileState.sessions, calls', server.sessions)
      BY <2>1, <2>7 DEF SessionsOrder
    <2> QED BY <1>1, <2>4, <2>8, <2>9 DEF SessionsInv, SessionsGood
  <1>3. CASE ProfileToggle
    <2> DEFINE h == [hooks EXCEPT !.mfaEnabled = ~@]
    <2>1. hooks' = h /\ UNCHANGED <<screen, calls, server, past>>
      BY <1>3, Zenon DEF ProfileToggle, Set
    <2>2. SessionFields \subseteq DOMAIN h /\ h.sessions = hooks.sessions
      BY <1>1 DEF SessionFields
    <2> HIDE DEF h
    <2> QED BY <1>1, <2>1, <2>2 DEF SessionsInv, SessionsGood
  <1>4. CASE SessionsRefresh
    <2> DEFINE h == [hooks EXCEPT !.sessionsError = FALSE]
               c == Get("fetchSessions", "sessions")
    <2>1. /\ ProfileSends(h, <<c>>, "revoke") /\ Shape(c) /\ c.live /\ c.op = "fetchSessions"
          /\ c.resource = "sessions" /\ c.reply.status = "waiting"
      BY <1>4, GetShape DEF SessionsRefresh, FetchSessions
    <2>2. SessionFields \subseteq DOMAIN h /\ h.sessions = hooks.sessions
      BY <1>1 DEF SessionFields
    <2> HIDE DEF h, c
    <2>3. Job(c) \notin Writes
      BY <2>1 DEF Job, Writes
    <2> QED BY <2>1, <2>2, <2>3, SessionsAsked
  <1>5. ASSUME NEW s \in OtherSessions, SessionRevoke(s) PROVE SessionsInv' /\ screen' = screen
    <2> DEFINE h == [hooks EXCEPT !.revokingId = s]
               c == Post("revoke", s)
    <2>1. /\ ProfileSends(h, <<c>>, "fetchSessions") /\ Shape(c) /\ c.live /\ c.op = "revoke" /\ c.arg = s
          /\ c.resource = "none" /\ c.reply.status = "waiting"
      BY <1>5, PostShape DEF SessionRevoke
    <2>2. SessionFields \subseteq DOMAIN h /\ h.sessions = hooks.sessions
      BY <1>1 DEF SessionFields
    <2> HIDE DEF h, c
    <2>3. Job(c) \notin Writes
      BY <2>1, NoticesAssumption DEF Job, Writes
    <2> QED BY <2>1, <2>2, <2>3, SessionsAsked
  <1>6. CASE SessionRevokeAll
    <2> DEFINE h == [hooks EXCEPT !.revokingAll = TRUE]
               c == Post("revoke", "all")
    <2>1. /\ ProfileSends(h, <<c>>, "fetchSessions") /\ Shape(c) /\ c.live /\ c.op = "revoke" /\ c.arg = "all"
          /\ c.resource = "none" /\ c.reply.status = "waiting" /\ ~hooks.revokingAll
      BY <1>6, PostShape DEF SessionRevokeAll
    <2>2. SessionFields \subseteq DOMAIN h /\ h.sessions = hooks.sessions
      BY <1>1 DEF SessionFields
    <2> HIDE DEF h, c
    <2>3. ~Working(calls, Job(c))
      BY <2>1 DEF Job, ProfileInv, ProfileGood
    <2> QED BY <2>1, <2>2, <2>3, SessionsAsked
  <1>7. ASSUME NEW i \in DOMAIN calls, SessionsFetched(i) PROVE SessionsInv' /\ screen' = screen
    <2> DEFINE f == [hooks EXCEPT !.sessions = calls[i].reply.value, !.sessionsLoading = FALSE]
               g == [hooks EXCEPT !.sessions = {"here"}, !.sessionsError = TRUE, !.sessionsLoading = FALSE]
    <2>1. /\ calls[i].op = "fetchSessions"
          /\ \/ calls[i].reply.status = "ok" /\ Resolve(i, f, <<>>)
             \/ calls[i].reply.status = "failed" /\ Resolve(i, g, <<>>)
      BY <1>7, Zenon DEF SessionsFetched, Back
    <2>2. SessionFields \subseteq DOMAIN f /\ SessionFields \subseteq DOMAIN g /\ f.sessions = calls[i].reply.value
      BY <1>1 DEF SessionFields
    <2> HIDE DEF f, g
    <2> QED BY <2>1, <2>2, SessionsSettle
  <1>8. ASSUME NEW i \in DOMAIN calls, RevokeAnswered(i) PROVE SessionsInv' /\ screen' = screen
    <2> DEFINE which == calls[i].arg
               done == IF which = "all" THEN [hooks EXCEPT !.revokingAll = FALSE]
                       ELSE [hooks EXCEPT !.revokingId = "none"]
               s == done.sessions \ Revoked(which)
               f == [done EXCEPT !.sessions = s]
    <2>1. /\ calls[i].op = "revoke"
          /\ \/ calls[i].reply.status = "ok" /\ Resolve(i, f, <<>>)
             \/ calls[i].reply.status = "failed" /\ Resolve(i, done, <<>>)
      BY <1>8, Zenon DEF RevokeAnswered, Back
    <2>2. SessionFields \subseteq DOMAIN done /\ done.sessions = hooks.sessions
      BY <1>1 DEF SessionFields
    <2> HIDE DEF done
    <2>3. SessionFields \subseteq DOMAIN f /\ f.sessions = hooks.sessions \ Revoked(calls[i].arg)
      BY <2>2 DEF SessionFields
    <2> HIDE DEF f
    <2> QED BY <2>1, <2>2, <2>3, SessionsSettle
  <1>9. ASSUME NEW i \in DOMAIN calls, RevokeServe(i) PROVE SessionsInv' /\ screen' = screen
    <2> DEFINE which == calls[i].arg
               left == server.sessions \ Revoked(which)
               rows == [server EXCEPT !.sessions = left]
               listed == hooks.sessions
    <2>1. calls[i].op = "revoke" /\ Write(i, "revoke", rows, NoValue)
      BY <1>9, Zenon DEF RevokeServe
    <2>2. /\ Answered(calls', calls, i, Ok(NoValue)) /\ Unanswered(i) /\ server' = rows
          /\ UNCHANGED <<screen, hooks>> /\ past \subseteq past'
      BY <2>1, WriteOne
    <2>3. ~calls[i].live => ~Clean(past')
      BY <2>1 DEF Write, Clean
    <2>4. DOMAIN rows = DOMAIN server /\ rows.sessions = left
      BY <1>1 DEF SessionsGood
    <2> HIDE DEF rows
    <2>5. ASSUME Clean(past') PROVE SessionsOrder(listed, calls', left)
      <3>1. SessionsOrder(listed, calls, server.sessions)
        BY <1>1, <2>2, <2>5 DEF SessionsGood, Clean
      <3>2. i \in Awaited(calls, "revoke") /\ Awaited(calls, "fetchSessions") = {}
        BY <2>1, <2>3, <2>5, <3>1 DEF Awaited, SessionsOrder
      <3>3. \A op : Awaited(calls', op) = Awaited(calls, op)
        BY <2>2, AwaitedAnswered
      <3>4. Awaited(calls, "revoke") \subseteq DOMAIN calls
        BY DEF Awaited
      <3>5. \A k \in DOMAIN calls : /\ k # i => calls'[k] = calls[k]
                                    /\ calls'[k].resource = calls[k].resource /\ calls'[k].arg = calls[k].arg
        BY <2>2 DEF Answered
      <3>6. calls'[i].reply.status = "ok" /\ calls[i].reply.status = "waiting"
        BY <2>2 DEF Answered, Ok, Unanswered
      <3>7. \A s : Gone(s, calls') <=> Gone(s, calls) \/ s \in Revoked(which)
        BY <3>2, <3>3, <3>4, <3>5, <3>6 DEF Gone
      <3>8. \A k \in Awaited(calls', "revoke") : calls'[k].resource = "none"
        BY <3>1, <3>3, <3>4, <3>5 DEF SessionsOrder
      <3>9. CASE \E k \in Awaited(calls, "revoke") : calls[k].reply.status = "failed"
        <4>1. PICK k \in Awaited(calls, "revoke") : calls[k].reply.status = "failed"
          BY <3>9
        <4>2. calls'[k] = calls[k]
          BY <3>4, <3>5, <3>6, <4>1
        <4> QED BY <3>2, <3>3, <3>8, <4>1, <4>2 DEF SessionsOrder
      <3>10. CASE \A s : s \in server.sessions <=> s \in listed /\ ~Gone(s, calls)
        <4>1. \A s : s \in left <=> s \in listed /\ ~Gone(s, calls')
          BY <3>7, <3>10
        <4> QED BY <3>2, <3>3, <3>8, <4>1 DEF SessionsOrder
      <3> QED BY <3>1, <3>2, <3>9, <3>10 DEF SessionsOrder
    <2> QED BY <1>1, <2>2, <2>4, <2>5 DEF SessionsInv, SessionsGood
  <1>10. ASSUME NEW i \in DOMAIN calls PROVE ~NoticesFetched(i) /\ ~MarkServe(i) /\ ~MarkAnswered(i)
    <2>1. calls[i].op \notin {"notices", "markRead"}
      BY HomeFacts DEF Base, OwnCalls
    <2> QED BY <2>1 DEF NoticesFetched, MarkServe, MarkAnswered, Back
  <1>11. /\ ~CardFreeze /\ ~CardDetails /\ ~CardFlip /\ ~CardCreate /\ ~CardCopy /\ ~CardCopied
         /\ ~GoalForm /\ ~GoalCreate /\ ~MarkAllRead /\ ~NoticesClear
         /\ ~ChatTyped /\ ~ChatOpen /\ ~ChatSend /\ ~ChatReply
         /\ \A c : ~CardSelect(c) /\ ~MarkRead(c) /\ ~NoticeDelete(c) /\ ~NoticesTab(c)
    BY DEF CardFreeze, CardDetails, CardFlip, CardCreate, CardCopy, CardCopied, GoalForm, GoalCreate,
           MarkAllRead, NoticesClear, ChatTyped, ChatOpen, ChatSend, ChatReply, CardSelect, MarkRead,
           NoticeDelete, NoticesTab, Chats
  <1> QED BY <1>2, <1>3, <1>4, <1>5, <1>6, <1>7, <1>8, <1>9, <1>10, <1>11 DEF CustomerNext, Chats

(* Transfer: the accounts on offer are those of the back end *)

\* A function and nothing else.
IsMap(f) == f = [x \in DOMAIN f |-> f[x]]

\* The accounts on offer where the back end has those of rows.
OffersFor(rows) ==
  IF DOMAIN rows.accounts # {} THEN Offered(DOMAIN rows.accounts, FALSE) ELSE Offered(DemoAccounts, TRUE)

\* The accounts are awaited or there.
OffersGood(h, cs, rows, p) ==
  /\ IsMap(rows.accounts)
  /\ \A k \in DOMAIN cs : cs[k].op = "transferAccounts" /\ cs[k].reply.status = "ok" => IsMap(cs[k].reply.value)
  /\ Clean(p) => Awaited(cs, "transferAccounts") # {} \/ h.accounts = OffersFor(rows)

OffersInv == screen = "transfer" => OffersGood(hooks, calls, server, past)

\* A list with these accounts is what is on offer.
LEMMA ListedOffers ==
  ASSUME NEW rows, NEW v, IsMap(v), DOMAIN v = DOMAIN rows.accounts
  PROVE  \A r : r.status = "ok" /\ r.value = v => Listed(r) = OffersFor(rows)
  <1>1. v # <<>> <=> DOMAIN v # {}
    <2>1. DOMAIN v # {} => v # <<>>
      OBVIOUS
    <2>2. ASSUME DOMAIN v = {} PROVE v = <<>>
      <3>1. v = [x \in {} |-> v[x]]
        BY <2>2 DEF IsMap
      <3>2. [x \in {} |-> v[x]] = <<>>
        OBVIOUS
      <3> QED BY <3>1, <3>2
    <2> QED BY <2>1, <2>2
  <1> QED BY <1>1 DEF Listed, OffersFor

\* A step of the form.
LEMMA OffersKept ==
  ASSUME OffersInv, screen = "transfer", UNCHANGED <<screen, calls, server>>, past \subseteq past',
         hooks'.accounts = hooks.accounts
  PROVE  OffersInv'
  BY DEF OffersInv, OffersGood, Clean

\* A call comes back.
LEMMA OffersSettle ==
  ASSUME Base, OffersInv, TransferInv, screen = "transfer", NEW i \in DOMAIN calls, NEW h, Resolve(i, h, <<>>),
         calls[i].reply.status \in {"ok", "failed"},
         calls[i].op = "transferAccounts" => h.accounts = Listed(calls[i].reply),
         calls[i].op # "transferAccounts" => h.accounts = hooks.accounts
  PROVE  OffersInv'
  <1>1. Ended(calls', calls, i) /\ Settled(i, h)
    BY ResolveEnds
  <1>2. TakenOut(calls', calls, i) /\ i \in Nat
    BY <1>1 DEF Ended, TakenOut
  <1>3. OffersGood(hooks, calls, server, past)
    BY DEF OffersInv
  <1>4. \A k \in DOMAIN calls' :
          calls'[k].op = "transferAccounts" /\ calls'[k].reply.status = "ok" => IsMap(calls'[k].reply.value)
    BY <1>1, <1>3 DEF Ended, Alike, OffersGood
  <1> DEFINE A == Awaited(calls, "transferAccounts")
  <1>5. \A j \in A \ {i} : \E k \in Awaited(calls', "transferAccounts") : Alike(calls'[k], calls[j])
    BY <1>2, AwaitedEnds
  <1>6. ASSUME Clean(past') PROVE Awaited(calls', "transferAccounts") # {} \/ hooks'.accounts = OffersFor(server)
    <2>1. Clean(past) /\ (calls[i].live => calls[i].reply.status = "ok")
      BY <1>1, <1>6 DEF Settled, Clean
    <2>2. CASE i \in A
      <3>1. calls[i].op = "transferAccounts" /\ calls[i].live /\ calls[i].reply.status = "ok" /\ hooks' = h
        BY <1>1, <2>1, <2>2 DEF Settled, Awaited
      <3>2. IsMap(calls[i].reply.value) /\ DOMAIN calls[i].reply.value = DOMAIN server.accounts
        BY <1>3, <3>1 DEF OffersGood, TransferInv, TransferGood, TransferCall
      <3> QED BY <3>1, <3>2, ListedOffers
    <2>3. CASE i \notin A
      <3>1. hooks'.accounts = hooks.accounts
        BY <1>1, <2>3 DEF Settled, Awaited
      <3> QED BY <1>3, <1>5, <2>1, <2>3, <3>1 DEF OffersGood
    <2> QED BY <2>2, <2>3
  <1> QED BY <1>1, <1>3, <1>4, <1>6 DEF OffersInv, OffersGood, Settled

\* The server answers.
LEMMA OffersAnswers ==
  ASSUME OffersInv, TransferInv, screen = "transfer", NEW i \in DOMAIN calls, NEW r, Answered(calls', calls, i, r),
         UNCHANGED <<screen, hooks, server, past>>,
         r.status = "ok" => calls[i].resource \in DOMAIN server /\ r.value = server[calls[i].resource]
  PROVE  OffersInv'
  <1>1. OffersGood(hooks, calls, server, past)
    BY DEF OffersInv
  <1>2. Awaited(calls', "transferAccounts") = Awaited(calls, "transferAccounts")
    BY AwaitedAnswered
  <1>3. calls[i].op = "transferAccounts" => calls[i].resource = "accounts"
    BY DEF TransferInv, TransferGood, TransferCall
  <1>4. \A k \in DOMAIN calls' :
          calls'[k].op = "transferAccounts" /\ calls'[k].reply.status = "ok" => IsMap(calls'[k].reply.value)
    BY <1>1, <1>3 DEF Answered, OffersGood
  <1> QED BY <1>1, <1>2, <1>4 DEF OffersInv, OffersGood

\* Every step of Transfer keeps what is on offer right.
LEMMA OffersFresh ==
  ASSUME Base, Timed, OffersInv, TransferInv, screen = "transfer", TransferNext PROVE OffersInv'
  <1>1. OffersGood(hooks, calls, server, past) /\ hooks \in TransferHooks
    BY DEF OffersInv, TransferInv, TransferGood, TransferView
  <1>2. CASE TransferMount
    <2> DEFINE c == Get("transferAccounts", "accounts")
    <2>1. Shape(c) /\ c.op = "transferAccounts" /\ c.live /\ c.reply.status = "waiting"
      BY GetShape
    <2>2. MountWith("transfer", TransferState, <<c>>, <<>>)
      BY <1>2, Zenon DEF TransferMount, Mount
    <2> HIDE DEF c
    <2>3. "transfer" \in Home(c.op) /\ Job(c) \notin Writes /\ SameFamily(screen, "transfer")
      BY <2>1, HomeFacts DEF Job, Writes, SameFamily
    <2>4. /\ \E mid : Dropped(mid, calls) /\ Made(calls', mid, c)
          /\ screen' = "transfer" /\ server' = server
      BY <2>1, <2>2, <2>3, OpenSends
    <2>5. PICK mid : Dropped(mid, calls) /\ Made(calls', mid, c)
      BY <2>4
    <2>6. Awaited(calls', "transferAccounts") # {}
      BY <2>1, <2>5, AwaitedMade
    <2>7. \A k \in DOMAIN calls' :
            calls'[k].op = "transferAccounts" /\ calls'[k].reply.status = "ok" => IsMap(calls'[k].reply.value)
      BY <1>1, <2>1, <2>5 DEF Made, Dropped, OffersGood
    <2> QED BY <1>1, <2>4, <2>6, <2>7 DEF OffersInv, OffersGood
  <1>3. ASSUME NEW h, Change(h), h.accounts = hooks.accounts PROVE OffersInv'
    <2>1. hooks' = h /\ past \subseteq past' /\ UNCHANGED <<screen, calls, server>>
      BY <1>3 DEF Change
    <2> QED BY <1>3, <2>1, OffersKept
  <1>4. ASSUME NEW t \in Tabs, TransferTab(t) PROVE OffersInv'
    <2> DEFINE h == [TransferReset(hooks) EXCEPT !.tab = t]
    <2>1. Change(h)
      BY <1>4 DEF TransferTab
    <2>2. h.accounts = hooks.accounts
      BY <1>1 DEF TransferReset, TransferHooks
    <2> HIDE DEF h
    <2> QED BY <1>3, <2>1, <2>2
  <1>5. CASE TransferInput
    <2>1. \E a : \E h \in {[hooks EXCEPT !.account = a], [hooks EXCEPT !.to = a], [hooks EXCEPT !.amount = a]} : Change(h)
      BY <1>5, Zenon DEF TransferInput
    <2>2. \A a : \A h \in {[hooks EXCEPT !.account = a], [hooks EXCEPT !.to = a], [hooks EXCEPT !.amount = a]} :
            h.accounts = hooks.accounts
      BY <1>1 DEF TransferHooks
    <2> QED BY <1>3, <2>1, <2>2
  <1>6. CASE TransferNew
    <2> DEFINE h == TransferReset(hooks)
    <2>1. Change(h)
      BY <1>6 DEF TransferNew
    <2>2. h.accounts = hooks.accounts
      BY <1>1 DEF TransferReset, TransferHooks
    <2> HIDE DEF h
    <2> QED BY <1>3, <2>1, <2>2
  <1>7. ASSUME NEW s, Set([hooks EXCEPT !.step = s]) PROVE OffersInv'
    <2>1. hooks' = [hooks EXCEPT !.step = s] /\ UNCHANGED <<screen, calls, server, past>>
      BY <1>7, Zenon DEF Set
    <2>2. hooks'.accounts = hooks.accounts
      BY <1>1, <2>1 DEF TransferHooks
    <2> QED BY <2>1, <2>2, OffersKept
  <1>8. CASE TransferReview \/ TransferBack
    BY <1>7, <1>8 DEF TransferReview, TransferBack
  <1>9. CASE TransferConfirm
    <2> DEFINE c == Post("transfer", TransferRequest(hooks))
    <2>1. Shape(c) /\ c.op = "transfer" /\ c.live
      BY PostShape
    <2>2. /\ hooks' = [hooks EXCEPT !.loading = TRUE, !.msg = "none"]
          /\ Send(<<c>>) /\ past' = past \ {"edited"} /\ UNCHANGED <<screen, server>>
      BY <1>9, Zenon DEF TransferConfirm
    <2>3. ~hooks.loading
      BY <1>1, <1>9 DEF TransferConfirm, Offers, TransferControls, TransferHooks
    <2> HIDE DEF c
    <2>4. screen \in Home(c.op) /\ Job(c) = "transfer" /\ past' \subseteq Pasts
      BY <2>1, <2>2, HomeFacts DEF Job, Base
    <2>5. ~Working(calls, "transfer")
      BY <2>3 DEF TransferInv, TransferGood
    <2>6. Made(calls', calls, c)
      BY <2>1, <2>2, <2>4, <2>5, SendOne
    <2>7. Awaited(calls', "transferAccounts") = Awaited(calls, "transferAccounts")
      BY <2>1, <2>6, AwaitedMade
    <2>8. hooks'.accounts = hooks.accounts
      BY <1>1, <2>2 DEF TransferHooks
    <2>9. \A k \in DOMAIN calls' :
            calls'[k].op = "transferAccounts" /\ calls'[k].reply.status = "ok" => IsMap(calls'[k].reply.value)
      BY <1>1, <2>1, <2>6 DEF Made, OffersGood
    <2>10. Clean(past') => Clean(past)
      BY <2>2 DEF Clean
    <2> QED BY <1>1, <2>2, <2>7, <2>8, <2>9, <2>10 DEF OffersInv, OffersGood
  <1>10. ASSUME NEW i \in DOMAIN calls, TransferAccounts(i) PROVE OffersInv'
    <2> DEFINE v == Listed(calls[i].reply)
               h == [hooks EXCEPT !.accounts = v]
    <2>1. calls[i].op = "transferAccounts" /\ ~Unanswered(i) /\ Resolve(i, h, <<>>)
      BY <1>10, Zenon DEF TransferAccounts
    <2>2. calls[i].reply.status \in {"ok", "failed"}
      BY <2>1 DEF Unanswered, Base, Shaped, Shape
    <2> HIDE DEF v
    <2>3. h.accounts = v
      BY <1>1 DEF TransferHooks
    <2> HIDE DEF h
    <2> QED BY <2>1, <2>2, <2>3, OffersSettle DEF v
  <1>11. ASSUME NEW i \in DOMAIN calls, TransferDone(i) PROVE OffersInv'
    <2> DEFINE f == [hooks EXCEPT !.step = "success", !.loading = FALSE]
               g == [hooks EXCEPT !.step = "form", !.loading = FALSE, !.msg = "error"]
    <2>1. /\ calls[i].op = "transfer" /\ calls[i].reply.status \in {"ok", "failed"}
          /\ Resolve(i, f, <<>>) \/ Resolve(i, g, <<>>)
      BY <1>11, Zenon DEF TransferDone, Back
    <2>2. f.accounts = hooks.accounts /\ g.accounts = hooks.accounts
      BY <1>1 DEF TransferHooks
    <2> HIDE DEF f, g
    <2> QED BY <2>1, <2>2, OffersSettle
  <1>12. ASSUME NEW i \in DOMAIN calls, BankPosts(i, "transfer", MaxPosted) PROVE OffersInv'
    <2> DEFINE r == calls[i].arg
               b == Posted(server.accounts, r)
               l == Append(server.ledger, r)
               rows == [server EXCEPT !.accounts = b, !.ledger = l]
               v == [id |-> Len(server.ledger) + 1, request |-> r]
    <2>1. Write(i, "transfer", rows, v)
      BY <1>12, Zenon DEF BankPosts
    <2>2. DOMAIN b = DOMAIN server.accounts /\ IsMap(b)
      BY DEF Posted, IsMap
    <2> HIDE DEF b, l, v
    <2>3. rows.accounts = b
      BY DEF TransferInv, TransferGood, TransferServer, BankRecord
    <2> HIDE DEF rows
    <2>4. /\ Answered(calls', calls, i, Ok(v)) /\ calls[i].op = "transfer" /\ server' = rows
          /\ UNCHANGED <<screen, hooks>> /\ past \subseteq past'
      BY <2>1, WriteOne
    <2>5. Awaited(calls', "transferAccounts") = Awaited(calls, "transferAccounts")
      BY <2>4, AwaitedAnswered
    <2>6. OffersFor(rows) = OffersFor(server)
      BY <2>2, <2>3 DEF OffersFor
    <2>7. \A k \in DOMAIN calls' :
            calls'[k].op = "transferAccounts" /\ calls'[k].reply.status = "ok" => IsMap(calls'[k].reply.value)
      BY <1>1, <2>4 DEF Answered, OffersGood
    <2>8. Clean(past') => Clean(past)
      BY <2>4 DEF Clean
    <2> QED BY <1>1, <2>2, <2>3, <2>4, <2>5, <2>6, <2>7, <2>8 DEF OffersInv, OffersGood
  <1> QED BY <1>2, <1>4, <1>5, <1>6, <1>8, <1>9, <1>10, <1>11, <1>12 DEF TransferNext

(* LegacyPages: a page that says nothing shows all its lists *)

\* The next list is awaited or all are there.
ListsGood(h, cs, p) ==
  Clean(p) /\ h.page # "login" /\ h.said = "none" =>
    Working(cs, "legacy") \/ h.shown = Len(LegacyPages[h.page].fetches)

ListsInv == screen = "legacy" => ListsGood(hooks, calls, past)

\* A page is loaded.
LEMMA ListsLoad ==
  ASSUME Base, screen = "legacy", NEW p, NEW token, LegacyLoad(p, token)
  PROVE  ListsInv'
  <1>1. SameFamily(screen, "legacy")
    BY DEF SameFamily
  <1>2. CASE p = "login" \/ ~token
    <2> DEFINE h == LegacyState("login", token)
    <2>1. MountWith("legacy", h, <<>>, <<>>)
      BY <1>2, Zenon DEF LegacyLoad, Mount
    <2>2. h.page = "login"
      BY DEF LegacyState
    <2> HIDE DEF h
    <2>3. hooks' = h
      BY <1>1, <2>1, OpenQuiet
    <2> QED BY <2>2, <2>3 DEF ListsInv, ListsGood
  <1>3. CASE p # "login" /\ token
    <2> DEFINE h == LegacyState(p, token)
               c == LegacyFetch(p, 1)
    <2>1. MountWith("legacy", h, <<c>>, <<>>)
      BY <1>3, Zenon DEF LegacyLoad, Mount
    <2>2. Shape(c) /\ c.op = "legacy" /\ c.live
      BY GetShape DEF LegacyFetch
    <2> HIDE DEF h, c
    <2>3. "legacy" \in Home(c.op) /\ Job(c) = "legacy" /\ Job(c) \notin Writes
      BY <2>2, HomeFacts DEF Job, Writes
    <2>4. \E mid : Dropped(mid, calls) /\ Made(calls', mid, c)
      BY <1>1, <2>1, <2>2, <2>3, OpenSends
    <2>5. Working(calls', "legacy")
      BY <2>2, <2>3, <2>4 DEF Made, Does
    <2> QED BY <2>5 DEF ListsInv, ListsGood
  <1> QED BY <1>2, <1>3

\* A step that neither the page nor its calls for lists notice.
LEMMA ListsKept ==
  ASSUME ListsInv, screen = "legacy", past \subseteq past',
         hooks'.page = hooks.page, hooks'.said = hooks.said, hooks'.shown = hooks.shown,
         Working(calls, "legacy") => Working(calls', "legacy")
  PROVE  ListsInv'
  BY DEF ListsInv, ListsGood, Clean

\* On the login page there is no list.
LEMMA ListsNone ==
  ASSUME hooks'.page = "login" PROVE ListsInv'
  BY DEF ListsInv, ListsGood

\* A list came in.
LEMMA ListsCome ==
  ASSUME Base, LegacyInv, screen = "legacy", NEW i \in DOMAIN calls, LegacyAnswered(i)
  PROVE  ListsInv'
  <1> DEFINE page == LegacyPages[hooks.page]
             k == hooks.shown + 1
             empty == calls[i].reply.value = 0 /\ k \in page.ends
             n == IF empty THEN hooks.shown ELSE k
             s == IF empty THEN "empty" ELSE hooks.said
             h == [hooks EXCEPT !.shown = n, !.said = s]
             c == LegacyFetch(hooks.page, k + 1)
  <1>1. hooks \in LegacyHooks
    BY DEF LegacyInv, LegacyGood
  <1>2. calls[i].live
    BY DEF LegacyAnswered
  <1>3. Resolve(i, h, IF empty \/ k = Len(page.fetches) THEN <<>> ELSE <<c>>)
    BY Zenon DEF LegacyAnswered
  <1>4. n = (IF empty THEN hooks.shown ELSE k) /\ s = (IF empty THEN "empty" ELSE hooks.said)
    OBVIOUS
  <1> HIDE DEF n, s
  <1>5. h.shown = n /\ h.said = s /\ h.page = hooks.page
    BY <1>1 DEF LegacyHooks
  <1>6. Shape(c) /\ c.op = "legacy" /\ c.live
    BY GetShape DEF LegacyFetch
  <1> HIDE DEF h, c, empty
  <1>7. CASE empty \/ k = Len(page.fetches)
    <2>1. Settled(i, h)
      BY <1>3, <1>7, ResolveEnds
    <2>2. hooks' = h
      BY <1>2, <2>1 DEF Settled
    <2>3. hooks'.said = "none" => hooks'.shown = Len(LegacyPages[hooks'.page].fetches)
      BY <1>4, <1>5, <1>7, <2>2
    <2> QED BY <2>3 DEF ListsInv, ListsGood
  <1>8. CASE ~(empty \/ k = Len(page.fetches))
    <2>1. Resolve(i, h, <<c>>)
      BY <1>3, <1>8
    <2>2. screen \in Home(c.op) /\ Job(c) = "legacy" /\ Job(c) \notin Writes
      BY <1>6, HomeFacts DEF Job, Writes
    <2>3. \E d, mid : /\ d.op = c.op /\ d.arg = c.arg /\ d.live = calls[i].live
                      /\ Ended(mid, calls, i) /\ Made(calls', mid, d)
      BY <1>6, <2>1, <2>2, ResolveSends
    <2>4. Working(calls', "legacy")
      BY <1>2, <1>6, <2>3 DEF Made, Does, Job
    <2> QED BY <2>4 DEF ListsInv, ListsGood
  <1> QED BY <1>7, <1>8

\* The answer of a form, or of a list that nobody waits for.
LEMMA ListsEnd ==
  ASSUME Base, ListsInv, screen = "legacy", NEW i \in DOMAIN calls, NEW h, Resolve(i, h, <<>>),
         ~Does(calls[i], "legacy") \/ calls[i].reply.status = "failed",
         ~Does(calls[i], "legacy") => h.page = hooks.page /\ h.said = hooks.said /\ h.shown = hooks.shown
  PROVE  ListsInv'
  <1>1. Ended(calls', calls, i) /\ Settled(i, h)
    BY ResolveEnds
  <1>2. CASE Does(calls[i], "legacy")
    <2>1. ~Clean(past')
      BY <1>1, <1>2 DEF Settled, Does, Clean
    <2> QED BY <2>1 DEF ListsInv, ListsGood
  <1>3. CASE ~Does(calls[i], "legacy")
    <2>1. hooks'.page = hooks.page /\ hooks'.said = hooks.said /\ hooks'.shown = hooks.shown /\ past \subseteq past'
      BY <1>1, <1>3 DEF Settled
    <2>2. Working(calls, "legacy") => Working(calls', "legacy")
      BY <1>1, <1>3 DEF Ended
    <2> QED BY <2>1, <2>2, ListsKept
  <1> QED BY <1>2, <1>3

\* Every step of LegacyPages keeps a silent page complete.
LEMMA ListsFresh ==
  ASSUME Base, LegacyInv, ListsInv, screen = "legacy", LegacyNext PROVE ListsInv'
  <1>1. hooks \in LegacyHooks
    BY DEF LegacyInv, LegacyGood
  <1>2. ASSUME NEW p, LegacyMount(p) PROVE ListsInv'
    BY <1>2, ListsLoad DEF LegacyMount
  <1>3. ASSUME NEW u, LegacyLogin(u) PROVE ListsInv'
    <2>1. hooks' = [hooks EXCEPT !.username = u] /\ hooks.page = "login"
      BY <1>3, Zenon DEF LegacyLogin, LegacyInForm
    <2>2. hooks'.page = "login"
      BY <1>1, <2>1 DEF LegacyHooks
    <2> QED BY <2>2, ListsNone
  <1>4. CASE LegacyOtp
    <2>1. hooks' = hooks /\ hooks.page = "login"
      BY <1>4, Zenon DEF LegacyOtp, LegacyInForm, SetAndSend
    <2> QED BY <2>1, ListsNone
  <1>5. ASSUME NEW h, hooks' = h, UNCHANGED <<calls, past>>,
               \/ \E v : h = [hooks EXCEPT !.theme = v]
               \/ \E v : h = [hooks EXCEPT !.ws = v]
               \/ \E v : h = [hooks EXCEPT !.toasts = v]
        PROVE  ListsInv'
    <2>1. h.page = hooks.page /\ h.said = hooks.said /\ h.shown = hooks.shown
      BY <1>1, <1>5 DEF LegacyHooks
    <2> QED BY <1>5, <2>1, ListsKept
  <1>6. CASE LegacyTheme
    <2> DEFINE h == [hooks EXCEPT !.theme = IF @ = "light" THEN "dark" ELSE "light"]
    <2>1. hooks' = h /\ UNCHANGED <<calls, past>>
      BY <1>6, Zenon DEF LegacyTheme, Set
    <2>2. \E v : h = [hooks EXCEPT !.theme = v]
      OBVIOUS
    <2> HIDE DEF h
    <2> QED BY <1>5, <2>1, <2>2
  <1>7. CASE LegacySocket
    <2>1. PICK v : hooks' = [hooks EXCEPT !.ws = v] /\ UNCHANGED <<calls, past>>
      BY <1>7, Zenon DEF LegacySocket, Set
    <2> QED BY <1>5, <2>1
  <1>8. CASE LegacyTick \/ LegacyToastEnds
    <2>1. PICK v : hooks' = [hooks EXCEPT !.toasts = v] /\ UNCHANGED <<calls, past>>
      BY <1>8, Zenon DEF LegacyTick, LegacyToastEnds, SetAndDelay, Fire
    <2> QED BY <1>5, <2>1
  <1>9. ASSUME NEW i \in DOMAIN calls, LegacyStale(i) PROVE ListsInv'
    <2>1. ~calls[i].live /\ calls' = RemoveAt(calls, i) /\ UNCHANGED <<screen, hooks, past>>
      BY <1>9 DEF LegacyStale
    <2>2. Working(calls, "legacy") => Working(calls', "legacy")
      BY <2>1, StaleFacts
    <2> QED BY <2>1, <2>2, ListsKept
  <1>10. ASSUME NEW i \in DOMAIN calls, LegacyFailed(i) PROVE ListsInv'
    <2> DEFINE h == [hooks EXCEPT !.said = IF LegacyPages[hooks.page].says THEN "failed" ELSE @]
    <2>1. Resolve(i, h, <<>>) /\ calls[i].op = "legacy" /\ calls[i].reply.status = "failed" /\ calls[i].live
      BY <1>10, Zenon DEF LegacyFailed, Back
    <2>2. Does(calls[i], "legacy")
      BY <2>1 DEF Does, Job
    <2> HIDE DEF h
    <2> QED BY <2>1, <2>2, ListsEnd
  <1>11. ASSUME NEW i \in DOMAIN calls, LegacyExpired(i) PROVE ListsInv'
    BY <1>11, ListsLoad DEF LegacyExpired
  <1>12. ASSUME NEW i \in DOMAIN calls, LegacyLoginServe(i) \/ LegacyOtpServe(i) PROVE ListsInv'
    <2>1. PICK op, v : Write(i, op, server, v)
      BY <1>12, Zenon DEF LegacyLoginServe, LegacyOtpServe
    <2>2. Answered(calls', calls, i, Ok(v)) /\ hooks' = hooks /\ past \subseteq past'
      BY <2>1, WriteOne
    <2> QED BY <2>2, ListsKept DEF Answered
  <1>13. ASSUME NEW i \in DOMAIN calls, LegacyLoggedIn(i) PROVE ListsInv'
    <2> DEFINE f == IF calls[i].reply = Ok(202) THEN "otp" ELSE hooks.form
               h == [hooks EXCEPT !.form = f]
    <2>1. Resolve(i, h, <<>>) /\ calls[i].op = "legacyLogin"
      BY <1>13 DEF LegacyLoggedIn
    <2> HIDE DEF f
    <2>2. h.page = hooks.page /\ h.said = hooks.said /\ h.shown = hooks.shown
      BY <1>1 DEF LegacyHooks
    <2> HIDE DEF h
    <2>3. ~Does(calls[i], "legacy")
      BY <2>1 DEF Does, Job
    <2> QED BY <2>1, <2>2, <2>3, ListsEnd
  <1>14. ASSUME NEW i \in DOMAIN calls, LegacyVerified(i) PROVE ListsInv'
    <2>1. CASE LegacyLoad("dashboard", TRUE)
      BY <2>1, ListsLoad
    <2>2. CASE Resolve(i, hooks, <<>>)
      <3>1. calls[i].op = "legacyOtp"
        BY <1>14 DEF LegacyVerified
      <3>2. ~Does(calls[i], "legacy")
        BY <3>1 DEF Does, Job
      <3> QED BY <2>2, <3>2, ListsEnd
    <2> QED BY <1>14, <2>1, <2>2 DEF LegacyVerified
  <1> QED BY <1>2, <1>3, <1>4, <1>6, <1>7, <1>8, <1>9, <1>10, <1>11, <1>12, <1>13, <1>14, ListsCome DEF LegacyNext

(* All screens *)

\* What the screens know of what they show.  The listings need no more than ListInv.
FreshInv ==
  OrderInv /\ AdminFields /\ UsersInv /\ NoticesInv /\ SessionsInv /\ OffersInv /\ ListsInv

\* The screens it is about.
FreshScreens == OrderScreens \union {"users", "notifications", "profile", "transfer", "legacy"}

\* No screen is of two of these kinds.
LEMMA FreshApart ==
  ASSUME NEW s
  PROVE  /\ s \in {"users", "notifications", "profile", "transfer", "legacy"} => s \notin OrderScreens
         /\ s \in OrderScreens <=> s \in FirstScreens \/ s = "billpay" \/ s \in FlagPages
         /\ s \in FlagPages => s \notin {"transfer", "billpay", "legacy", "first", "lifecycle"}
  BY DEF OrderScreens, FirstScreens, FlagPages, AdminLists

\* What is not on screen is in order.
LEMMA FreshElsewhere ==
  /\ screen \notin OrderScreens => OrderInv
  /\ screen \notin FlagPages => AdminFields
  /\ screen # "users" => UsersInv
  /\ screen # "notifications" => NoticesInv
  /\ screen # "profile" => SessionsInv
  /\ screen # "transfer" => OffersInv
  /\ screen # "legacy" => ListsInv
  BY DEF OrderInv, AdminFields, FlagPages, UsersInv, NoticesInv, SessionsInv, OffersInv, ListsInv

\* So it is after a step.
LEMMA FreshElsewhereThen ==
  /\ screen' \notin OrderScreens => OrderInv'
  /\ screen' \notin FlagPages => AdminFields'
  /\ screen' # "users" => UsersInv'
  /\ screen' # "notifications" => NoticesInv'
  /\ screen' # "profile" => SessionsInv'
  /\ screen' # "transfer" => OffersInv'
  /\ screen' # "legacy" => ListsInv'
  BY DEF OrderInv, AdminFields, FlagPages, UsersInv, NoticesInv, SessionsInv, OffersInv, ListsInv

\* An answer on any screen.
LEMMA FreshAnswers ==
  ASSUME PagesInv, FreshInv, NEW i \in DOMAIN calls, Read(i) \/ Reject(i) \/ Lose(i)
  PROVE  FreshInv'
  <1>1. Base /\ TransferInv /\ FirstInv
    BY DEF PagesInv
  <1>2. OrderInv /\ AdminFields /\ UsersInv /\ NoticesInv /\ SessionsInv /\ OffersInv /\ ListsInv
    BY DEF FreshInv
  <1>3. UNCHANGED <<screen, hooks, timers, server, past>>
    BY <1>1, ServerAnswers
  <1>4. PICK r : /\ Answered(calls', calls, i, r) /\ r.status \in {"ok", "failed"}
                 /\ r.status = "ok" => calls[i].resource \in DOMAIN server /\ r.value = server[calls[i].resource]
    BY <1>1, ServerAnswers
  <1>5. OrderInv'
    <2>1. CASE screen \in OrderScreens
      <3>1. screen = "lifecycle" => "none" \notin DOMAIN server
        <4> SUFFICES ASSUME screen = "lifecycle" PROVE "none" \notin DOMAIN server
          OBVIOUS
        <4>1. BankRecord(server)
          BY <1>1 DEF FirstInv, FirstScreens, FirstGood
        <4> QED BY <4>1 DEF BankRecord
      <3> QED BY <1>2, <1>3, <1>4, <2>1, <3>1, OrderServerAnswers
    <2>2. CASE screen \notin OrderScreens
      BY <1>3, <2>2, FreshElsewhereThen
    <2> QED BY <2>1, <2>2
  <1>6. AdminFields'
    BY <1>2, <1>3 DEF AdminFields
  <1>7. UsersInv'
    <2>1. CASE screen = "users"
      <3>1. /\ calls'[i].op = calls[i].op /\ calls'[i].resource = calls[i].resource
            /\ calls'[i].arg = calls[i].arg /\ calls'[i].reply = r
        BY <1>4 DEF Answered
      <3>2. "none" \notin DOMAIN server
        BY <1>2, <2>1 DEF UsersInv, UserGood
      <3>3. UserDue(calls[i], hooks, server) => UserDue(calls'[i], hooks, server)
        BY <1>4, <3>1, <3>2 DEF UserDue
      <3> QED BY <1>2, <1>3, <1>4, <2>1, <3>3, UserAnswered
    <2>2. CASE screen # "users"
      BY <1>3, <2>2, FreshElsewhereThen
    <2> QED BY <2>1, <2>2
  <1>8. NoticesInv'
    <2>1. CASE screen = "notifications"
      BY <1>2, <1>3, <1>4, <2>1, NoticeAnswers
    <2>2. CASE screen # "notifications"
      BY <1>3, <2>2, FreshElsewhereThen
    <2> QED BY <2>1, <2>2
  <1>9. SessionsInv'
    <2>1. CASE screen = "profile"
      BY <1>2, <1>3, <1>4, <2>1, SessionsAnswers
    <2>2. CASE screen # "profile"
      BY <1>3, <2>2, FreshElsewhereThen
    <2> QED BY <2>1, <2>2
  <1>10. OffersInv'
    <2>1. CASE screen = "transfer"
      BY <1>1, <1>2, <1>3, <1>4, <2>1, OffersAnswers
    <2>2. CASE screen # "transfer"
      BY <1>3, <2>2, FreshElsewhereThen
    <2> QED BY <2>1, <2>2
  <1>11. ListsInv'
    <2>1. CASE screen = "legacy"
      <3>1. Working(calls, "legacy") => Working(calls', "legacy")
        BY <1>4 DEF Answered
      <3> QED BY <1>2, <1>3, <2>1, <3>1, ListsKept
    <2>2. CASE screen # "legacy"
      BY <1>3, <2>2, FreshElsewhereThen
    <2> QED BY <2>1, <2>2
  <1> QED BY <1>5, <1>6, <1>7, <1>8, <1>9, <1>10, <1>11 DEF FreshInv

\* A step of the screens keeps what they know of what they show.
LEMMA FreshKeeps ==
  ASSUME PagesInv, FreshInv, PagesNext PROVE FreshInv'
  <1>1. /\ Base /\ Timed /\ TransferInv /\ FirstInv /\ BillPayInv /\ FxInv
        /\ LoadInv /\ ListInv /\ FlashInv /\ ProfileInv /\ TransientInv /\ LegacyInv
    BY DEF PagesInv
  <1>2. OrderInv /\ AdminFields /\ UsersInv /\ NoticesInv /\ SessionsInv /\ OffersInv /\ ListsInv
    BY DEF FreshInv
  <1>3. CASE TransferNext
    <2>1. screen = "transfer" /\ screen' = "transfer"
      BY <1>1, <1>3, TransferOnly, TransferKeeps
    <2>2. OffersInv'
      BY <1>1, <1>2, <1>3, <2>1, OffersFresh
    <2> QED BY <2>1, <2>2, FreshElsewhereThen, FreshApart DEF FreshInv
  <1>4. CASE FirstTransactionNext
    <2>1. screen \in FirstScreens /\ screen' \in FirstScreens
      BY <1>1, <1>4, FirstOnly, FirstKeeps DEF FirstCases, FirstScreens
    <2>2. OrderInv'
      BY <1>1, <1>2, <1>4, <2>1, FirstFresh
    <2>3. screen' \notin FlagPages \union {"users", "notifications", "profile", "transfer", "legacy"}
      BY <2>1, FreshApart DEF FirstScreens
    <2> QED BY <2>2, <2>3, FreshElsewhereThen DEF FreshInv
  <1>5. CASE BillPayNext
    <2>1. screen = "billpay" /\ screen' = "billpay"
      BY <1>1, <1>5, BillPayOnly, BillPayKeeps DEF BillCases
    <2>2. OrderInv'
      BY <1>1, <1>2, <1>5, <2>1, BillPayFresh
    <2> QED BY <2>1, <2>2, FreshElsewhereThen, FreshApart DEF FreshInv
  <1>6. CASE FxNext
    <2>1. screen' = "fx"
      BY <1>1, <1>6, FxOnly, FxKeeps DEF FxCases
    <2> QED BY <2>1, FreshElsewhereThen DEF FreshInv, OrderScreens, FlagPages, AdminLists
  <1>7. CASE LegacyNext
    <2>1. screen = "legacy" /\ screen' = "legacy"
      BY <1>1, <1>7, LegacyOnly, LegacyKeeps DEF LegacyCases
    <2>2. ListsInv'
      BY <1>1, <1>2, <1>7, <2>1, ListsFresh
    <2> QED BY <2>1, <2>2, FreshElsewhereThen, FreshApart DEF FreshInv
  <1>8. CASE ListingsNext
    <2>1. screen' \in ListingScreens
      BY <1>1, <1>8, ListingsOnly, ListingsKeep DEF LoadCases
    <2> QED BY <2>1, FreshElsewhereThen DEF FreshInv, OrderScreens, FlagPages, AdminLists, ListingScreens
  <1>9. CASE AdminNext
    <2>1. screen \in AdminPages /\ screen' = screen
      BY <1>1, <1>9, AdminOnly, AdminKeeps DEF AdminCases, LoadCases
    <2>2. screen \in FlagPages \/ screen \in {"users", "backups", "showcase", "roadmap"}
      BY <2>1 DEF AdminPages, FlagPages
    <2>3. CASE screen \in FlagPages
      <3>1. OrderInv' /\ AdminFields'
        BY <1>1, <1>2, <1>9, <2>3, FlagsFresh
      <3>2. screen' \notin {"users", "notifications", "profile", "transfer", "legacy"}
        BY <2>1, <2>3 DEF FlagPages, AdminLists
      <3> QED BY <3>1, <3>2, FreshElsewhereThen DEF FreshInv
    <2>4. CASE screen = "users"
      <3>1. UsersInv'
        BY <1>1, <1>2, <1>9, <2>4, UsersFresh
      <3> QED BY <2>1, <2>4, <3>1, FreshElsewhereThen DEF FreshInv, OrderScreens, FlagPages, AdminLists
    <2>5. CASE screen \in {"backups", "showcase", "roadmap"}
      BY <2>1, <2>5, FreshElsewhereThen DEF FreshInv, OrderScreens, FlagPages, AdminLists
    <2> QED BY <2>2, <2>3, <2>4, <2>5
  <1>10. CASE CustomerNext
    <2>1. screen \in CustomerPages /\ screen' = screen
      BY <1>1, <1>10, CustomerOnly, CustomerKeeps DEF CustomerCases, LoadCases
    <2>2. screen' \notin OrderScreens \union FlagPages \union {"users", "transfer", "legacy"}
      BY <2>1 DEF CustomerPages, Chats, OrderScreens, FlagPages, AdminLists
    <2>3. NoticesInv'
      BY <1>1, <1>2, <1>10, <2>1, NoticesFresh, FreshElsewhereThen
    <2>4. SessionsInv'
      BY <1>1, <1>2, <1>10, <2>1, SessionsFresh, FreshElsewhereThen
    <2> QED BY <2>2, <2>3, <2>4, FreshElsewhereThen DEF FreshInv
  <1>11. CASE LiveNext
    <2>1. screen' \in LivePages
      BY <1>1, <1>11, LiveOnly, LiveKeeps DEF LiveCases
    <2> QED BY <2>1, FreshElsewhereThen
            DEF FreshInv, LivePages, Layouts, OrderScreens, FlagPages, AdminLists
  <1> QED BY <1>3, <1>4, <1>5, <1>6, <1>7, <1>8, <1>9, <1>10, <1>11, FreshAnswers DEF PagesNext

\* A step that changes nothing does as well.
LEMMA FreshStutters ==
  ASSUME FreshInv, UNCHANGED vars PROVE FreshInv'
  <1>1. /\ screen' = screen /\ hooks' = hooks /\ calls' = calls
        /\ server' = server /\ past' = past
    BY DEF vars, tab
  <1> QED BY <1>1 DEF FreshInv, OrderInv, AdminFields, UsersInv, NoticesInv, SessionsInv, OffersInv, ListsInv

\* A screen that fetches has been opened.
LEMMA OrderBegins ==
  ASSUME past = {}, NEW s \in OrderScreens \ {"lifecycle"}, NEW rows, NEW h,
         Opened(s, rows, h, <<Get(Fetcher(s), Fetched(s))>>)
  PROVE  screen = s /\ hooks = h /\ OrderInv
  <1>1. s \in Home(Fetcher(s)) /\ Fetcher(s) # "revoke"
    BY FetcherFacts
  <1>2. /\ screen = s /\ hooks = h /\ Working(calls, Fetcher(s))
        /\ \A k \in DOMAIN calls : /\ calls[k].op = Fetcher(s) /\ calls[k].resource = Fetched(s)
                                   /\ calls[k].live /\ calls[k].reply.status = "waiting"
    BY <1>1, OpenedWithCall
  <1>3. PICK k \in DOMAIN calls : Does(calls[k], Fetcher(s))
    BY <1>2 DEF Working
  <1>4. k \in Awaited(calls, Fetcher(s))
    BY <1>2, <1>3 DEF Awaited
  <1>5. \A j \in Awaited(calls, Fetcher(s)) : Due(s, calls[j], hooks, server)
    BY <1>2 DEF Awaited, Due
  <1>6. InOrder(s, calls, hooks, server)
    BY <1>4, <1>5 DEF InOrder
  <1> QED BY <1>2, <1>6 DEF OrderInv, OrderGood

\* The screens begin in order.
LEMMA FreshBegins ==
  ASSUME PagesInit PROVE FreshInv
  <1>1. past = {}
    BY DEF PagesInit
  <1>2. ASSUME screen \in OrderScreens => OrderInv, screen \in FlagPages => AdminFields,
               screen = "users" => UsersInv, screen = "notifications" => NoticesInv,
               screen = "profile" => SessionsInv, screen = "transfer" => OffersInv,
               screen = "legacy" => ListsInv
        PROVE  FreshInv
    BY <1>2, FreshElsewhere DEF FreshInv
  <1>3. CASE Opened("transfer", BankRows, TransferState, <<Get("transferAccounts", "accounts")>>)
    <2>1. /\ screen = "transfer" /\ server \in BankRows /\ Working(calls, "transferAccounts")
          /\ \A k \in DOMAIN calls : /\ calls[k].op = "transferAccounts" /\ calls[k].live
                                     /\ calls[k].reply.status = "waiting"
      BY <1>1, <1>3, OpenedWithCall, HomeFacts
    <2>2. IsMap(server.accounts)
      <3>1. server.accounts = <<>> \/ server.accounts = [a \in Accounts |-> 1]
        BY <2>1 DEF BankRows
      <3>2. IsMap(<<>>)
        BY DEF IsMap
      <3>3. IsMap([a \in Accounts |-> 1])
        BY DEF IsMap
      <3> QED BY <3>1, <3>2, <3>3
    <2>3. Awaited(calls, "transferAccounts") # {}
      BY <2>1 DEF Awaited, Working
    <2>4. OffersGood(hooks, calls, server, past)
      BY <2>1, <2>2, <2>3 DEF OffersGood
    <2> QED BY <1>2, <2>1, <2>4, FreshApart DEF OffersInv
  <1>4. ASSUME NEW s \in {"first", "billpay"}, NEW rows, NEW h,
               Opened(s, rows, h, <<Get(Fetcher(s), Fetched(s))>>)
        PROVE  FreshInv
    <2>1. s \in OrderScreens \ {"lifecycle"} /\ s \notin FlagPages
      BY <1>4 DEF OrderScreens, FlagPages, AdminLists
    <2>2. screen = s /\ OrderInv
      BY <1>1, <1>4, <2>1, OrderBegins
    <2> QED BY <1>2, <1>4, <2>1, <2>2
  <1>5. ASSUME NEW s \in FlagPages, NEW rows, NEW h, Opened(s, rows, h, <<Get(Fetcher(s), Fetched(s))>>),
               s = "flags" => {"flags", "editing", "showCreate", "named"} \subseteq DOMAIN h,
               s \in AdminLists => {"events", "loading"} \subseteq DOMAIN h
        PROVE  FreshInv
    <2>1. /\ s \in OrderScreens \ {"lifecycle"}
          /\ s \notin {"users", "notifications", "profile", "transfer", "legacy"}
      BY <1>5 DEF OrderScreens, FlagPages, AdminLists
    <2>2. screen = s /\ hooks = h /\ OrderInv
      BY <1>1, <1>5, <2>1, OrderBegins
    <2>3. AdminFields
      BY <1>5, <2>2 DEF AdminFields
    <2> QED BY <1>2, <2>1, <2>2, <2>3
  <1>6. CASE Opened("users", AdminRows, UsersState, <<Get("users", "users")>>)
    <2>1. /\ screen = "users" /\ hooks = UsersState /\ server \in AdminRows
          /\ Alone(calls, "users") /\ Working(calls, "users")
          /\ \A k \in DOMAIN calls : /\ calls[k].op = "users" /\ calls[k].resource = "users"
                                     /\ calls[k].live /\ calls[k].reply.status = "waiting"
      BY <1>1, <1>6, OpenedWithCall, HomeFacts
    <2>2. \A j, k \in DOMAIN calls : j = k
      BY <2>1 DEF Alone, Does, Job
    <2>3. \E k \in DOMAIN calls : calls[k].live
      BY <2>1 DEF Working, Does
    <2>4. UsersState.loading /\ {"users", "loading"} \subseteq DOMAIN UsersState
      BY DEF UsersState
    <2>5. DOMAIN server = {"users", "flags", "events"}
      BY <2>1 DEF AdminRows
    <2>6. \A k \in DOMAIN calls : UserDue(calls[k], UsersState, server)
      BY <2>1, <2>4 DEF UserDue
    <2>7. UserGood(UsersState, calls, server, past)
      BY <2>2, <2>3, <2>4, <2>5, <2>6 DEF UserGood, UserOrder
    <2>8. screen \notin OrderScreens \union FlagPages
      BY <2>1 DEF OrderScreens, FlagPages, AdminLists
    <2> QED BY <1>2, <2>1, <2>7, <2>8 DEF UsersInv
  <1>7. CASE Opened("notifications", CustomerRows, NoticesState, <<Get("notices", "notices")>>)
    <2>1. /\ screen = "notifications" /\ hooks = NoticesState /\ server \in CustomerRows
          /\ Alone(calls, "notices")
          /\ \A k \in DOMAIN calls : /\ calls[k].op = "notices" /\ calls[k].resource = "notices"
                                     /\ calls[k].live /\ calls[k].reply.status = "waiting"
      BY <1>1, <1>7, OpenedWithCall, HomeFacts
    <2>2. \A j, k \in DOMAIN calls : j = k
      BY <2>1 DEF Alone, Does, Job
    <2>3. {"items", "loading"} \subseteq DOMAIN NoticesState /\ DOMAIN NoticesState.items = {}
      BY DEF NoticesState
    <2>4. DOMAIN server = {"notices", "sessions"} /\ DOMAIN server.notices = Notices
      BY <2>1 DEF CustomerRows
    <2>5. Awaited(calls, "markRead") = {}
      BY <2>1 DEF Awaited
    <2>6. NoticeOrder(NoticesState.items, calls, server.notices)
      BY <2>1, <2>2, <2>3, <2>5 DEF NoticeOrder, Awaited
    <2>7. NoticeGood(NoticesState, calls, server, past)
      BY <2>3, <2>4, <2>6 DEF NoticeGood
    <2>8. screen \notin OrderScreens \union FlagPages
      BY <2>1 DEF OrderScreens, FlagPages, AdminLists
    <2> QED BY <1>2, <2>1, <2>7, <2>8 DEF NoticesInv
  <1>8. CASE Opened("profile", CustomerRows, ProfileState, FetchSessions)
    <2>1. /\ screen = "profile" /\ hooks = ProfileState /\ server \in CustomerRows
          /\ Working(calls, "fetchSessions")
          /\ \A k \in DOMAIN calls : /\ calls[k].op = "fetchSessions" /\ calls[k].resource = "sessions"
                                     /\ calls[k].live /\ calls[k].reply.status = "waiting"
      BY <1>1, <1>8, OpenedWithCall, HomeFacts DEF FetchSessions
    <2>2. SessionFields \subseteq DOMAIN ProfileState
      BY DEF SessionFields, ProfileState
    <2>3. DOMAIN server = {"notices", "sessions"}
      BY <2>1 DEF CustomerRows
    <2>4. Awaited(calls, "revoke") = {} /\ Awaited(calls, "fetchSessions") # {}
      BY <2>1 DEF Awaited, Working
    <2>5. SessionsOrder(ProfileState.sessions, calls, server.sessions)
      BY <2>1, <2>4 DEF SessionsOrder, Awaited
    <2>6. SessionsGood(ProfileState, calls, server, past)
      BY <2>2, <2>3, <2>5 DEF SessionsGood
    <2>7. screen \notin OrderScreens \union FlagPages
      BY <2>1 DEF OrderScreens, FlagPages, AdminLists
    <2> QED BY <1>2, <2>1, <2>6, <2>7 DEF SessionsInv
  <1>9. CASE Opened("legacy", LegacyRows, LegacyState("login", FALSE), <<>>)
    <2>1. screen = "legacy" /\ hooks.page = "login"
      BY <1>9 DEF Opened, LegacyState
    <2>2. ListsInv
      BY <2>1 DEF ListsInv, ListsGood
    <2> QED BY <1>2, <2>1, <2>2, FreshApart
  <1>10. CASE screen \notin FreshScreens \union FlagPages
    BY <1>2, <1>10 DEF FreshScreens
  <1>11. CASE \/ Opened("first", {r \in BankRows : ~r.staff}, FirstState, <<Get("firstAccounts", "accounts")>>)
              \/ Opened("billpay", BillRows, BillPayState, FetchBills)
    <2> HIDE DEF FirstState, BillPayState
    <2> QED BY <1>4, <1>11, FetcherNames DEF FetchBills
  <1>12. CASE \/ Opened("flags", AdminRows, FlagsState, FetchFlags)
              \/ \E s \in AdminLists : Opened(s, AdminRows, AdminListState, <<Get(s, "events")>>)
    <2>1. /\ {"flags", "editing", "showCreate", "named"} \subseteq DOMAIN FlagsState
          /\ {"events", "loading"} \subseteq DOMAIN AdminListState
      BY DEF FlagsState, AdminListState
    <2>2. "flags" \in FlagPages /\ "flags" \notin AdminLists /\ AdminLists \subseteq FlagPages \ {"flags"}
      BY DEF FlagPages, AdminLists
    <2>3. CASE Opened("flags", AdminRows, FlagsState, FetchFlags)
      BY <1>5, <2>1, <2>2, <2>3, FetcherNames DEF FetchFlags
    <2>4. ASSUME NEW s \in AdminLists, Opened(s, AdminRows, AdminListState, <<Get(s, "events")>>)
          PROVE  FreshInv
      BY <1>5, <2>1, <2>2, <2>4, FetcherNames
    <2> QED BY <1>12, <2>3, <2>4
  <1>13. CASE \/ Opened("fx", FxRows, FxState, <<Get("fxWallet", "wallet")>>)
              \/ Opened("transactions", ListingRows, TransactionsState, <<Get("transactions", "transactions")>>)
              \/ Opened("dashboard", ListingRows, DashboardState, <<Get("dashboard", "transactions")>>)
              \/ Opened("accounts", ListingRows, AccountsState, <<Get("accountList", "list")>>)
              \/ Opened("markets", ListingRows, MarketsState, <<>>)
              \/ Opened("backups", AdminRows, BackupsState, <<>>)
              \/ Opened("showcase", AdminRows, ShowcaseState, <<>>)
              \/ Opened("roadmap", AdminRows, RoadmapState, <<>>)
              \/ Opened("cards", CustomerRows, CardsState, <<>>)
              \/ Opened("goals", CustomerRows, GoalsState, <<>>)
              \/ \E s \in Chats : Opened(s, CustomerRows, ChatState(s), <<>>)
              \/ \E s \in Layouts : Opened(s, LiveRows, ShellState, <<>>)
              \/ Opened("contact", LiveRows, ContactState, <<>>)
              \/ screen \in {"globe", "landing"}
    <2>1. screen \in {"fx", "transactions", "dashboard", "accounts", "markets", "backups", "showcase", "roadmap",
                      "cards", "goals", "contact", "globe", "landing"} \union Chats \union Layouts
      BY <1>13, Zenon DEF Opened
    <2> QED BY <1>10, <2>1 DEF FreshScreens, OrderScreens, FlagPages, AdminLists, Chats, Layouts
  <1> QED BY <1>3, <1>6, <1>7, <1>8, <1>9, <1>11, <1>12, <1>13 DEF PagesInit

\* The inductive invariant of what the screens show.
THEOREM FreshInvariant == PagesSpec => []FreshInv
  <1>1. PagesInit => FreshInv
    BY FreshBegins
  <1>2. PagesInv /\ FreshInv /\ [PagesNext]_vars => FreshInv'
    BY FreshKeeps, FreshStutters
  <1> QED BY <1>1, <1>2, PagesInvariant, PTL DEF PagesSpec

\* Once nothing is awaited and nothing went wrong, these screens are right.
LEMMA OrderEndsFresh ==
  ASSUME OrderInv, screen \in OrderScreens, Clean(past), \A k \in DOMAIN calls : ~calls[k].live,
         screen = "first" => hooks.receipt = NoReceipt
  PROVE  Shown(screen, hooks, server)
  <1>1. \A op : Awaited(calls, op) = {} /\ ~Working(calls, op)
    BY DEF Awaited, Working, Does
  <1>2. ~Excused(screen, calls, hooks)
    BY <1>1 DEF Excused
  <1>3. InOrder(screen, calls, hooks, server)
    BY <1>2 DEF OrderInv, OrderGood
  <1> QED BY <1>1, <1>3 DEF InOrder

\* Once nothing is under way, whatever came in whichever order, a screen shows what the
\* back end has, unless a call failed, an answer was overtaken, a request outlived its
\* screen or two changes overlapped.
THEOREM FreshHolds == PagesSpec => []FreshUnlessOvertaken
  <1> DEFINE Rest == past \subseteq {"edited"} /\ \A i \in DOMAIN calls : ~calls[i].live
  <1>1. ASSUME PagesInv, FreshInv PROVE FreshUnlessOvertaken
    <2> SUFFICES ASSUME Rest PROVE FreshUnlessOvertaken
      BY DEF FreshUnlessOvertaken
    <2>1. Clean(past)
      BY DEF Clean
    <2>2. \A op : Awaited(calls, op) = {} /\ ~Working(calls, op)
      BY DEF Awaited, Working, Does
    <2>3. OrderInv /\ UsersInv /\ NoticesInv /\ SessionsInv /\ OffersInv /\ ListsInv
      BY <1>1 DEF FreshInv
    <2>4. CASE screen = "transfer"
      <3>1. IsMap(server.accounts) /\ hooks.accounts = OffersFor(server)
        BY <2>1, <2>2, <2>3, <2>4 DEF OffersInv, OffersGood
      <3>2. Ok(server.accounts).status = "ok" /\ Ok(server.accounts).value = server.accounts
        BY DEF Ok
      <3>3. hooks.accounts = Listed(Ok(server.accounts))
        BY <3>1, <3>2, ListedOffers
      <3> QED BY <2>4, <3>3 DEF FreshUnlessOvertaken, AdminLists
    <2>5. CASE screen \in OrderScreens
      <3>1. screen = "first" /\ hooks.receipt = NoReceipt => hooks.accounts = server.accounts
        BY <2>1, <2>3, <2>5, OrderEndsFresh DEF Shown
      <3>2. screen # "first" => Shown(screen, hooks, server)
        BY <2>1, <2>3, <2>5, OrderEndsFresh
      <3>3. CASE screen = "first"
        BY <3>1, <3>3 DEF FreshUnlessOvertaken, AdminLists
      <3>4. CASE screen = "lifecycle"
        <4>1. ~hooks.loading /\ (hooks.error \/ hooks.data = hooks.tx)
          BY <3>2, <3>4 DEF Shown
        <4>2. LifecycleView(hooks) \in {[view |-> "error", tx |-> 0], [view |-> "stages", tx |-> hooks.tx]}
          BY <4>1 DEF LifecycleView
        <4> QED BY <3>4, <4>2 DEF FreshUnlessOvertaken, AdminLists
      <3>5. CASE screen = "billpay"
        BY <3>2, <3>5 DEF FreshUnlessOvertaken, AdminLists, Shown
      <3>6. CASE screen = "flags"
        BY <3>2, <3>6 DEF FreshUnlessOvertaken, AdminLists, Shown
      <3>7. CASE screen \in AdminLists
        <4>1. hooks.events = server.events
          BY <3>2, <3>7 DEF Shown, AdminLists
        <4> QED BY <3>7, <4>1 DEF FreshUnlessOvertaken, AdminLists
      <3> QED BY <2>5, <3>3, <3>4, <3>5, <3>6, <3>7 DEF OrderScreens
    <2>6. CASE screen \in ListScreens
      <3>1. ~Working(calls, Loader(screen)) /\ screen \in LoadScreens
        BY <2>2, <2>6 DEF ListScreens, LoadScreens
      <3>2. ~hooks.loading
        BY <1>1, <3>1 DEF PagesInv, LoadInv, LoadGood
      <3>3. ListShown(screen, hooks, server)
        BY <1>1, <2>6, <3>2 DEF PagesInv, ListInv, ListGood
      <3> QED BY <2>6, <3>3 DEF FreshUnlessOvertaken, AdminLists, ListShown, ListScreens
    <2>7. CASE screen = "users"
      <3>1. hooks.users = server.users
        BY <2>1, <2>3, <2>7 DEF UsersInv, UserGood, UserOrder
      <3> QED BY <2>7, <3>1 DEF FreshUnlessOvertaken, AdminLists
    <2>8. CASE screen = "notifications"
      <3>1. \A n \in DOMAIN hooks.items : hooks.items[n] = server.notices[n]
        BY <2>1, <2>2, <2>3, <2>8 DEF NoticesInv, NoticeGood, NoticeOrder, Truly
      <3> QED BY <2>8, <3>1 DEF FreshUnlessOvertaken, AdminLists
    <2>9. CASE screen = "profile"
      <3>1. \A s : ~Gone(s, calls)
        BY <2>2 DEF Gone
      <3>2. SessionsOrder(hooks.sessions, calls, server.sessions)
        BY <2>1, <2>3, <2>9 DEF SessionsInv, SessionsGood
      <3>3. \A s : s \in server.sessions <=> s \in hooks.sessions
        BY <2>2, <3>1, <3>2 DEF SessionsOrder
      <3>4. hooks.sessions = server.sessions
        BY <3>3
      <3> QED BY <2>9, <3>4 DEF FreshUnlessOvertaken, AdminLists
    <2>10. CASE screen = "legacy"
      <3>1. hooks.page # "login" /\ hooks.said = "none" => hooks.shown = Len(LegacyPages[hooks.page].fetches)
        BY <2>1, <2>2, <2>3, <2>10 DEF ListsInv, ListsGood
      <3> QED BY <2>10, <3>1 DEF FreshUnlessOvertaken, AdminLists
    <2>11. CASE screen \notin FreshScreens \union ListScreens
      BY <2>11 DEF FreshUnlessOvertaken, AdminLists, FreshScreens, OrderScreens, ListScreens
    <2> QED BY <2>4, <2>5, <2>6, <2>7, <2>8, <2>9, <2>10, <2>11 DEF FreshScreens
  <1> QED BY <1>1, PagesInvariant, FreshInvariant, PTL

=============================================================================
