---------------------------- MODULE LiveScreens ----------------------------
(***************************************************************************)
(* What moves by itself: the layouts around the screens (DashboardLayout,  *)
(* AdminLayout, ThemeContext), pages/customer/Globe.jsx, and the counter   *)
(* of pages/public/Landing.jsx and the notice of Contact.jsx.              *)
(***************************************************************************)
EXTENDS Screen

CONSTANTS
  Cities,      \* those of the globe
  ToastLimit,  \* toasts that a new one leaves (4 in the source)
  ArcLimit,    \* arcs that a new payment leaves (12 in the source)
  FeedLimit,   \* payments in the feed (8 in the source)
  MaxEvents    \* bound: messages of the socket, payments of the globe

ASSUME LimitsAssumption ==
  /\ ToastLimit \in Nat \ {0} /\ ArcLimit \in Nat \ {0} /\ FeedLimit \in Nat /\ MaxEvents \in Nat
  /\ MaxTimers >= 4   \* room for those the globe begins with

LiveRows == {[theme |-> "dark"], [theme |-> "light"]}

\* s.slice(-n), which for n = 0 is all of s, and s.slice(0, n).
LastOf(s, n) == IF n = 0 \/ n >= Len(s) THEN s ELSE SubSeq(s, Len(s) - n + 1, Len(s))
FirstOf(s, n) == IF n >= Len(s) THEN s ELSE SubSeq(s, 1, n)

(* The layouts.  server stands for localStorage, which keeps the theme.        *)

Layouts == {"customerLayout", "adminLayout"}

Alerts == 1..2

ShellState ==
  [wsNotifs |-> <<>>, received |-> 0, mobileMenuOpen |-> FALSE,
   open |-> FALSE, unread |-> Alerts, theme |-> server.theme]

ShellMount(s) == Mount(s, ShellState, <<>>)

\* ws.onmessage: [...prev.slice(-4), e.data], and a timeout that takes the oldest away.
ShellMessage ==
  /\ screen = "customerLayout" /\ hooks.received < MaxEvents
  /\ SetAndDelay([hooks EXCEPT !.wsNotifs = Append(LastOf(@, ToastLimit), hooks.received + 1),
                               !.received = @ + 1], "toast")

ShellToastEnds ==
  screen = "customerLayout" /\ Fire("toast", [hooks EXCEPT !.wsNotifs = SubSeq(@, 2, Len(@))])

ShellMenu ==
  /\ screen \in Layouts
  /\ \/ Set([hooks EXCEPT !.mobileMenuOpen = ~@])
     \/ hooks.mobileMenuOpen /\ Set([hooks EXCEPT !.mobileMenuOpen = FALSE])

\* A link of the administration's console closes the menu, one of the other two
\* groups leaves it open over the screen that it leads to.
AdminLink ==
  /\ screen = "adminLayout"
  /\ \E group \in {"console", "engineering", "infrastructure"} :
       Set([hooks EXCEPT !.mobileMenuOpen = IF group = "console" THEN FALSE ELSE @])

\* The bell opens and closes the list, a click elsewhere closes it.
NotificationCenter ==
  /\ screen \in Layouts
  /\ \/ Set([hooks EXCEPT !.open = ~@])
     \/ hooks.open /\ Set([hooks EXCEPT !.open = FALSE])
     \/ hooks.open /\ hooks.unread # {} /\ Set([hooks EXCEPT !.unread = {}])

\* toggleTheme, and the effect that stores the theme.
ToggleTheme ==
  LET other == IF hooks.theme = "dark" THEN "light" ELSE "dark" IN
  /\ screen \in Layouts
  /\ hooks' = [hooks EXCEPT !.theme = other] /\ server' = [server EXCEPT !.theme = other]
  /\ UNCHANGED <<screen, calls, timers, past>>

(* Globe.jsx *)

\* Payments are named by their ids, 1, 2, ...; zoom is in steps of 0.2 from 0.6 to 2.
GlobeState ==
  [livePayments |-> <<>>, txFeed |-> <<>>, totalTx |-> 0, zoom |-> 2, autoRotate |-> TRUE, selectedCity |-> "none"]

\* The first three payments come by timeouts, the frames by requestAnimationFrame.
GlobeTimers == <<"spawn", "spawn", "spawn", "frame">>

GlobeMount == MountWith("globe", GlobeState, <<>>, GlobeTimers)

\* The new payment on the map and in the feed, and the timeout that removes it.
Spawned(h) ==
  LET id == h.totalTx + 1 IN
  [h EXCEPT !.livePayments = Append(LastOf(@, ArcLimit), id),
            !.txFeed = FirstOf(<<id>> \o @, FeedLimit),
            !.totalTx = id]

\* A timeout spawns a payment.
GlobeSpawnLater ==
  /\ screen = "globe" /\ Pending("spawn") /\ hooks.totalTx < MaxEvents
  /\ hooks' = Spawned(hooks)
  /\ timers' = Append(RemoveAt(timers, First("spawn")), "arc")
  /\ UNCHANGED <<screen, calls, server, past>>

\* The interval spawns one, and sometimes has a second one follow.
GlobeSpawn ==
  /\ screen = "globe" /\ hooks.totalTx < MaxEvents
  /\ \E more \in {<<>>, <<"spawn">>} :
       /\ Len(timers) + 1 + Len(more) <= MaxTimers
       /\ timers' = (timers \o <<"arc">>) \o more
  /\ hooks' = Spawned(hooks)
  /\ UNCHANGED <<screen, calls, server, past>>

\* Arcs all stay as long, so their timeouts fire in the order of the payments.
ArcTimers == {k \in DOMAIN timers : timers[k] = "arc"}

NextArc == hooks.totalTx - Cardinality(ArcTimers) + 1

\* prev.filter(p => p.id !== id): no two payments have one id.
Dismiss(s, id) ==
  IF \E k \in DOMAIN s : s[k] = id THEN RemoveAt(s, CHOOSE k \in DOMAIN s : s[k] = id) ELSE s

\* Faulty form: the newest payment goes instead of the one whose time is up.
GlobeArcEndsNewest ==
  /\ screen = "globe"
  /\ Fire("arc", [hooks EXCEPT !.livePayments = Dismiss(@, hooks.totalTx)])

GlobeArcEnds ==
  /\ screen = "globe"
  /\ Fire("arc", [hooks EXCEPT !.livePayments = Dismiss(@, NextArc)])

GlobeZoom ==
  /\ screen = "globe"
  /\ \/ Set([hooks EXCEPT !.zoom = IF @ < 7 THEN @ + 1 ELSE 7])
     \/ Set([hooks EXCEPT !.zoom = IF @ > 0 THEN @ - 1 ELSE 0])

\* The effect on autoRotate asks for a frame or cancels the one it asked for.
Rotate(h) ==
  /\ screen = "globe" /\ hooks' = h
  /\ timers' = CASE h.autoRotate /\ ~Pending("frame") -> Append(timers, "frame")
                 [] ~h.autoRotate /\ Pending("frame") -> RemoveAt(timers, First("frame"))
                 [] OTHER -> timers
  /\ Len(timers) + (IF h.autoRotate THEN 1 ELSE 0) <= MaxTimers
  /\ UNCHANGED <<screen, calls, server, past>>

GlobeRotate == screen = "globe" /\ Rotate([hooks EXCEPT !.autoRotate = ~@])

\* A city stops the globe; the overview does not start it again.
GlobeCity(c) == screen = "globe" /\ Rotate([hooks EXCEPT !.selectedCity = c, !.autoRotate = FALSE])

GlobeOverview ==
  screen = "globe" /\ hooks.selectedCity # "none" /\ Set([hooks EXCEPT !.selectedCity = "none"])

(* Landing.jsx: a counter that an interval takes to its end; Contact.jsx *)

CountEnd == 5
CountStep == 2   \* Math.ceil(end / 50)

LandingState == [count |-> 0]
LandingTimers == <<"count">>

LandingMount == MountWith("landing", LandingState, <<>>, LandingTimers)

LandingCount ==
  /\ screen = "landing" /\ Pending("count")
  /\ LET start == hooks.count + CountStep IN
     IF start >= CountEnd
       THEN hooks' = [hooks EXCEPT !.count = CountEnd] /\ timers' = <<>>
       ELSE hooks' = [hooks EXCEPT !.count = start] /\ UNCHANGED timers
  /\ UNCHANGED <<screen, calls, server, past>>

ContactState == [submitted |-> FALSE]

ContactMount == Mount("contact", ContactState, <<>>)

\* The form stays: it may be sent again while the notice of the first is shown.
ContactSubmit == screen = "contact" /\ SetAndDelay([hooks EXCEPT !.submitted = TRUE], "submitted")

ContactEnds == screen = "contact" /\ Fire("submitted", [hooks EXCEPT !.submitted = FALSE])

LiveNext ==
  \/ \E s \in Layouts : screen = s /\ ShellMount(s)
  \/ screen = "globe" /\ GlobeMount
  \/ screen = "landing" /\ LandingMount
  \/ screen = "contact" /\ ContactMount
  \/ ShellMessage \/ ShellToastEnds \/ ShellMenu \/ AdminLink \/ NotificationCenter \/ ToggleTheme
  \/ GlobeSpawn \/ GlobeSpawnLater \/ GlobeArcEnds \/ GlobeZoom \/ GlobeRotate \/ GlobeOverview
  \/ \E c \in Cities : GlobeCity(c)
  \/ LandingCount \/ ContactSubmit \/ ContactEnds
=============================================================================
