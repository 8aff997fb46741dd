-------------------------- MODULE CustomerScreens --------------------------
(***************************************************************************)
(* Notifications.jsx, Cards.jsx, Goals.jsx, Profile.jsx and                *)
(* AIAssistant.jsx of pages/customer, and components/NexusCopilot.jsx.     *)
(***************************************************************************)
EXTENDS Screen

CONSTANTS
  Notices,      \* notifications of the user in the back end
  Security,     \* those of type "security"; the others are of type "info"
  OtherSessions,\* sessions of the user on other devices
  Targets,      \* what may be typed as the target of a goal
  MaxItems      \* bound: cards, goals or messages on a screen

ASSUME NoticesAssumption == Security \subseteq Notices /\ {"here", "all"} \intersect OtherSessions = {}

CustomerRows ==
  {[notices |-> [n \in Notices |-> "unread"], sessions |-> {"here"} \union OtherSessions]}

(* Notifications.jsx and services/notifications: marks are sent and forgotten *)

NoticesState == [items |-> <<>>, activeTab |-> "all", loading |-> TRUE]

Kind(n) == IF n \in Security THEN "security" ELSE "info"

\* The list under the tab that is open.
NoticesShown(h) == {n \in DOMAIN h.items : h.activeTab \in {"all", Kind(n)}}

Unread(items) == {n \in DOMAIN items : items[n] = "unread"}

MarkedRead(items, ns) == [n \in DOMAIN items |-> IF n \in ns THEN "read" ELSE items[n]]

NoticesMount == Mount("notifications", NoticesState, <<Get("notices", "notices")>>)

NoticesFetched(i) ==
  /\ \/ /\ Back(i, "notices", "ok")
        /\ Resolve(i, [hooks EXCEPT !.items = calls[i].reply.value, !.loading = FALSE], <<>>)
     \/ /\ Back(i, "notices", "failed")
        /\ Resolve(i, [hooks EXCEPT !.loading = FALSE], <<>>)
  /\ UNCHANGED timers

MarkRead(n) ==
  /\ screen = "notifications" /\ n \in NoticesShown(hooks) \intersect Unread(hooks.items)
  /\ SetAndSend([hooks EXCEPT !.items = MarkedRead(@, {n})], <<Post("markRead", {n})>>)

\* The back end marks all it has, the screen all that it lists.
MarkAllRead ==
  /\ screen = "notifications" /\ Unread(hooks.items) # {}
  /\ SetAndSend([hooks EXCEPT !.items = MarkedRead(@, DOMAIN @)], <<Post("markRead", Notices)>>)

\* mark_as_read and mark_all_as_read.
MarkServe(i) ==
  /\ calls[i].op = "markRead"
  /\ Write(i, "markRead", [server EXCEPT !.notices = MarkedRead(@, calls[i].arg)], NoValue)

MarkAnswered(i) ==
  /\ calls[i].op = "markRead" /\ ~Unanswered(i)
  /\ Resolve(i, hooks, <<>>)
  /\ UNCHANGED timers

\* Only the screen forgets a notification; the row stays.
NoticeDelete(n) ==
  /\ screen = "notifications" /\ n \in NoticesShown(hooks)
  /\ Set([hooks EXCEPT !.items = [m \in DOMAIN @ \ {n} |-> @[m]]])

NoticesClear == screen = "notifications" /\ Set([hooks EXCEPT !.items = <<>>])

NoticesTab(t) == screen = "notifications" /\ Set([hooks EXCEPT !.activeTab = t])

(* Cards.jsx: cards live in the page only.  Card3D has no key, so its state    *)
(* stays when another card is selected.                                        *)

CardsState ==
  [frozen |-> <<FALSE, FALSE, FALSE>>, selectedCard |-> 1, showDetails |-> FALSE, flipped |-> FALSE, copied |-> FALSE]

CardsMount == Mount("cards", CardsState, <<>>)

CardSelect(c) == screen = "cards" /\ c \in DOMAIN hooks.frozen /\ Set([hooks EXCEPT !.selectedCard = c])

CardFreeze == screen = "cards" /\ Set([hooks EXCEPT !.frozen[hooks.selectedCard] = ~@])

CardDetails == screen = "cards" /\ Set([hooks EXCEPT !.showDetails = ~@])

CardFlip == screen = "cards" /\ Set([hooks EXCEPT !.flipped = ~@])

\* createVirtualCard selects the card it adds.
CardCreate ==
  /\ screen = "cards" /\ Len(hooks.frozen) < MaxItems
  /\ Set([hooks EXCEPT !.frozen = Append(@, FALSE), !.selectedCard = Len(hooks.frozen) + 1])

CardCopy == screen = "cards" /\ SetAndDelay([hooks EXCEPT !.copied = TRUE], "copied")

CardCopied == screen = "cards" /\ Fire("copied", [hooks EXCEPT !.copied = FALSE])

(* Goals.jsx *)

GoalsState == [targets |-> <<10000>>, showForm |-> FALSE, target |-> ""]

\* parseFloat(form.target) || 1000
Parsed(t) == IF t \in {"", "0"} THEN 1000 ELSE 500

GoalsMount == Mount("goals", GoalsState, <<>>)

GoalForm ==
  /\ screen = "goals"
  /\ \/ Set([hooks EXCEPT !.showForm = ~@])
     \/ \E t \in Targets : hooks.showForm /\ Set([hooks EXCEPT !.target = t])

GoalCreate ==
  /\ screen = "goals" /\ hooks.showForm /\ Len(hooks.targets) < MaxItems
  /\ Set([hooks EXCEPT !.targets = Append(@, Parsed(hooks.target)), !.showForm = FALSE, !.target = ""])

(* Profile.jsx: the sessions of the user on all devices *)

ProfileState ==
  [sessions |-> {}, sessionsLoading |-> TRUE, sessionsError |-> FALSE, revokingId |-> "none",
   revokingAll |-> FALSE, mfaEnabled |-> TRUE]

FetchSessions == <<Get("fetchSessions", "sessions")>>

ProfileMount == Mount("profile", ProfileState, FetchSessions)

ProfileToggle == screen = "profile" /\ Set([hooks EXCEPT !.mfaEnabled = ~@])

\* The list is asked for, or a session revoked.  History: while the other is under way.
ProfileSends(h, cs, other) ==
  /\ screen = "profile" /\ ~hooks.sessionsLoading
  /\ hooks' = h /\ Send(cs)
  /\ past' = IF InFlight(other) # {} THEN past \union {"overlapped"} ELSE past
  /\ UNCHANGED <<screen, timers, server>>

\* Refreshing neither hides the list nor disables the button.
SessionsRefresh == ProfileSends([hooks EXCEPT !.sessionsError = FALSE], FetchSessions, "revoke")

\* A failure lists this session only.
SessionsFetched(i) ==
  /\ \/ /\ Back(i, "fetchSessions", "ok")
        /\ Resolve(i, [hooks EXCEPT !.sessions = calls[i].reply.value, !.sessionsLoading = FALSE], <<>>)
     \/ /\ Back(i, "fetchSessions", "failed")
        /\ Resolve(i, [hooks EXCEPT !.sessions = {"here"}, !.sessionsError = TRUE,
                                    !.sessionsLoading = FALSE], <<>>)
  /\ UNCHANGED timers

\* One session at a time is marked as being revoked; only its button is disabled.
SessionRevoke(s) ==
  /\ s \in hooks.sessions \ {"here"} /\ hooks.revokingId # s
  /\ ProfileSends([hooks EXCEPT !.revokingId = s], <<Post("revoke", s)>>, "fetchSessions")

SessionRevokeAll ==
  /\ hooks.sessions \ {"here"} # {} /\ ~hooks.revokingAll
  /\ ProfileSends([hooks EXCEPT !.revokingAll = TRUE], <<Post("revoke", "all")>>, "fetchSessions")

Revoked(which) == IF which = "all" THEN OtherSessions ELSE {which}

\* revoke_session answers 404 where the session is gone, revoke_all_sessions does not.
RevokeServe(i) ==
  /\ calls[i].op = "revoke" /\ calls[i].arg \in server.sessions \union {"all"}
  /\ Write(i, "revoke", [server EXCEPT !.sessions = @ \ Revoked(calls[i].arg)], NoValue)

RevokeAnswered(i) ==
  LET which == calls[i].arg
      done == IF which = "all" THEN [hooks EXCEPT !.revokingAll = FALSE]
              ELSE [hooks EXCEPT !.revokingId = "none"]
  IN /\ \/ Back(i, "revoke", "ok") /\ Resolve(i, [done EXCEPT !.sessions = @ \ Revoked(which)], <<>>)
        \/ Back(i, "revoke", "failed") /\ Resolve(i, done, <<>>)
     /\ UNCHANGED timers

(* AIAssistant.jsx and NexusCopilot.jsx: answers come from the page itself     *)
(* after a random delay, so they may overtake one another                      *)

Chats == {"ai", "copilot"}

ChatState(s) == [messages |-> <<"assistant">>, input |-> FALSE, typing |-> FALSE, open |-> s = "ai"]

ChatMount(s) == Mount(s, ChatState(s), <<>>)

ChatTyped ==
  /\ screen \in Chats /\ hooks.open
  /\ Set([hooks EXCEPT !.input = ~@])

\* The Copilot's button; the assistant is a page.
ChatOpen == screen = "copilot" /\ Set([hooks EXCEPT !.open = ~@])

\* The input when it is not blank, or one of the chips on offer.
ChatSend ==
  /\ screen \in Chats /\ hooks.open /\ Len(hooks.messages) + Len(timers) + 2 <= MaxItems
  /\ hooks.input \/ screen = "ai" \/ Len(hooks.messages) <= 2
  /\ SetAndDelay([hooks EXCEPT !.messages = Append(@, "user"), !.input = FALSE, !.typing = TRUE], "reply")

ChatReply ==
  /\ screen \in Chats
  /\ Fire("reply", [hooks EXCEPT !.messages = Append(@, "assistant"), !.typing = FALSE])

CustomerNext ==
  \/ screen = "notifications" /\ NoticesMount
  \/ screen = "cards" /\ CardsMount
  \/ screen = "goals" /\ GoalsMount
  \/ screen = "profile" /\ (ProfileMount \/ \E s \in OtherSessions : SessionRevoke(s))
  \/ screen = "profile" /\ SessionRevokeAll
  \/ \E s \in Chats : screen = s /\ ChatMount(s)
  \/ \E n \in Notices : MarkRead(n) \/ NoticeDelete(n)
  \/ MarkAllRead \/ NoticesClear
  \/ \E t \in {"all", "security"} : NoticesTab(t)
  \/ \E c \in 1..MaxItems : CardSelect(c)
  \/ CardFreeze \/ CardDetails \/ CardFlip \/ CardCreate \/ CardCopy \/ CardCopied
  \/ GoalForm \/ GoalCreate
  \/ ProfileToggle \/ SessionsRefresh
  \/ ChatTyped \/ ChatOpen \/ ChatSend \/ ChatReply
  \/ \E i \in DOMAIN calls :
       \/ NoticesFetched(i) \/ MarkServe(i) \/ MarkAnswered(i)
       \/ SessionsFetched(i) \/ RevokeServe(i) \/ RevokeAnswered(i)
=============================================================================
