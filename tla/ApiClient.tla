------------------------------ MODULE ApiClient ------------------------------
(***************************************************************************)
(* frontend/src/api.js: the axios instance every page uses.  A call that   *)
(* comes back with 401 renews the tokens once and is sent again; calls     *)
(* that fail meanwhile wait for the same renewal.                          *)
(*                                                                         *)
(* Every browser tab has its own isRefreshing and failedQueue; tabs share  *)
(* localStorage and cookies.  JavaScript runs to completion, promise       *)
(* callbacks included, so a step is what one answer sets off.  The server  *)
(* is POST /auth/refresh and get_current_user as far as tokens go.         *)
(***************************************************************************)
EXTENDS Naturals, FiniteSets

CONSTANTS
  Tabs,     \* browser tabs in which the user is logged in
  Calls,    \* the calls the pages make
  TabOf     \* the tab of a call

ASSUME CallsAssumption == IsFiniteSet(Calls) /\ TabOf \in [Calls -> Tabs]

VARIABLES
  page,          \* "app", "leaving" (href = '/login' was assigned) or "login"
  isRefreshing,  \* module variable of api.js, per tab
  failedQueue,   \* calls whose promise waits for a refresh (all are released
                 \* at once, so their order does not matter)
  call,          \* per call: state, _retry, the token in its header, the cookie
                 \* it was sent with, the refresh token it redeems, the pair that
                 \* was issued for it; attempts and refused are history
  storage,       \* localStorage: access_token and refresh_token
  jar,           \* the cookies the server set
  cookies,       \* whether this browser keeps cookies
  issued,        \* token pairs issued so far: pair n is access and refresh token n
  alive,         \* access tokens that have not expired
  redeemed,      \* history: <<tab, refresh token>> pairs the server has renewed
  lost           \* history: tabs that missed the answer to a refresh

browser == <<page, isRefreshing, failedQueue, storage, jar, cookies>>
server == <<issued, alive>>
vars == <<browser, call, server, redeemed, lost>>

None == 0
NoTokens == [access |-> None, refresh |-> None]
Pair(n) == [access |-> n, refresh |-> n]

CallsOf(t) == {r \in Calls : TabOf[r] = t}

Refreshing == {"refreshing", "granted", "denied"}
Settled == {"done", "failed", "gone"}

Fresh == [state |-> "new", retry |-> FALSE, header |-> None, cookie |-> None,
          used |-> None, pair |-> None, attempts |-> 0, refused |-> None]

\* The user logged in a while ago; the access token may have expired since.
Init ==
  /\ page = [t \in Tabs |-> "app"]
  /\ isRefreshing = [t \in Tabs |-> FALSE]
  /\ failedQueue = [t \in Tabs |-> {}]
  /\ call = [r \in Calls |-> Fresh]
  /\ cookies \in BOOLEAN
  /\ storage = Pair(1) /\ jar = IF cookies THEN Pair(1) ELSE NoTokens
  /\ issued = 1 /\ alive \in {{}, {1}}
  /\ redeemed = {} /\ lost = {}

-----------------------------------------------------------------------------
(* Sending *)

\* The request interceptor: a call that has no Authorization header yet gets the
\* token in localStorage; a call that is sent again keeps the header it has.
Attach(header, store) == IF header = None THEN store.access ELSE header

\* api(config): the call leaves with its header and with the cookies of the jar.
Dispatched(c, store, cookie) ==
  [state |-> "sent", retry |-> c.retry, header |-> Attach(c.header, store),
   cookie |-> cookie.access, used |-> None, pair |-> None,
   attempts |-> c.attempts + 1, refused |-> c.refused]

\* The promise of a call is resolved or rejected, or its page is gone.
Ended(c, state) ==
  [state |-> state, retry |-> c.retry, header |-> None, cookie |-> None,
   used |-> None, pair |-> None, attempts |-> c.attempts, refused |-> None]

\* The server looks at the cookie first (_extract_token).
Presented(c) == IF c.cookie # None THEN c.cookie ELSE c.header

Send(r) ==
  /\ call[r].state = "new" /\ page[TabOf[r]] # "login"
  /\ call' = [call EXCEPT ![r] = Dispatched(@, storage, jar)]
  /\ UNCHANGED <<browser, server, redeemed, lost>>

-----------------------------------------------------------------------------
(* Answers to a call *)

Ends(r, state) ==
  /\ call' = [call EXCEPT ![r] = Ended(@, state)]
  /\ UNCHANGED <<browser, server, redeemed, lost>>

\* get_current_user accepts the token, and the call succeeds.
Succeed(r) ==
  /\ call[r].state = "sent" /\ Presented(call[r]) \in alive
  /\ Ends(r, "done")

\* The token is missing or has expired: a 401 is on its way.
Refuse(r) ==
  /\ call[r].state = "sent" /\ Presented(call[r]) \notin alive
  /\ call' = [call EXCEPT ![r].state = "unauthorized",
                          ![r].refused = Presented(call[r])]
  /\ UNCHANGED <<browser, server, redeemed, lost>>

\* No answer within the timeout of 30 seconds, a broken connection, or an error
\* other than 401: the promise is rejected.
Fail(r) == call[r].state = "sent" /\ Ends(r, "failed")

\* A second 401 is not worth another refresh.
GiveUp(r) ==
  /\ call[r].state = "unauthorized" /\ call[r].retry
  /\ Ends(r, "failed")

Unauthorized(r) == call[r].state = "unauthorized" /\ ~call[r].retry

\* Faulty form: the call is sent again without waiting for the refresh.
EnqueueImpatient(r) ==
  /\ Unauthorized(r) /\ isRefreshing[TabOf[r]]
  /\ call' = [call EXCEPT ![r] = Dispatched(@, storage, jar)]
  /\ UNCHANGED <<browser, server, redeemed, lost>>

\* A refresh is under way in this tab: wait for it.
Enqueue(r) ==
  /\ Unauthorized(r) /\ isRefreshing[TabOf[r]]
  /\ failedQueue' = [failedQueue EXCEPT ![TabOf[r]] = @ \cup {r}]
  /\ call' = [call EXCEPT ![r].state = "queued"]
  /\ UNCHANGED <<page, isRefreshing, storage, jar, cookies, server, redeemed, lost>>

-----------------------------------------------------------------------------
(* The refresh *)

\* The cookie goes before the body, which holds the copy of localStorage.
RefreshToken == IF jar.refresh # None THEN jar.refresh ELSE storage.refresh

\* Faulty forms: the flag is not looked at; it is not set; the call is not marked.
StartRefreshAlways(r) ==
  /\ Unauthorized(r)
  /\ isRefreshing' = [isRefreshing EXCEPT ![TabOf[r]] = TRUE]
  /\ call' = [call EXCEPT ![r].state = "refreshing", ![r].retry = TRUE,
                          ![r].used = RefreshToken]
  /\ UNCHANGED <<page, failedQueue, storage, jar, cookies, server, redeemed, lost>>
StartRefreshUnflagged(r) ==
  /\ Unauthorized(r) /\ ~isRefreshing[TabOf[r]]
  /\ call' = [call EXCEPT ![r].state = "refreshing", ![r].retry = TRUE,
                          ![r].used = RefreshToken]
  /\ UNCHANGED <<browser, server, redeemed, lost>>
StartRefreshUnmarked(r) ==
  /\ Unauthorized(r) /\ ~isRefreshing[TabOf[r]]
  /\ isRefreshing' = [isRefreshing EXCEPT ![TabOf[r]] = TRUE]
  /\ call' = [call EXCEPT ![r].state = "refreshing", ![r].used = RefreshToken]
  /\ UNCHANGED <<page, failedQueue, storage, jar, cookies, server, redeemed, lost>>

\* The first 401 of a tab posts to /auth/refresh, on bare axios: no timeout.
StartRefresh(r) ==
  /\ Unauthorized(r) /\ ~isRefreshing[TabOf[r]]
  /\ isRefreshing' = [isRefreshing EXCEPT ![TabOf[r]] = TRUE]
  /\ call' = [call EXCEPT ![r].state = "refreshing", ![r].retry = TRUE,
                          ![r].used = RefreshToken]
  /\ UNCHANGED <<page, failedQueue, storage, jar, cookies, server, redeemed, lost>>

\* refresh_token() on the server issues a new pair.  The old session row is marked
\* as revoked, which no later check reads.
Renew(r) ==
  /\ call[r].state = "refreshing" /\ call[r].used # None
  /\ issued' = issued + 1 /\ alive' = alive \cup {issued'}
  /\ call' = [call EXCEPT ![r].state = "granted", ![r].pair = issued']
  /\ redeemed' = redeemed \cup {<<TabOf[r], call[r].used>>}
  /\ UNCHANGED <<browser, lost>>

\* There is no refresh token or it has expired, or the user is locked or inactive:
\* the server may deny any refresh.
Deny(r) ==
  /\ call[r].state = "refreshing"
  /\ call' = [call EXCEPT ![r].state = "denied"]
  /\ UNCHANGED <<browser, server, redeemed, lost>>

\* Faulty form: the new refresh token is not kept.
StoreAccessOnly(n) == [storage EXCEPT !.access = n]

\* Both tokens of the answer go to localStorage.
Store(n) == Pair(n)

\* Faulty form: processQueue(null) is forgotten.
AdoptAlone(r) ==
  /\ call[r].state = "granted"
  /\ storage' = Store(call[r].pair)
  /\ jar' = IF cookies THEN Pair(call[r].pair) ELSE jar
  /\ call' = [call EXCEPT ![r] = Dispatched(@, storage', jar')]
  /\ isRefreshing' = [isRefreshing EXCEPT ![TabOf[r]] = FALSE]
  /\ UNCHANGED <<page, failedQueue, cookies, server, redeemed, lost>>

\* The new pair arrives: the browser keeps its cookies, the tokens are stored,
\* every waiting call is sent again, and so is the one that asked.
Adopt(r) ==
  LET t == TabOf[r] IN
  /\ call[r].state = "granted"
  /\ storage' = Store(call[r].pair)
  /\ jar' = IF cookies THEN Pair(call[r].pair) ELSE jar
  /\ call' = [c \in Calls |-> IF c = r \/ c \in failedQueue[t]
                              THEN Dispatched(call[c], storage', jar')
                              ELSE call[c]]
  /\ failedQueue' = [failedQueue EXCEPT ![t] = {}]
  /\ isRefreshing' = [isRefreshing EXCEPT ![t] = FALSE]
  /\ UNCHANGED <<page, cookies, server, redeemed, lost>>

\* The refresh was denied or its answer never came: every waiting call is
\* rejected, localStorage is cleared and the tab goes to the login page.  The
\* cookies stay.
Abandon(r) ==
  LET t == TabOf[r] IN
  /\ call[r].state \in Refreshing
  /\ call' = [c \in Calls |-> IF c = r \/ c \in failedQueue[t]
                              THEN Ended(call[c], "failed")
                              ELSE call[c]]
  /\ failedQueue' = [failedQueue EXCEPT ![t] = {}]
  /\ isRefreshing' = [isRefreshing EXCEPT ![t] = FALSE]
  /\ storage' = NoTokens
  /\ page' = [page EXCEPT ![t] = "leaving"]
  /\ lost' = IF call[r].state = "granted" THEN lost \cup {t} ELSE lost
  /\ UNCHANGED <<jar, cookies, server, redeemed>>

-----------------------------------------------------------------------------
(* The browser and the clock *)

\* The login page is loaded: the scripts of the tab start anew, and the calls that
\* were under way are nobody's any more.
Reload(t) ==
  /\ page[t] = "leaving"
  /\ page' = [page EXCEPT ![t] = "login"]
  /\ call' = [c \in Calls |->
       IF TabOf[c] = t /\ call[c].state \notin Settled \cup {"new"}
       THEN Ended(call[c], "gone") ELSE call[c]]
  /\ failedQueue' = [failedQueue EXCEPT ![t] = {}]
  /\ isRefreshing' = [isRefreshing EXCEPT ![t] = FALSE]
  /\ UNCHANGED <<storage, jar, cookies, server, redeemed, lost>>

\* Access tokens expire in the order they were issued in.
Expire(n) ==
  /\ n \in alive /\ \A m \in alive : n <= m
  /\ alive' = alive \ {n}
  /\ UNCHANGED <<browser, call, issued, redeemed, lost>>

\* The cookie of an access token has the age of the token.
DropCookie ==
  /\ jar.access # None /\ jar.access \notin alive
  /\ jar' = [jar EXCEPT !.access = None]
  /\ UNCHANGED <<page, isRefreshing, failedQueue, storage, cookies, call, server,
                 redeemed, lost>>

-----------------------------------------------------------------------------

\* What an answer to a call, or the end of waiting for one, sets off.
Progress(r) == Succeed(r) \/ Refuse(r) \/ Fail(r) \/ GiveUp(r) \/ Enqueue(r)
               \/ StartRefresh(r) \/ Adopt(r)

\* The server answers a refresh, or its connection breaks.
RefreshEnds(r) == Renew(r) \/ Deny(r) \/ Abandon(r)

Next ==
  \/ \E r \in Calls : Send(r) \/ Progress(r) \/ RefreshEnds(r)
  \/ \E t \in Tabs : Reload(t)
  \/ \E n \in 1 .. issued : Expire(n)
  \/ DropCookie

Spec == Init /\ [][Next]_vars

\* Calls of the instance time out, and the event loop of a tab runs what arrives.
ClientSpec ==
  /\ Spec
  /\ \A r \in Calls : WF_vars(Progress(r))
  /\ \A t \in Tabs : WF_vars(Reload(t))

\* Besides, every refresh is answered or its connection is closed.
FairSpec == ClientSpec /\ \A r \in Calls : WF_vars(RefreshEnds(r))

-----------------------------------------------------------------------------
(* Properties *)

States == {"new", "sent", "unauthorized", "queued"} \cup Refreshing \cup Settled

\* A call that has met no token beyond pair n.
CallRecord(n) ==
  [state : States, retry : BOOLEAN, header : 0 .. n, cookie : 0 .. n,
   used : 0 .. n, pair : 0 .. n, attempts : Nat, refused : 0 .. n]

\* The type invariant; the two tokens in localStorage always come from one answer.
TypeOK ==
  /\ page \in [Tabs -> {"app", "leaving", "login"}]
  /\ isRefreshing \in [Tabs -> BOOLEAN]
  /\ failedQueue \in [Tabs -> SUBSET Calls]
  /\ cookies \in BOOLEAN /\ issued \in Nat
  /\ call \in [Calls -> CallRecord(issued)]
  /\ \E n \in 0 .. issued : storage = Pair(n)
  /\ \E n \in 0 .. issued : jar \in {Pair(n), [access |-> None, refresh |-> n]}
  /\ alive \subseteq 1 .. issued
  /\ redeemed \subseteq Tabs \X (1 .. issued) /\ lost \subseteq Tabs

\* A tab renews its tokens once at a time: isRefreshing is set exactly while one
\* of its calls waits for /auth/refresh.
RefreshSerialized ==
  \A t \in Tabs :
    LET renewing == {r \in CallsOf(t) : call[r].state \in Refreshing} IN
    /\ isRefreshing[t] <=> renewing # {}
    /\ \A r, s \in renewing : r = s

\* No waiting promise is dropped or left over: the calls that wait are those in
\* failedQueue, and a refresh that will release them is under way.
NoneForgotten ==
  \A t \in Tabs :
    /\ failedQueue[t] = {r \in CallsOf(t) : call[r].state = "queued"}
    /\ failedQueue[t] # {} => isRefreshing[t]

\* A tab never renews with a refresh token it has renewed before, unless it
\* missed an answer: the rotation of the server is respected ("token rotation").
RotationRespected ==
  [][\A r \in Calls :
       call[r].state = "refreshing" /\ call'[r].state = "granted" =>
         <<TabOf[r], call[r].used>> \notin redeemed \/ TabOf[r] \in lost]_vars

\* Every time a call is sent again, some call of its tab has used up its only
\* refresh: there are no endless retries.
NoRetryStorm ==
  \A r \in Calls :
    call[r].attempts <= 1 + Cardinality({s \in CallsOf(TabOf[r]) : call[s].retry})

\* Where the browser keeps cookies a call is sent again with a token other than
\* the one that was refused.
RetryUsesNewToken ==
  \A r \in Calls :
    cookies /\ call[r].state = "sent" /\ call[r].attempts > 1 =>
      Presented(call[r]) # call[r].refused

\* "Failed request is automatically retried with new token" (api.js:30), also in
\* a browser without cookies, which localStorage is kept for.
RetriedWithNewToken ==
  \A r \in Calls :
    call[r].state = "sent" /\ call[r].attempts > 1 =>
      Presented(call[r]) # call[r].refused

\* Every call that was sent ends.  Under ClientSpec this is what the 30 second
\* timeout that "prevents hanging requests" (api.js:56) is for.
EveryCallSettles ==
  \A r \in Calls : (call[r].state = "sent") ~> (call[r].state \in Settled)
=============================================================================
