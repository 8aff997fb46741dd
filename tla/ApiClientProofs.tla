--------------------------- MODULE ApiClientProofs ---------------------------
(***************************************************************************)
(* Proofs about ApiClient, for any number of tabs and calls: the types, one *)
(* refresh at a time in a tab, no forgotten call, no refresh token used    *)
(* twice, a new token for every retry, and no endless retries.             *)
(***************************************************************************)
EXTENDS ApiClient, FiniteSetTheorems, TLAPS

-----------------------------------------------------------------------------
(* The inductive invariant *)

\* A call that was not sent has nothing to remember, and a tab that shows the
\* login page has no call under way.
Tidy ==
  /\ \A r \in Calls : call[r].state = "new" => call[r] = Fresh
  /\ \A r \in Calls : page[TabOf[r]] = "login" =>
                        call[r].state \in Settled \cup {"new"}

\* One refresh at a time, and the calls that wait for it.
Serial == TypeOK /\ Tidy /\ RefreshSerialized /\ NoneForgotten

Granted == {r \in Calls : call[r].state = "granted"}

\* Nobody has seen the pair of an answer that is on its way.
Unseen ==
  /\ \A r \in Granted : call[r].pair # None
  /\ \A r, s \in Granted : call[r].pair = call[s].pair => r = s
  /\ \A r \in Granted :
       /\ call[r].pair \notin {storage.refresh, jar.refresh}
       /\ \A c \in Calls : call[r].pair \notin {call[c].header, call[c].cookie,
                                                call[c].used, call[c].refused}
       /\ \A t \in Tabs : <<t, call[r].pair>> \notin redeemed

\* A tab will not redeem token n now, and finds it in the jar or in localStorage
\* only until the answer to the renewal with n arrives.
Spent(t, n) ==
  /\ \A r \in CallsOf(t) : call[r].state = "refreshing" => call[r].used # n
  /\ n \in {storage.refresh, jar.refresh} =>
       \E r \in CallsOf(t) : call[r].state = "granted" /\ call[r].used = n

\* A token a tab renewed with is spent for it.
Remembered ==
  \A t \in Tabs \ lost, n \in 1 .. issued :
    <<t, n>> \in redeemed /\ page[t] # "login" => Spent(t, n)

Rotating ==
  /\ Serial /\ Unseen /\ Remembered /\ RetryUsesNewToken
  /\ ~cookies => jar.refresh = None

-----------------------------------------------------------------------------
(* Types *)

\* What a call may refer to only grows.
LEMMA RecordGrows ==
  ASSUME NEW n \in Nat, NEW c \in CallRecord(n)
  PROVE  c \in CallRecord(n + 1)
  BY DEF CallRecord

\* A call that is sent carries tokens that were issued.
LEMMA DispatchedTyped ==
  ASSUME NEW n \in Nat, NEW c \in CallRecord(n), NEW k \in 0 .. n,
         NEW m \in 0 .. n, NEW cookie, cookie.access \in {m, None}
  PROVE  Dispatched(c, Pair(k), cookie) \in CallRecord(n)
  <1> DEFINE h == Attach(c.header, Pair(k))
  <1>1. h \in 0 .. n
    BY DEF CallRecord, Attach, Pair
  <1>2. cookie.access \in 0 .. n /\ None \in 0 .. n
    BY DEF None
  <1>3. "sent" \in States
    BY DEF States
  <1> HIDE DEF h
  <1>4. Dispatched(c, Pair(k), cookie)
          = [state |-> "sent", retry |-> c.retry, header |-> h,
             cookie |-> cookie.access, used |-> None, pair |-> None,
             attempts |-> c.attempts + 1, refused |-> c.refused]
    BY DEF Dispatched, h
  <1> QED BY <1>1, <1>2, <1>3, <1>4 DEF CallRecord

\* A call that ended has forgotten its tokens.
LEMMA EndedTyped ==
  ASSUME NEW n \in Nat, NEW c \in CallRecord(n), NEW s \in States
  PROVE  Ended(c, s) \in CallRecord(n)
  <1>1. c.retry \in BOOLEAN /\ c.attempts \in Nat /\ 0 \in 0 .. n
    BY DEF CallRecord
  <1> QED BY <1>1 DEF Ended, None, CallRecord

\* The fields of the jar.
LEMMA JarFacts ==
  ASSUME TypeOK
  PROVE  /\ jar.refresh \in 0 .. issued
         /\ jar.access \in {jar.refresh, None}
         /\ storage.refresh \in 0 .. issued
         /\ storage.access = storage.refresh
         /\ storage = Pair(storage.refresh)
  BY DEF TypeOK, Pair, None

\* A user who just logged in, with one pair of tokens.
LEMMA TypedInit == Init => TypeOK
  <1> SUFFICES ASSUME Init PROVE TypeOK
    OBVIOUS
  <1>1. call \in [Calls -> CallRecord(issued)]
    BY DEF Init, Fresh, CallRecord, States, None
  <1>2. \E n \in 0 .. issued : jar \in {Pair(n), [access |-> None, refresh |-> n]}
    BY DEF Init, Pair, NoTokens, None
  <1> QED BY <1>1, <1>2 DEF Init, TypeOK

\* No step leaves the types.
LEMMA TypedNext == TypeOK /\ [Next]_vars => TypeOK'
  <1> SUFFICES ASSUME TypeOK, [Next]_vars PROVE TypeOK'
    OBVIOUS
  <1> USE CallsAssumption
  <1> USE DEF browser, server
  <1>1. ASSUME NEW r \in Calls, Send(r) PROVE TypeOK'
    <2>1. Dispatched(call[r], storage, jar) \in CallRecord(issued)
      BY JarFacts, DispatchedTyped DEF TypeOK
    <2> QED BY <1>1, <2>1 DEF Send, TypeOK
  <1>2. ASSUME NEW r \in Calls, NEW s \in States, Ends(r, s) PROVE TypeOK'
    <2>1. Ended(call[r], s) \in CallRecord(issued)
      BY EndedTyped DEF TypeOK
    <2> QED BY <1>2, <2>1 DEF Ends, TypeOK
  <1>3. ASSUME NEW r \in Calls, Refuse(r) PROVE TypeOK'
    <2>1. Presented(call[r]) \in 0 .. issued /\ "unauthorized" \in States
      BY DEF Presented, TypeOK, CallRecord, States
    <2> DEFINE p == Presented(call[r])
    <2>2. call' = [call EXCEPT ![r] = [call[r] EXCEPT !.state = "unauthorized",
                                                      !.refused = p]]
      BY <1>3 DEF Refuse, TypeOK
    <2> HIDE DEF p
    <2>3. call' \in [Calls -> CallRecord(issued)]
      BY <2>1, <2>2 DEF TypeOK, CallRecord, p
    <2> QED BY <1>3, <2>3 DEF Refuse, TypeOK
  <1>4. ASSUME NEW r \in Calls, Enqueue(r) PROVE TypeOK'
    <2>1. call' \in [Calls -> CallRecord(issued)]
      BY <1>4 DEF Enqueue, TypeOK, CallRecord, States
    <2> QED BY <1>4, <2>1 DEF Enqueue, TypeOK
  <1>5. ASSUME NEW r \in Calls, StartRefresh(r) PROVE TypeOK'
    <2>1. RefreshToken \in 0 .. issued /\ "refreshing" \in States
      BY JarFacts DEF RefreshToken, States, Refreshing
    <2>2. call' = [call EXCEPT ![r] = [call[r] EXCEPT !.state = "refreshing",
                                         !.retry = TRUE, !.used = RefreshToken]]
      BY <1>5 DEF StartRefresh, TypeOK
    <2>3. call' \in [Calls -> CallRecord(issued)]
      BY <2>1, <2>2 DEF TypeOK, CallRecord
    <2> QED BY <1>5, <2>3 DEF StartRefresh, TypeOK
  <1>6. ASSUME NEW r \in Calls, Adopt(r) PROVE TypeOK'
    <2>1. call[r].pair \in 0 .. issued
      BY DEF TypeOK, CallRecord
    <2>2. storage' = Pair(call[r].pair) /\ (jar' = Pair(call[r].pair) \/ jar' = jar)
      BY <1>6 DEF Adopt, Store
    <2>3. \E m \in 0 .. issued : jar'.access \in {m, None}
      BY <2>1, <2>2, JarFacts DEF Pair
    <2>4. \A c \in Calls : Dispatched(call[c], storage', jar') \in CallRecord(issued)
      BY <2>1, <2>2, <2>3, DispatchedTyped DEF TypeOK
    <2>5. call' \in [Calls -> CallRecord(issued)]
      BY <1>6, <2>4 DEF Adopt, TypeOK
    <2> QED BY <1>6, <2>1, <2>2, <2>5 DEF Adopt, TypeOK
  <1>7. ASSUME NEW r \in Calls, Renew(r) PROVE TypeOK'
    <2>1. issued' = issued + 1 /\ issued' \in Nat
      BY <1>7 DEF Renew, TypeOK
    <2>2. \A c \in Calls : call[c] \in CallRecord(issued')
      BY <2>1, RecordGrows DEF TypeOK
    <2>3. call' \in [Calls -> CallRecord(issued')]
      BY <1>7, <2>1, <2>2 DEF Renew, TypeOK, CallRecord, States, Refreshing
    <2>4. call[r].used \in 1 .. issued
      BY <1>7 DEF Renew, TypeOK, CallRecord, None
    <2> QED BY <1>7, <2>1, <2>3, <2>4 DEF Renew, TypeOK
  <1>8. ASSUME NEW r \in Calls, Deny(r) PROVE TypeOK'
    <2>1. call' \in [Calls -> CallRecord(issued)]
      BY <1>8 DEF Deny, TypeOK, CallRecord, States, Refreshing
    <2> QED BY <1>8, <2>1 DEF Deny, TypeOK
  <1>9. ASSUME NEW r \in Calls, Abandon(r) PROVE TypeOK'
    <2>1. \A c \in Calls : Ended(call[c], "failed") \in CallRecord(issued)
      BY EndedTyped DEF TypeOK, States, Settled
    <2>2. call' \in [Calls -> CallRecord(issued)]
      BY <1>9, <2>1 DEF Abandon, TypeOK
    <2>3. storage' = Pair(0) /\ 0 \in 0 .. issued
      BY <1>9 DEF Abandon, NoTokens, Pair, None, TypeOK
    <2> QED BY <1>9, <2>2, <2>3 DEF Abandon, TypeOK
  <1>10. ASSUME NEW t \in Tabs, Reload(t) PROVE TypeOK'
    <2>1. \A c \in Calls : Ended(call[c], "gone") \in CallRecord(issued)
      BY EndedTyped DEF TypeOK, States, Settled
    <2>2. call' \in [Calls -> CallRecord(issued)]
      BY <1>10, <2>1 DEF Reload, TypeOK
    <2> QED BY <1>10, <2>2 DEF Reload, TypeOK
  <1>11. ASSUME NEW n \in 1 .. issued, Expire(n) PROVE TypeOK'
    BY <1>11 DEF Expire, TypeOK
  <1>12. CASE DropCookie
    <2>1. PICK n \in 0 .. issued : jar \in {Pair(n), [access |-> None, refresh |-> n]}
      BY DEF TypeOK
    <2>2. jar' = [access |-> None, refresh |-> n]
      BY <1>12, <2>1 DEF DropCookie, Pair
    <2> QED BY <1>12, <2>2 DEF DropCookie, TypeOK
  <1>13. CASE UNCHANGED vars
    BY <1>13 DEF vars, TypeOK
  <1> QED
    BY <1>1, <1>2, <1>3, <1>4, <1>5, <1>6, <1>7, <1>8, <1>9, <1>10, <1>11, <1>12, <1>13
    DEF Next, Progress, RefreshEnds, Succeed, Fail, GiveUp, States, Settled

\* The browser and the server keep their types.
THEOREM Types == Spec => []TypeOK
  BY TypedInit, TypedNext, PTL DEF Spec

-----------------------------------------------------------------------------
(* One refresh at a time *)

\* The states that Serial tells apart.
LEMMA StateFacts ==
  /\ Refreshing \cap (Settled \cup {"new", "sent", "unauthorized", "queued"}) = {}
  /\ Settled \cap {"new", "sent", "unauthorized", "queued"} = {}
  BY DEF Refreshing, Settled

\* A step of one call that neither waits nor joins or leaves the refresh.
LEMMA QuietStep ==
  ASSUME Serial, TypeOK', NEW r \in Calls,
         \A s \in Calls : s # r => call'[s] = call[s],
         UNCHANGED <<page, isRefreshing, failedQueue>>,
         call[r].state \in Refreshing <=> call'[r].state \in Refreshing,
         "queued" \notin {call[r].state, call'[r].state},
         call'[r].state # "new", page[TabOf[r]] # "login"
  PROVE  Serial'
  <1>1. Tidy'
    BY DEF Serial, Tidy
  <1>2. RefreshSerialized'
    BY CallsAssumption DEF Serial, RefreshSerialized, CallsOf
  <1>3. NoneForgotten'
    BY CallsAssumption DEF Serial, NoneForgotten, CallsOf
  <1> QED BY <1>1, <1>2, <1>3 DEF Serial

\* At first no call was sent and nothing is refreshed.
LEMMA SerialInit == Init => Serial
  <1> SUFFICES ASSUME Init PROVE Serial
    OBVIOUS
  <1>1. TypeOK
    BY TypedInit
  <1>2. \A r \in Calls : call[r] = Fresh /\ call[r].state = "new"
    BY DEF Init, Fresh
  <1>3. Tidy
    BY <1>2 DEF Tidy
  <1>4. RefreshSerialized
    BY <1>2, StateFacts DEF Init, RefreshSerialized, CallsOf
  <1>5. NoneForgotten
    BY <1>2 DEF Init, NoneForgotten, CallsOf
  <1> QED BY <1>1, <1>3, <1>4, <1>5 DEF Serial

\* Every step keeps the flag, the queue and the states of the calls in line.
LEMMA SerialNext == Serial /\ [Next]_vars => Serial'
  <1> SUFFICES ASSUME Serial, [Next]_vars PROVE Serial'
    OBVIOUS
  <1> USE CallsAssumption
  <1>0. TypeOK'
    BY TypedNext DEF Serial
  <1>1. ASSUME NEW r \in Calls, call[r].state \notin Settled \cup {"new"}
        PROVE  page[TabOf[r]] # "login"
    BY <1>1 DEF Serial, Tidy
  <1>2. ASSUME NEW r \in Calls, Send(r) PROVE Serial'
    BY <1>0, <1>2, StateFacts, QuietStep
    DEF Send, Dispatched, browser, Serial, TypeOK
  <1>3. ASSUME NEW r \in Calls, Ends(r, "done") \/ Ends(r, "failed"),
               call[r].state \in {"sent", "unauthorized"}
        PROVE  Serial'
    <2>1. call'[r].state \in {"done", "failed"}
      BY <1>3 DEF Ends, Ended, Serial, TypeOK
    <2> QED BY <1>0, <1>1, <1>3, <2>1, StateFacts, QuietStep
            DEF Ends, browser, Serial, TypeOK, Settled
  <1>4. ASSUME NEW r \in Calls, Refuse(r) PROVE Serial'
    <2>1. call'[r].state = "unauthorized"
      BY <1>4 DEF Refuse, Serial, TypeOK, CallRecord
    <2> QED BY <1>0, <1>1, <1>4, <2>1, StateFacts, QuietStep
            DEF Refuse, browser, Serial, TypeOK
  <1>5. ASSUME NEW r \in Calls, Renew(r) \/ Deny(r) PROVE Serial'
    <2>1. call'[r].state \in {"granted", "denied"} /\ call[r].state = "refreshing"
      BY <1>5 DEF Renew, Deny, Serial, TypeOK, CallRecord
    <2>2. {"refreshing", "granted", "denied"} \subseteq Refreshing
      BY DEF Refreshing
    <2> QED BY <1>0, <1>1, <1>5, <2>1, <2>2, StateFacts, QuietStep
            DEF Renew, Deny, browser, Serial, TypeOK
  <1>6. ASSUME NEW r \in Calls, Enqueue(r) PROVE Serial'
    <2>1. /\ call'[r].state = "queued" /\ call[r].state = "unauthorized"
          /\ \A s \in Calls : s # r => call'[s] = call[s]
      BY <1>6 DEF Enqueue, Unauthorized, Serial, TypeOK, CallRecord
    <2>2. Tidy'
      BY <1>1, <1>6, <2>1, StateFacts DEF Enqueue, Serial, Tidy
    <2>3. RefreshSerialized'
      BY <1>6, <2>1, StateFacts DEF Enqueue, Serial, RefreshSerialized, CallsOf
    <2>4. NoneForgotten'
      BY <1>6, <2>1 DEF Enqueue, Serial, NoneForgotten, CallsOf, TypeOK
    <2> QED BY <1>0, <2>2, <2>3, <2>4 DEF Serial
  <1>7. ASSUME NEW r \in Calls, StartRefresh(r) PROVE Serial'
    <2>1. /\ call'[r].state = "refreshing" /\ call[r].state = "unauthorized"
          /\ \A s \in Calls : s # r => call'[s] = call[s]
          /\ "refreshing" \in Refreshing
      BY <1>7 DEF StartRefresh, Unauthorized, Serial, TypeOK, CallRecord, Refreshing
    <2>2. Tidy'
      BY <1>1, <1>7, <2>1, StateFacts DEF StartRefresh, Serial, Tidy
    <2>3. RefreshSerialized'
      BY <1>7, <2>1, StateFacts
      DEF StartRefresh, Serial, RefreshSerialized, CallsOf, TypeOK
    <2>4. NoneForgotten'
      BY <1>7, <2>1 DEF StartRefresh, Serial, NoneForgotten, CallsOf, TypeOK
    <2> QED BY <1>0, <2>2, <2>3, <2>4 DEF Serial
  <1>8. ASSUME NEW r \in Calls, call[r].state \in Refreshing,
               NEW state, state \in {"sent", "failed"},
               \A c \in Calls :
                 IF c = r \/ c \in failedQueue[TabOf[r]]
                 THEN call'[c].state = state ELSE call'[c] = call[c],
               failedQueue' = [failedQueue EXCEPT ![TabOf[r]] = {}],
               isRefreshing' = [isRefreshing EXCEPT ![TabOf[r]] = FALSE],
               page' \in {page, [page EXCEPT ![TabOf[r]] = "leaving"]}
        PROVE  Serial'
    <2> DEFINE t == TabOf[r]
    <2>1. /\ t \in Tabs /\ page[t] # "login" /\ page'[t] # "login"
          /\ \A u \in Tabs : u # t => page'[u] = page[u]
      BY <1>1, <1>8, StateFacts DEF Serial, TypeOK
    <2>2. \A c \in failedQueue[t] : TabOf[c] = t
      BY DEF Serial, NoneForgotten, CallsOf
    <2>3. state \notin Refreshing /\ state \notin {"new", "queued"}
      BY <1>8, StateFacts DEF Settled
    <2>4. Tidy'
      BY <1>8, <2>1, <2>2, <2>3 DEF Serial, Tidy
    <2>5. RefreshSerialized'
      BY <1>8, <2>1, <2>2, <2>3 DEF Serial, RefreshSerialized, CallsOf, TypeOK
    <2>6. NoneForgotten'
      BY <1>8, <2>1, <2>2, <2>3 DEF Serial, NoneForgotten, CallsOf, TypeOK
    <2> QED BY <1>0, <2>4, <2>5, <2>6 DEF Serial
  <1>9. ASSUME NEW r \in Calls, Adopt(r) PROVE Serial'
    <2>1. "granted" \in Refreshing
      BY DEF Refreshing
    <2> QED BY <1>8, <1>9, <2>1 DEF Adopt, Dispatched
  <1>10. ASSUME NEW r \in Calls, Abandon(r) PROVE Serial'
    BY <1>8, <1>10 DEF Abandon, Ended
  <1>11. ASSUME NEW t \in Tabs, Reload(t) PROVE Serial'
    <2>1. \A c \in Calls :
            IF TabOf[c] = t /\ call[c].state \notin Settled \cup {"new"}
            THEN call'[c].state = "gone" ELSE call'[c] = call[c]
      BY <1>11 DEF Reload, Ended
    <2>2. "gone" \in Settled
      BY DEF Settled
    <2>3. Tidy'
      BY <1>11, <2>1, <2>2, StateFacts DEF Reload, Serial, Tidy, TypeOK
    <2>4. RefreshSerialized'
      BY <1>11, <2>1, <2>2, StateFacts
      DEF Reload, Serial, RefreshSerialized, CallsOf, TypeOK
    <2>5. NoneForgotten'
      BY <1>11, <2>1, <2>2, StateFacts
      DEF Reload, Serial, NoneForgotten, CallsOf, TypeOK
    <2> QED BY <1>0, <2>3, <2>4, <2>5 DEF Serial
  <1>12. ASSUME UNCHANGED <<page, isRefreshing, failedQueue, call>> PROVE Serial'
    <2>1. Tidy' /\ RefreshSerialized' /\ NoneForgotten'
      BY <1>12 DEF Serial, Tidy, RefreshSerialized, NoneForgotten, CallsOf
    <2> QED BY <1>0, <2>1 DEF Serial
  <1>13. ASSUME NEW n \in 1 .. issued, Expire(n) PROVE Serial'
    BY <1>12, <1>13 DEF Expire, browser
  <1>14. CASE DropCookie
    BY <1>12, <1>14 DEF DropCookie
  <1>15. CASE UNCHANGED vars
    BY <1>12, <1>15 DEF vars, browser
  <1> QED
    BY <1>2, <1>3, <1>4, <1>5, <1>6, <1>7, <1>9, <1>10, <1>11, <1>13, <1>14, <1>15
    DEF Next, Progress, RefreshEnds, Succeed, Fail, GiveUp

\* A tab renews its tokens once at a time.
THEOREM OneRefreshAtATime == Spec => []RefreshSerialized
  <1>1. Serial => RefreshSerialized
    BY DEF Serial
  <1> QED BY <1>1, SerialInit, SerialNext, PTL DEF Spec

\* The calls that wait are those in the queue, and a refresh will release them.
THEOREM NoCallForgotten == Spec => []NoneForgotten
  <1>1. Serial => NoneForgotten
    BY DEF Serial
  <1> QED BY <1>1, SerialInit, SerialNext, PTL DEF Spec

-----------------------------------------------------------------------------
(* Rotation *)

\* At first no token was redeemed.
LEMMA RotatingInit == Init => Rotating
  <1> SUFFICES ASSUME Init PROVE Rotating
    OBVIOUS
  <1>1. \A r \in Calls : call[r].state = "new"
    BY DEF Init, Fresh
  <1>2. Unseen /\ RetryUsesNewToken
    BY <1>1 DEF Unseen, Granted, RetryUsesNewToken
  <1>3. Remembered
    BY DEF Init, Remembered
  <1>4. ~cookies => jar.refresh = None
    BY DEF Init, NoTokens
  <1> QED BY <1>2, <1>3, <1>4, SerialInit DEF Rotating

\* What a step has to leave alone for a token to stay spent.
LEMMA StaysSpent ==
  ASSUME NEW t \in Tabs, NEW n \in Nat, Spent(t, n),
         \A s \in CallsOf(t) : call'[s].state = "refreshing" =>
           call[s].state = "refreshing" /\ call'[s].used = call[s].used,
         \A s \in CallsOf(t) : call[s].state = "granted" =>
           call'[s].state = "granted" /\ call'[s].used = call[s].used,
         n \in {storage.refresh, jar.refresh}' => n \in {storage.refresh, jar.refresh}
  PROVE  Spent(t, n)'
  <1>1. CallsOf(t)' = CallsOf(t)
    BY DEF CallsOf
  <1>2. \A s \in CallsOf(t) : call'[s].state = "refreshing" => call'[s].used # n
    BY DEF Spent
  <1>3. ASSUME n \in {storage.refresh, jar.refresh}'
        PROVE  \E s \in CallsOf(t) : call'[s].state = "granted" /\ call'[s].used = n
    BY <1>3 DEF Spent
  <1> QED BY <1>1, <1>2, <1>3 DEF Spent

\* A step of one call that has no part in a refresh and learns no new token.
LEMMA QuietRotation ==
  ASSUME Rotating, Serial', NEW r \in Calls,
         \A s \in Calls : s # r => call'[s] = call[s],
         UNCHANGED <<page, storage, jar, cookies, issued, redeemed, lost>>,
         {call[r].state, call'[r].state} \cap {"refreshing", "granted"} = {},
         \A g \in Granted :
           call[g].pair \notin {call'[r].header, call'[r].cookie, call'[r].used,
                               call'[r].refused},
         call'[r].state = "sent" => call'[r].attempts <= 1
  PROVE  Rotating'
  <1>1. Granted' = Granted /\ r \notin Granted
    BY DEF Granted
  <1>2. Unseen'
    BY <1>1 DEF Rotating, Unseen, Granted
  <1>3. Remembered'
    <2> SUFFICES ASSUME NEW t \in Tabs \ lost, NEW n \in 1 .. issued,
                        <<t, n>> \in redeemed, page[t] # "login"
                 PROVE  Spent(t, n)'
      BY DEF Remembered
    <2>1. Spent(t, n) /\ n \in Nat
      BY DEF Rotating, Remembered
    <2>2. \A s \in CallsOf(t) : s \in Calls
      BY DEF CallsOf
    <2> QED BY <2>1, <2>2, StaysSpent
  <1>4. RetryUsesNewToken'
    <2>1. call'[r].attempts \in Nat
      BY DEF Serial, TypeOK, CallRecord
    <2> QED BY <2>1 DEF Rotating, RetryUsesNewToken, Presented
  <1> QED BY <1>2, <1>3, <1>4 DEF Rotating

\* What is known of a pair that is on its way to a tab.
LEMMA PairFacts ==
  ASSUME Rotating, NEW g \in Granted
  PROVE  /\ call[g].pair \in 1 .. issued
         /\ call[g].pair \notin {None, storage.access, storage.refresh,
                                jar.access, jar.refresh}
  <1>1. call[g].pair \in 0 .. issued /\ call[g].pair # None
    BY DEF Rotating, Serial, TypeOK, CallRecord, Unseen, Granted
  <1> QED BY <1>1, JarFacts DEF Rotating, Serial, Unseen, None

\* The answer of a renewal arrives: nobody has seen the tokens it stores.
LEMMA AdoptRotates ==
  ASSUME Rotating, Serial', NEW r \in Calls, Adopt(r)
  PROVE  Rotating'
  <1> USE CallsAssumption
  <1> DEFINE p == call[r].pair
             t == TabOf[r]
             Back(c) == c = r \/ c \in failedQueue[t]
             Resent(c) == /\ call'[c].state = "sent"
                          /\ call'[c].header \in {call[c].header, storage'.access}
                          /\ call'[c].cookie = jar'.access
                          /\ call'[c].used = None
                          /\ call'[c].refused = call[c].refused
  <1>1. r \in Granted /\ "granted" \in Refreshing /\ t \in Tabs
    BY DEF Adopt, Granted, Refreshing
  <1>2. /\ \A c \in Calls : Back(c) => Resent(c)
        /\ \A c \in Calls : ~Back(c) => call'[c] = call[c]
    <2>1. ASSUME NEW c \in Calls, Back(c) PROVE Resent(c)
      <3>1. call'[c] = Dispatched(call[c], storage', jar')
        BY <2>1 DEF Adopt
      <3> QED BY <3>1 DEF Dispatched, Attach
    <2>2. ASSUME NEW c \in Calls, ~Back(c) PROVE call'[c] = call[c]
      BY <2>2 DEF Adopt
    <2> QED BY <2>1, <2>2
  <1> HIDE DEF Back
  <1>3. /\ storage'.access = p /\ storage'.refresh = p
        /\ cookies => jar'.access = p /\ jar'.refresh = p
        /\ ~cookies => jar' = jar /\ jar.refresh = None /\ jar.access = None
    BY JarFacts DEF Adopt, Store, Pair, Rotating, Serial
  <1>4. \A g \in Granted : Back(g) => g = r
    BY DEF Back, Granted, Rotating, Serial, NoneForgotten, CallsOf
  <1>5. /\ Granted' = Granted \ {r}
        /\ \A g \in Granted' : call'[g] = call[g]
    <2>1. Back(r)
      BY DEF Back
    <2> QED BY <1>1, <1>2, <1>4, <2>1 DEF Granted
  <1>6. UNCHANGED <<page, cookies, issued, redeemed, lost>>
    BY DEF Adopt, server
  <1>7. Unseen'
    <2>1. ASSUME NEW g \in Granted'
          PROVE  /\ call[g].pair # p /\ g \in Granted
                 /\ call[g].pair \notin {storage'.refresh, jar'.refresh}
                 /\ call[g].pair \notin {None, storage'.access, jar'.access}
      <3>1. g \in Granted /\ g # r
        BY <2>1, <1>5
      <3>2. call[g].pair # p /\ call[g].pair # None
        BY <3>1, <1>1 DEF Rotating, Unseen
      <3> QED BY <3>1, <3>2, <1>3
    <2>2. ASSUME NEW g \in Granted', NEW c \in Calls
          PROVE  call'[g].pair \notin {call'[c].header, call'[c].cookie,
                                      call'[c].used, call'[c].refused}
      <3>1. call'[g].pair \notin {call[c].header, call[c].cookie,
                                 call[c].used, call[c].refused}
        BY <2>1, <1>5 DEF Rotating, Unseen
      <3>2. CASE ~Back(c)
        BY <3>1, <3>2, <1>2
      <3>3. CASE Back(c)
        BY <3>1, <3>3, <2>1, <1>2, <1>5
      <3> QED BY <3>2, <3>3
    <2>3. \A g \in Granted', u \in Tabs : <<u, call'[g].pair>> \notin redeemed'
      BY <2>1, <1>5, <1>6 DEF Rotating, Unseen
    <2>4. \A g, h \in Granted' : call'[g].pair = call'[h].pair => g = h
      BY <2>1, <1>5 DEF Rotating, Unseen
    <2>5. \A g \in Granted' : /\ call'[g].pair # None
                             /\ call'[g].pair \notin {storage'.refresh, jar'.refresh}
      BY <2>1, <1>5
    <2> QED BY <2>2, <2>3, <2>4, <2>5 DEF Unseen
  <1>8. Remembered'
    <2> SUFFICES ASSUME NEW u \in Tabs \ lost, NEW n \in 1 .. issued,
                        <<u, n>> \in redeemed, page[u] # "login"
                 PROVE  Spent(u, n)'
      BY <1>6 DEF Remembered
    <2>1. Spent(u, n) /\ n # p /\ n # None
      BY <1>1 DEF Rotating, Remembered, Unseen, None
    <2>2. n \notin {storage'.refresh, jar'.refresh}
      BY <2>1, <1>3
    <2>3. \A s \in CallsOf(u) : call'[s].state = "refreshing" => call'[s] = call[s]
      BY <1>2 DEF CallsOf
    <2> QED BY <2>1, <2>2, <2>3 DEF Spent, CallsOf
  <1>9. RetryUsesNewToken'
    <2> SUFFICES ASSUME NEW c \in Calls, cookies, call'[c].state = "sent",
                        call'[c].attempts > 1
                 PROVE  Presented(call'[c]) # call'[c].refused
      BY <1>6 DEF RetryUsesNewToken
    <2>1. CASE ~Back(c)
      BY <2>1, <1>2 DEF Rotating, RetryUsesNewToken
    <2>2. CASE Back(c)
      <3>1. call'[c].cookie = p /\ call'[c].refused = call[c].refused
        BY <2>2, <1>2, <1>3
      <3>2. p # None /\ p # call[c].refused
        BY <1>1 DEF Rotating, Unseen
      <3> QED BY <3>1, <3>2 DEF Presented
    <2> QED BY <2>1, <2>2
  <1>10. ~cookies' => jar'.refresh = None
    BY <1>3, <1>6
  <1> QED BY <1>7, <1>8, <1>9, <1>10 DEF Rotating

\* Calls that end forget their tokens: a tab gives up its refresh, or is reloaded.
LEMMA EndingRotates ==
  ASSUME Rotating, Serial', NEW Out \in SUBSET Calls,
         NEW state \in Settled,
         \A c \in Calls : IF c \in Out THEN call'[c] = Ended(call[c], state)
                                      ELSE call'[c] = call[c],
         UNCHANGED <<jar, cookies, issued, redeemed>>,
         storage' \in {storage, NoTokens}, lost \subseteq lost',
         \A t \in Tabs : page'[t] # "login" => page[t] # "login",
         \A t \in Tabs \ lost' : page'[t] # "login" => CallsOf(t) \cap Out \cap Granted = {}
  PROVE  Rotating'
  <1>1. \A c \in Out : /\ call'[c].state \in Settled /\ call'[c].header = None
                      /\ call'[c].cookie = None /\ call'[c].used = None
                      /\ call'[c].refused = None
    <2> SUFFICES ASSUME NEW c \in Out
                 PROVE  /\ call'[c].state \in Settled /\ call'[c].header = None
                        /\ call'[c].cookie = None /\ call'[c].used = None
                        /\ call'[c].refused = None
      OBVIOUS
    <2>1. call'[c] = Ended(call[c], state)
      OBVIOUS
    <2> QED BY <2>1 DEF Ended
  <1>2. \A c \in Out : call'[c].state \notin {"granted", "refreshing", "sent"}
    BY <1>1 DEF Settled
  <1>3. Granted' = Granted \ Out /\ \A c \in Calls : c \notin Out => call'[c] = call[c]
    BY <1>2 DEF Granted
  <1>4. storage'.refresh \in {storage.refresh, None}
    BY DEF NoTokens
  <1>5. Unseen'
    <2>1. \A g \in Granted' : call'[g] = call[g] /\ g \in Granted
      BY <1>3 DEF Granted
    <2>2. \A g \in Granted' : /\ call'[g].pair # None
                             /\ call'[g].pair \notin {storage'.refresh, jar'.refresh}
      BY <2>1, <1>4 DEF Rotating, Unseen
    <2>3. \A g, h \in Granted' : call'[g].pair = call'[h].pair => g = h
      BY <2>1 DEF Rotating, Unseen
    <2>4. \A g \in Granted', u \in Tabs : <<u, call'[g].pair>> \notin redeemed'
      BY <2>1 DEF Rotating, Unseen
    <2>5. \A g \in Granted', c \in Calls :
            call'[g].pair \notin {call'[c].header, call'[c].cookie, call'[c].used,
                                 call'[c].refused}
      BY <2>1, <2>2, <1>1, <1>3 DEF Rotating, Unseen
    <2> QED BY <2>2, <2>3, <2>4, <2>5 DEF Unseen
  <1>6. Remembered'
    <2> SUFFICES ASSUME NEW u \in Tabs \ lost', NEW n \in 1 .. issued,
                        <<u, n>> \in redeemed, page'[u] # "login"
                 PROVE  Spent(u, n)'
      BY DEF Remembered
    <2>1. Spent(u, n) /\ n \in Nat /\ n # None
      BY DEF Rotating, Remembered, None
    <2>2. \A s \in CallsOf(u) : call'[s].state = "refreshing" => call'[s] = call[s]
      BY <1>2, <1>3 DEF CallsOf
    <2>3. \A s \in CallsOf(u) : call[s].state = "granted" => call'[s] = call[s]
      BY <1>3 DEF CallsOf, Granted
    <2> QED BY <2>1, <2>2, <2>3, <1>4, StaysSpent DEF CallsOf
  <1>7. RetryUsesNewToken'
    BY <1>2, <1>3 DEF Rotating, RetryUsesNewToken
  <1> QED BY <1>5, <1>6, <1>7 DEF Rotating

\* A refresh that fails empties localStorage; if it was granted, the tab missed it.
LEMMA AbandonRotates ==
  ASSUME Rotating, Serial', NEW r \in Calls, Abandon(r)
  PROVE  Rotating'
  <1> DEFINE t == TabOf[r]
             Out == {c \in Calls : c = r \/ c \in failedQueue[t]}
  <1>1. \A g \in Granted \cap Out : g = r
    BY CallsAssumption DEF Granted, Rotating, Serial, NoneForgotten, CallsOf
  <1>2. \A u \in Tabs \ lost' : CallsOf(u) \cap Out \cap Granted = {}
    BY <1>1 DEF Abandon, CallsOf, Granted
  <1>3. \A u \in Tabs : page'[u] # "login" => page[u] # "login"
    <2>1. t \in Tabs /\ page[t] # "login"
      BY CallsAssumption, StateFacts DEF Abandon, Rotating, Serial, Tidy
    <2> QED BY <2>1 DEF Abandon, Rotating, Serial, TypeOK
  <1>4. \A c \in Calls : IF c \in Out THEN call'[c] = Ended(call[c], "failed")
                                     ELSE call'[c] = call[c]
    BY DEF Abandon
  <1>5. "failed" \in Settled /\ Out \in SUBSET Calls
    BY DEF Settled
  <1>6. /\ UNCHANGED <<jar, cookies, issued, redeemed>>
        /\ storage' \in {storage, NoTokens} /\ lost \subseteq lost'
    BY DEF Abandon, server
  <1> HIDE DEF Out
  <1> QED BY <1>2, <1>3, <1>4, <1>5, <1>6, EndingRotates

\* A tab that shows the login page redeems nothing.
LEMMA ReloadRotates ==
  ASSUME Rotating, Serial', NEW t \in Tabs, Reload(t)
  PROVE  Rotating'
  <1> DEFINE Out == {c \in Calls : TabOf[c] = t
                                 /\ call[c].state \notin Settled \cup {"new"}}
  <1>1. \A u \in Tabs : page'[u] # "login" => u # t /\ page[u] # "login"
    BY DEF Reload, Rotating, Serial, TypeOK
  <1>2. \A u \in Tabs : u # t => CallsOf(u) \cap Out = {}
    BY DEF CallsOf
  <1>3. \A c \in Calls : IF c \in Out THEN call'[c] = Ended(call[c], "gone")
                                     ELSE call'[c] = call[c]
    BY DEF Reload
  <1>4. "gone" \in Settled /\ Out \in SUBSET Calls
    BY DEF Settled
  <1>5. UNCHANGED <<storage, jar, cookies, issued, redeemed, lost>>
    BY DEF Reload, server
  <1> HIDE DEF Out
  <1> QED BY <1>1, <1>2, <1>3, <1>4, <1>5, EndingRotates

\* A refresh starts with a token that is not spent for this tab: no answer to a
\* renewal of this tab is on its way.
LEMMA StartRotates ==
  ASSUME Rotating, Serial', NEW r \in Calls, StartRefresh(r)
  PROVE  Rotating'
  <1> DEFINE t == TabOf[r]
  <1>1. /\ call'[r].state = "refreshing" /\ call'[r].used = RefreshToken
        /\ call'[r].header = call[r].header /\ call'[r].cookie = call[r].cookie
        /\ call'[r].refused = call[r].refused
        /\ call[r].state = "unauthorized"
        /\ \A s \in Calls : s # r => call'[s] = call[s]
    BY DEF StartRefresh, Unauthorized, Rotating, Serial, TypeOK, CallRecord
  <1>2. UNCHANGED <<page, storage, jar, cookies, issued, redeemed, lost>>
    BY DEF StartRefresh, server
  <1>3. Granted' = Granted /\ r \notin Granted /\ \A g \in Granted : call'[g] = call[g]
    BY <1>1 DEF Granted
  <1>4. RefreshToken \in {storage.refresh, jar.refresh}
    BY DEF RefreshToken
  <1>5. CallsOf(t) \cap Granted = {}
    <2>1. t \in Tabs /\ ~isRefreshing[t] /\ "granted" \in Refreshing
      BY CallsAssumption DEF StartRefresh, Refreshing
    <2> QED BY <2>1 DEF Rotating, Serial, RefreshSerialized, Granted
  <1>6. Unseen'
    <2>1. \A g \in Granted', c \in Calls :
            call'[g].pair \notin {call'[c].header, call'[c].cookie, call'[c].used,
                                 call'[c].refused}
      BY <1>1, <1>3, <1>4 DEF Rotating, Unseen
    <2>2. /\ \A g \in Granted : /\ call'[g].pair # None
                                /\ call'[g].pair \notin {storage'.refresh, jar'.refresh}
          /\ \A g, h \in Granted : call'[g].pair = call'[h].pair => g = h
          /\ \A g \in Granted, u \in Tabs : <<u, call'[g].pair>> \notin redeemed'
      BY <1>2, <1>3 DEF Rotating, Unseen
    <2> QED BY <2>1, <2>2, <1>3 DEF Unseen
  <1>7. Remembered'
    <2> SUFFICES ASSUME NEW u \in Tabs \ lost, NEW n \in 1 .. issued,
                        <<u, n>> \in redeemed, page[u] # "login"
                 PROVE  Spent(u, n)'
      BY <1>2 DEF Remembered
    <2>1. Spent(u, n)
      BY DEF Rotating, Remembered
    <2>2. ASSUME NEW s \in CallsOf(u), call'[s].state = "refreshing"
          PROVE  call'[s].used # n
      <3>1. CASE s = r
        <4>1. n \notin {storage.refresh, jar.refresh}
          BY <2>1, <2>2, <3>1, <1>5 DEF Spent, CallsOf, Granted
        <4> QED BY <3>1, <4>1, <1>1, <1>4
      <3>2. CASE s # r
        BY <3>2, <2>1, <2>2, <1>1 DEF Spent, CallsOf
      <3> QED BY <3>1, <3>2
    <2>3. \A s \in CallsOf(u) : call[s].state = "granted" => call'[s] = call[s]
      BY <1>1 DEF CallsOf
    <2> QED BY <2>1, <2>2, <2>3, <1>2 DEF Spent, CallsOf
  <1>8. RetryUsesNewToken'
    BY <1>1, <1>2 DEF Rotating, RetryUsesNewToken
  <1> QED BY <1>2, <1>6, <1>7, <1>8 DEF Rotating

\* The server issues a pair nobody has seen; the token it was asked with is spent
\* from now on, and the tab has no other refresh under way.
LEMMA RenewRotates ==
  ASSUME Rotating, Serial', NEW r \in Calls, Renew(r)
  PROVE  Rotating'
  <1> DEFINE t == TabOf[r]
  <1>1. /\ call'[r].state = "granted" /\ call'[r].pair = issued + 1
        /\ call'[r].used = call[r].used /\ call'[r].header = call[r].header
        /\ call'[r].cookie = call[r].cookie /\ call'[r].refused = call[r].refused
        /\ call[r].state = "refreshing"
        /\ \A s \in Calls : s # r => call'[s] = call[s]
    BY DEF Renew, Rotating, Serial, TypeOK, CallRecord
  <1>2. /\ UNCHANGED <<page, storage, jar, cookies, lost>>
        /\ issued' = issued + 1 /\ issued \in Nat
        /\ redeemed' = redeemed \cup {<<t, call[r].used>>}
    BY DEF Renew, browser, Rotating, Serial, TypeOK
  <1>3. /\ Granted' = Granted \cup {r} /\ r \notin Granted
        /\ \A g \in Granted : call'[g] = call[g]
    BY <1>1 DEF Granted
  <1>4. \A c \in Calls :
          /\ {call[c].header, call[c].cookie, call[c].used, call[c].refused,
              call[c].pair} \subseteq 0 .. issued
          /\ {call'[c].header, call'[c].cookie, call'[c].used, call'[c].refused}
             = {call[c].header, call[c].cookie, call[c].used, call[c].refused}
    BY <1>1 DEF Rotating, Serial, TypeOK, CallRecord
  <1>5. issued + 1 \notin 0 .. issued /\ issued + 1 # None
    BY <1>2 DEF None
  <1>6. Unseen'
    <2>1. ASSUME NEW g \in Granted', NEW c \in Calls
          PROVE  call'[g].pair \notin {call'[c].header, call'[c].cookie,
                                      call'[c].used, call'[c].refused}
      BY <1>1, <1>3, <1>4, <1>5 DEF Rotating, Unseen
    <2>2. \A g \in Granted' : /\ call'[g].pair # None
                             /\ call'[g].pair \notin {storage'.refresh, jar'.refresh}
      BY <1>1, <1>2, <1>3, <1>5, JarFacts DEF Rotating, Serial, Unseen
    <2>3. \A g, h \in Granted' : call'[g].pair = call'[h].pair => g = h
      BY <1>1, <1>3, <1>4, <1>5 DEF Rotating, Unseen, Granted
    <2>4. ASSUME NEW g \in Granted', NEW u \in Tabs
          PROVE  <<u, call'[g].pair>> \notin redeemed'
      <3>1. redeemed \subseteq Tabs \X (1 .. issued)
        BY DEF Rotating, Serial, TypeOK
      <3>2. <<u, call'[g].pair>> \notin redeemed
        BY <3>1, <1>1, <1>3, <1>5 DEF Rotating, Unseen
      <3>3. call'[g].pair # call[r].used
        BY <1>1, <1>3, <1>4, <1>5 DEF Rotating, Unseen
      <3> QED BY <3>2, <3>3, <1>2
    <2> QED BY <2>1, <2>2, <2>3, <2>4 DEF Unseen
  <1>7. Remembered'
    <2> SUFFICES ASSUME NEW u \in Tabs \ lost, NEW n \in 1 .. issued',
                        <<u, n>> \in redeemed', page[u] # "login"
                 PROVE  Spent(u, n)'
      BY <1>2 DEF Remembered
    <2>1. CASE <<u, n>> \in redeemed
      <3>1. n \in 1 .. issued
        BY <2>1 DEF Rotating, Serial, TypeOK
      <3>2. Spent(u, n) /\ n \in Nat
        BY <2>1, <3>1 DEF Rotating, Remembered
      <3> QED BY <3>2, <1>1, <1>2, StaysSpent DEF CallsOf
    <2>2. CASE <<u, n>> \notin redeemed
      <3>1. u = t /\ n = call[r].used
        BY <2>2, <1>2
      <3>2. r \in CallsOf(u) /\ u \in Tabs
        BY <3>1 DEF CallsOf
      <3>3. \A s \in CallsOf(u) : call'[s].state # "refreshing"
        BY <3>2, <1>1 DEF Rotating, Serial, RefreshSerialized, Refreshing, CallsOf
      <3> QED BY <3>1, <3>2, <3>3, <1>1 DEF Spent, CallsOf
    <2> QED BY <2>1, <2>2
  <1>8. RetryUsesNewToken'
    BY <1>1, <1>2 DEF Rotating, RetryUsesNewToken
  <1> QED BY <1>2, <1>6, <1>7, <1>8 DEF Rotating

\* Every step keeps what is known of tokens.
LEMMA RotatingNext == Rotating /\ [Next]_vars => Rotating'
  <1> SUFFICES ASSUME Rotating, [Next]_vars PROVE Rotating'
    OBVIOUS
  <1>0. Serial /\ Serial' /\ TypeOK
    BY SerialNext DEF Rotating, Serial
  <1>1. ASSUME NEW r \in Calls, Send(r) PROVE Rotating'
    <2>1. /\ call[r] = Fresh /\ call'[r] = Dispatched(Fresh, storage, jar)
          /\ \A s \in Calls : s # r => call'[s] = call[s]
          /\ UNCHANGED <<page, storage, jar, cookies, issued, redeemed, lost>>
      BY <1>0, <1>1 DEF Send, Serial, Tidy, TypeOK, browser, server
    <2>2. /\ call[r].state = "new" /\ call'[r].state = "sent"
          /\ call'[r].attempts = 1 /\ call'[r].header = storage.access
          /\ call'[r].cookie = jar.access /\ call'[r].used = None
          /\ call'[r].refused = None
      BY <2>1 DEF Fresh, Dispatched, Attach
    <2>3. \A g \in Granted :
            call[g].pair \notin {call'[r].header, call'[r].cookie, call'[r].used,
                                call'[r].refused}
      BY <2>2, PairFacts
    <2> QED BY <2>1, <2>2, <2>3, <1>0, QuietRotation
  <1>2. ASSUME NEW r \in Calls, NEW s \in Settled, Ends(r, s),
               call[r].state \in {"sent", "unauthorized"}
        PROVE  Rotating'
    <2>1. /\ call'[r].state = s /\ call'[r].header = None /\ call'[r].cookie = None
          /\ call'[r].used = None /\ call'[r].refused = None
          /\ \A c \in Calls : c # r => call'[c] = call[c]
          /\ UNCHANGED <<page, storage, jar, cookies, issued, redeemed, lost>>
      BY <1>0, <1>2 DEF Ends, Ended, TypeOK, browser, server
    <2>2. s \notin {"refreshing", "granted", "sent"}
      BY DEF Settled
    <2>3. \A g \in Granted :
            call[g].pair \notin {call'[r].header, call'[r].cookie, call'[r].used,
                                call'[r].refused}
      BY <2>1, PairFacts
    <2> QED BY <2>1, <2>2, <2>3, <1>0, <1>2, QuietRotation
  <1>3. ASSUME NEW r \in Calls, Refuse(r) PROVE Rotating'
    <2>1. /\ call'[r].state = "unauthorized" /\ call[r].state = "sent"
          /\ call'[r].header = call[r].header /\ call'[r].cookie = call[r].cookie
          /\ call'[r].used = call[r].used /\ call'[r].refused = Presented(call[r])
          /\ \A c \in Calls : c # r => call'[c] = call[c]
          /\ UNCHANGED <<page, storage, jar, cookies, issued, redeemed, lost>>
      BY <1>0, <1>3 DEF Refuse, TypeOK, CallRecord, browser, server
    <2>2. call'[r].refused \in {call[r].header, call[r].cookie}
      BY <2>1 DEF Presented
    <2>3. \A g \in Granted :
            call[g].pair \notin {call'[r].header, call'[r].cookie, call'[r].used,
                                call'[r].refused}
      BY <2>1, <2>2 DEF Rotating, Unseen
    <2> QED BY <2>1, <2>3, <1>0, QuietRotation
  <1>4. ASSUME NEW r \in Calls, Enqueue(r) PROVE Rotating'
    <2>1. /\ call'[r].state = "queued" /\ call[r].state = "unauthorized"
          /\ call'[r].header = call[r].header /\ call'[r].cookie = call[r].cookie
          /\ call'[r].used = call[r].used /\ call'[r].refused = call[r].refused
          /\ \A c \in Calls : c # r => call'[c] = call[c]
          /\ UNCHANGED <<page, storage, jar, cookies, issued, redeemed, lost>>
      BY <1>0, <1>4 DEF Enqueue, Unauthorized, TypeOK, CallRecord, server
    <2>2. \A g \in Granted :
            call[g].pair \notin {call'[r].header, call'[r].cookie, call'[r].used,
                                call'[r].refused}
      BY <2>1 DEF Rotating, Unseen
    <2> QED BY <2>1, <2>2, <1>0, QuietRotation
  <1>5. ASSUME NEW r \in Calls, Deny(r) PROVE Rotating'
    <2>1. /\ call'[r].state = "denied" /\ call[r].state = "refreshing"
          /\ call'[r].header = call[r].header /\ call'[r].cookie = call[r].cookie
          /\ call'[r].used = call[r].used /\ call'[r].refused = call[r].refused
          /\ \A c \in Calls : c # r => call'[c] = call[c]
          /\ UNCHANGED <<page, storage, jar, cookies, issued, redeemed, lost>>
      BY <1>0, <1>5 DEF Deny, TypeOK, CallRecord, browser, server
    <2>2. Granted' = Granted /\ \A g \in Granted : call'[g] = call[g]
      BY <2>1 DEF Granted
    <2>3. Unseen'
      BY <2>1, <2>2 DEF Rotating, Unseen
    <2>4. Remembered'
      <3> SUFFICES ASSUME NEW u \in Tabs \ lost, NEW n \in 1 .. issued,
                          <<u, n>> \in redeemed, page[u] # "login"
                   PROVE  Spent(u, n)'
        BY <2>1 DEF Remembered
      <3>1. Spent(u, n) /\ n \in Nat
        BY DEF Rotating, Remembered
      <3> QED BY <3>1, <2>1, StaysSpent DEF CallsOf
    <2>5. RetryUsesNewToken'
      BY <2>1 DEF Rotating, RetryUsesNewToken
    <2> QED BY <2>1, <2>3, <2>4, <2>5, <1>0 DEF Rotating
  <1>6. ASSUME UNCHANGED <<call, page, storage, cookies, issued, redeemed, lost>>,
               jar'.refresh = jar.refresh
        PROVE  Rotating'
    <2>1. Granted' = Granted /\ \A u \in Tabs : CallsOf(u)' = CallsOf(u)
      BY <1>6 DEF Granted, CallsOf
    <2>2. Unseen'
      BY <1>6, <2>1 DEF Rotating, Unseen
    <2>3. Remembered'
      BY <1>6, <2>1 DEF Rotating, Remembered, Spent
    <2>4. RetryUsesNewToken'
      BY <1>6 DEF Rotating, RetryUsesNewToken
    <2> QED BY <1>0, <1>6, <2>2, <2>3, <2>4 DEF Rotating
  <1>7. ASSUME NEW n \in 1 .. issued, Expire(n) PROVE Rotating'
    BY <1>6, <1>7 DEF Expire, browser
  <1>8. CASE DropCookie
    <2>1. jar'.refresh = jar.refresh
      BY <1>0, <1>8 DEF DropCookie, TypeOK, Pair
    <2> QED BY <1>6, <1>8, <2>1 DEF DropCookie, server
  <1>9. CASE UNCHANGED vars
    BY <1>6, <1>9 DEF vars, browser, server
  <1>10. {"done", "failed"} \subseteq Settled
    BY DEF Settled
  <1> QED
    BY <1>0, <1>1, <1>2, <1>3, <1>4, <1>5, <1>7, <1>8, <1>9, <1>10, AdoptRotates,
       AbandonRotates, ReloadRotates, StartRotates, RenewRotates
    DEF Next, Progress, RefreshEnds, Succeed, Fail, GiveUp

\* A tab never renews with a refresh token it has renewed before, unless it missed
\* an answer.
THEOREM RotationIsRespected == Spec => RotationRespected
  <1>1. Rotating /\ [Next]_vars =>
          [\A r \in Calls :
             call[r].state = "refreshing" /\ call'[r].state = "granted" =>
               <<TabOf[r], call[r].used>> \notin redeemed \/ TabOf[r] \in lost]_vars
    <2> SUFFICES ASSUME Rotating, NEW r \in Calls, call[r].state = "refreshing",
                        <<TabOf[r], call[r].used>> \in redeemed
                 PROVE  TabOf[r] \in lost
      OBVIOUS
    <2>1. call[r].used \in 1 .. issued /\ TabOf[r] \in Tabs
      BY CallsAssumption DEF Rotating, Serial, TypeOK
    <2>2. page[TabOf[r]] # "login"
      BY StateFacts DEF Rotating, Serial, Tidy, Refreshing
    <2> QED BY <2>1, <2>2 DEF Rotating, Remembered, Spent, CallsOf
  <1> QED BY <1>1, RotatingInit, RotatingNext, PTL DEF Spec, RotationRespected

\* With cookies, a call is sent again with a token other than the refused one.
THEOREM RetriesUseNewToken == Spec => []RetryUsesNewToken
  <1>1. Rotating => RetryUsesNewToken
    BY DEF Rotating
  <1> QED BY <1>1, RotatingInit, RotatingNext, PTL DEF Spec

-----------------------------------------------------------------------------
(* Retries end *)

\* The calls of a tab whose refresh is over.
Done(t) == {s \in CallsOf(t) : call[s].retry /\ call[s].state \notin Refreshing}

\* A call is sent once, and once more for each refresh of its tab that is over.
Completed ==
  /\ \A r \in Calls : call[r].state \in Refreshing => call[r].retry
  /\ \A r \in Calls : call[r].attempts <= 1 + Cardinality(Done(TabOf[r]))

Bounded == Serial /\ Completed

\* A larger set of calls of a tab has no fewer members.
LEMMA CountGrows ==
  ASSUME NEW S \in SUBSET Calls, NEW T \in SUBSET S
  PROVE  /\ Cardinality(S) \in Nat /\ Cardinality(T) \in Nat
         /\ Cardinality(T) <= Cardinality(S)
         /\ \A s \in S : s \notin T => Cardinality(T) + 1 <= Cardinality(S)
  <1>1. IsFiniteSet(S) /\ IsFiniteSet(T)
    BY CallsAssumption, FS_Subset
  <1>2. Cardinality(S) \in Nat /\ Cardinality(T) \in Nat
    BY <1>1, FS_CardinalityType
  <1>3. Cardinality(T) <= Cardinality(S)
    BY <1>1, FS_Subset
  <1>4. ASSUME NEW s \in S, s \notin T PROVE Cardinality(T) + 1 <= Cardinality(S)
    <2>1. Cardinality(T \cup {s}) = Cardinality(T) + 1
      BY <1>1, <1>4, FS_AddElement
    <2>2. Cardinality(T \cup {s}) <= Cardinality(S)
      BY <1>1, <1>4, FS_Subset
    <2> QED BY <2>1, <2>2
  <1> QED BY <1>2, <1>3, <1>4

\* A step that ends no refresh and sends only calls that were never sent.
LEMMA NoResend ==
  ASSUME Bounded, Serial',
         \A r \in Calls : call'[r].state \in Refreshing => call'[r].retry,
         \A r \in Calls : call'[r].attempts \in {call[r].attempts, 1},
         \A r \in Calls : call[r].retry /\ call[r].state \notin Refreshing =>
                            call'[r].retry /\ call'[r].state \notin Refreshing
  PROVE  Bounded'
  <1> SUFFICES ASSUME NEW r \in Calls
               PROVE  call'[r].attempts <= 1 + Cardinality(Done(TabOf[r])')
    BY DEF Bounded, Completed
  <1>1. Done(TabOf[r]) \subseteq Done(TabOf[r])' /\ Done(TabOf[r])' \subseteq Calls
    BY DEF Done, CallsOf
  <1> DEFINE n == Cardinality(Done(TabOf[r]))
             m == Cardinality(Done(TabOf[r])')
  <1>2. n \in Nat /\ m \in Nat /\ n <= m
    BY <1>1, CountGrows
  <1>3. call[r].attempts \in Nat /\ call[r].attempts <= 1 + n
    BY DEF Bounded, Completed, Serial, TypeOK, CallRecord
  <1> HIDE DEF n, m
  <1>4. call'[r].attempts <= 1 + m
    BY <1>2, <1>3
  <1> QED BY <1>4 DEF m

\* The end of a refresh pays for one more attempt of the calls of its tab.
LEMMA AdoptResends ==
  ASSUME Bounded, Serial', NEW r \in Calls, Adopt(r)
  PROVE  Bounded'
  <1> DEFINE t == TabOf[r]
             Back(c) == c = r \/ c \in failedQueue[t]
  <1>1. /\ call[r].state \in Refreshing /\ call[r].retry
        /\ \A c \in Calls : Back(c) => TabOf[c] = t
    BY CallsAssumption
    DEF Adopt, Refreshing, Bounded, Completed, Serial, NoneForgotten, CallsOf
  <1>2. ASSUME NEW c \in Calls
        PROVE  /\ call'[c].retry = call[c].retry
               /\ Back(c) => /\ call'[c].state = "sent"
                             /\ call'[c].attempts = call[c].attempts + 1
               /\ ~Back(c) => call'[c] = call[c]
    BY DEF Adopt, Dispatched
  <1>3. Back(r)
    OBVIOUS
  <1> HIDE DEF Back
  <1>4. "sent" \notin Refreshing
    BY DEF Refreshing
  <1>5. \A c \in Calls : call'[c].state \in Refreshing => call'[c].retry
    BY <1>2, <1>4 DEF Bounded, Completed
  <1>6. ASSUME NEW c \in Calls
        PROVE  call'[c].attempts <= 1 + Cardinality(Done(TabOf[c])')
    <2> DEFINE D == Done(TabOf[c])
               E == Done(TabOf[c])'
               n == Cardinality(D)
               m == Cardinality(E)
    <2>1. D \subseteq E /\ E \subseteq Calls
      BY <1>2, <1>4 DEF Done, CallsOf
    <2>2. Back(c) => r \in E /\ r \notin D
      BY <1>1, <1>2, <1>3, <1>4 DEF Done, CallsOf
    <2>3. call[c].attempts \in Nat /\ call[c].attempts <= 1 + n
      BY DEF Bounded, Completed, Serial, TypeOK, CallRecord
    <2> HIDE DEF D, E
    <2>4. n \in Nat /\ m \in Nat /\ n <= m /\ (Back(c) => n + 1 <= m)
      BY <2>1, <2>2, CountGrows
    <2> HIDE DEF n, m
    <2>5. call'[c].attempts <= 1 + m
      BY <2>3, <2>4, <1>2
    <2> QED BY <2>5 DEF m, E
  <1> QED BY <1>5, <1>6 DEF Bounded, Completed

\* A step that changes one call.
LEMMA OneCall ==
  ASSUME Bounded, Serial', NEW r \in Calls,
         \A s \in Calls : s # r => call'[s] = call[s],
         call'[r].state \in Refreshing => call'[r].retry,
         call'[r].attempts \in {call[r].attempts, 1},
         call[r].retry /\ call[r].state \notin Refreshing =>
           call'[r].retry /\ call'[r].state \notin Refreshing
  PROVE  Bounded'
  BY NoResend DEF Bounded, Completed

\* At first no call was sent.
LEMMA BoundedInit == Init => Bounded
  <1> SUFFICES ASSUME Init PROVE Bounded
    OBVIOUS
  <1>1. ASSUME NEW r \in Calls
        PROVE  /\ call[r].state \notin Refreshing
               /\ call[r].attempts <= 1 + Cardinality(Done(TabOf[r]))
    <2>1. call[r].state = "new" /\ call[r].attempts = 0
      BY DEF Init, Fresh
    <2>2. Cardinality(Done(TabOf[r])) \in Nat
      BY CountGrows DEF Done, CallsOf
    <2> QED BY <2>1, <2>2, StateFacts
  <1> QED BY <1>1, SerialInit DEF Bounded, Completed

\* Only the end of a refresh sends calls again.
LEMMA BoundedNext == Bounded /\ [Next]_vars => Bounded'
  <1> SUFFICES ASSUME Bounded, [Next]_vars PROVE Bounded'
    OBVIOUS
  <1>0. Serial /\ Serial' /\ TypeOK
    BY SerialNext DEF Bounded, Serial
  <1>1. ASSUME NEW r \in Calls, Send(r) PROVE Bounded'
    <2>1. /\ call[r] = Fresh /\ call'[r] = Dispatched(Fresh, storage, jar)
          /\ \A s \in Calls : s # r => call'[s] = call[s]
      BY <1>0, <1>1 DEF Send, Serial, Tidy, TypeOK
    <2>2. call'[r].state = "sent" /\ call'[r].attempts = 1 /\ ~call[r].retry
      BY <2>1 DEF Fresh, Dispatched
    <2> QED BY <2>1, <2>2, <1>0, StateFacts, OneCall
  <1>2. ASSUME NEW r \in Calls, NEW s \in Settled, Ends(r, s) PROVE Bounded'
    <2>1. /\ call'[r].state = s /\ call'[r].attempts = call[r].attempts
          /\ call'[r].retry = call[r].retry
          /\ \A c \in Calls : c # r => call'[c] = call[c]
      BY <1>0, <1>2 DEF Ends, Ended, TypeOK
    <2> QED BY <2>1, <1>0, StateFacts, OneCall
  <1>3. ASSUME NEW r \in Calls, Refuse(r) PROVE Bounded'
    <2>1. /\ call'[r].state = "unauthorized" /\ call'[r].attempts = call[r].attempts
          /\ call'[r].retry = call[r].retry
          /\ \A c \in Calls : c # r => call'[c] = call[c]
      BY <1>0, <1>3 DEF Refuse, TypeOK, CallRecord
    <2> QED BY <2>1, <1>0, StateFacts, OneCall
  <1>4. ASSUME NEW r \in Calls, Enqueue(r) PROVE Bounded'
    <2>1. /\ call'[r].state = "queued" /\ call'[r].attempts = call[r].attempts
          /\ call'[r].retry = call[r].retry
          /\ \A c \in Calls : c # r => call'[c] = call[c]
      BY <1>0, <1>4 DEF Enqueue, TypeOK, CallRecord
    <2> QED BY <2>1, <1>0, StateFacts, OneCall
  <1>5. ASSUME NEW r \in Calls, StartRefresh(r) PROVE Bounded'
    <2>1. /\ call'[r].retry /\ ~call[r].retry
          /\ call'[r].attempts = call[r].attempts
          /\ \A c \in Calls : c # r => call'[c] = call[c]
      BY <1>0, <1>5 DEF StartRefresh, Unauthorized, TypeOK, CallRecord
    <2> QED BY <2>1, <1>0, OneCall
  <1>6. ASSUME NEW r \in Calls, Renew(r) \/ Deny(r) PROVE Bounded'
    <2>1. /\ call[r].state \in Refreshing /\ call'[r].attempts = call[r].attempts
          /\ call'[r].retry = call[r].retry
          /\ \A c \in Calls : c # r => call'[c] = call[c]
      BY <1>0, <1>6 DEF Renew, Deny, TypeOK, CallRecord, Refreshing
    <2> QED BY <2>1, <1>0, OneCall DEF Bounded, Completed
  <1>7. ASSUME NEW Out \in SUBSET Calls, NEW s \in Settled,
               \A c \in Calls : IF c \in Out THEN call'[c] = Ended(call[c], s)
                                            ELSE call'[c] = call[c]
        PROVE  Bounded'
    <2>1. ASSUME NEW c \in Calls, c \in Out
          PROVE  /\ call'[c].state = s /\ call'[c].attempts = call[c].attempts
                 /\ call'[c].retry = call[c].retry
      <3>1. call'[c] = Ended(call[c], s)
        BY <1>7, <2>1
      <3> QED BY <3>1 DEF Ended
    <2>2. \A c \in Calls : c \notin Out => call'[c] = call[c]
      BY <1>7
    <2> QED BY <2>1, <2>2, <1>0, StateFacts, NoResend DEF Bounded, Completed
  <1>8. ASSUME NEW r \in Calls, Abandon(r) PROVE Bounded'
    <2> DEFINE Out == {c \in Calls : c = r \/ c \in failedQueue[TabOf[r]]}
    <2>1. \A c \in Calls : IF c \in Out THEN call'[c] = Ended(call[c], "failed")
                                       ELSE call'[c] = call[c]
      BY <1>8 DEF Abandon
    <2>2. "failed" \in Settled /\ Out \in SUBSET Calls
      BY DEF Settled
    <2> HIDE DEF Out
    <2> QED BY <2>1, <2>2, <1>7
  <1>9. ASSUME NEW t \in Tabs, Reload(t) PROVE Bounded'
    <2> DEFINE Out == {c \in Calls : TabOf[c] = t
                                   /\ call[c].state \notin Settled \cup {"new"}}
    <2>1. \A c \in Calls : IF c \in Out THEN call'[c] = Ended(call[c], "gone")
                                       ELSE call'[c] = call[c]
      BY <1>9 DEF Reload
    <2>2. "gone" \in Settled /\ Out \in SUBSET Calls
      BY DEF Settled
    <2> HIDE DEF Out
    <2> QED BY <2>1, <2>2, <1>7
  <1>10. ASSUME UNCHANGED call PROVE Bounded'
    BY <1>0, <1>10, NoResend DEF Bounded, Completed
  <1>11. ASSUME NEW n \in 1 .. issued, Expire(n) PROVE Bounded'
    BY <1>10, <1>11 DEF Expire
  <1>12. CASE DropCookie
    BY <1>10, <1>12 DEF DropCookie
  <1>13. CASE UNCHANGED vars
    BY <1>10, <1>13 DEF vars
  <1>14. {"done", "failed"} \subseteq Settled
    BY DEF Settled
  <1> QED
    BY <1>0, <1>1, <1>2, <1>3, <1>4, <1>5, <1>6, <1>8, <1>9, <1>11, <1>12, <1>13,
       <1>14, AdoptResends
    DEF Next, Progress, RefreshEnds, Succeed, Fail, GiveUp

\* Every time a call is sent again, some call of its tab has used up its refresh.
THEOREM RetriesEnd == Spec => []NoRetryStorm
  <1>1. Bounded => NoRetryStorm
    <2> SUFFICES ASSUME Bounded, NEW r \in Calls
                 PROVE  call[r].attempts
                          <= 1 + Cardinality({s \in CallsOf(TabOf[r]) : call[s].retry})
      BY DEF NoRetryStorm
    <2> DEFINE M == {s \in CallsOf(TabOf[r]) : call[s].retry}
               D == Done(TabOf[r])
    <2>1. D \subseteq M /\ M \subseteq Calls
      BY DEF Done, CallsOf
    <2>2. call[r].attempts \in Nat /\ call[r].attempts <= 1 + Cardinality(D)
      BY DEF Bounded, Completed, Serial, TypeOK, CallRecord
    <2> HIDE DEF M, D
    <2>3. /\ Cardinality(D) \in Nat /\ Cardinality(M) \in Nat
          /\ Cardinality(D) <= Cardinality(M)
      BY <2>1, CountGrows
    <2>4. call[r].attempts <= 1 + Cardinality(M)
      BY <2>2, <2>3
    <2> QED BY <2>4 DEF M
  <1> QED BY <1>1, BoundedInit, BoundedNext, PTL DEF Spec
=============================================================================
