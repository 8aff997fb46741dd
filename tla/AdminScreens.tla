---------------------------- MODULE AdminScreens ----------------------------
(***************************************************************************)
(* pages/admin: UserManagement and FeatureFlags, which write to the back   *)
(* end; AdminDashboard, AuditLogs and FraudMonitoring, which list; and the *)
(* local state of BackupManager, DSAShowcase and DevelopmentRoadmap.       *)
(***************************************************************************)
EXTENDS Screen

CONSTANTS
  Users,   \* users in the back end
  Flags,   \* keys of feature flags
  Items    \* backups, cards or phases that a screen offers

AdminRows == {[users |-> [u \in Users |-> "open"], flags |-> [f \in {} |-> "on"], events |-> "some"],
              [users |-> [u \in Users |-> "open"], flags |-> [f \in Flags |-> "on"], events |-> "some"]}

(* UserManagement.jsx: role, lock and activity of a user are one value here *)

UsersState == [users |-> <<>>, loading |-> TRUE]

Other(v) == IF v = "open" THEN "locked" ELSE "open"

UsersMount == Mount("users", UsersState, <<Get("users", "users")>>)

UsersFetched(i) ==
  /\ \/ /\ Back(i, "users", "ok")
        /\ Resolve(i, [hooks EXCEPT !.users = calls[i].reply.value, !.loading = FALSE], <<>>)
     \/ /\ Back(i, "users", "failed")
        /\ Resolve(i, [hooks EXCEPT !.loading = FALSE], <<>>)
  /\ UNCHANGED timers

\* handleUpdate captures the list that is on screen when it is called.
\* History: another update was under way then.
UserUpdate(u) ==
  /\ screen = "users" /\ ~hooks.loading
  /\ Send(<<Post("patchUser", [user |-> u, value |-> Other(hooks.users[u]), seen |-> hooks.users])>>)
  /\ past' = IF InFlight("patchUser") # {} THEN past \union {"overlapped"} ELSE past
  /\ UNCHANGED <<screen, hooks, timers, server>>

PatchServe(i) ==
  /\ calls[i].op = "patchUser"
  /\ Write(i, "patchUser", [server EXCEPT !.users[calls[i].arg.user] = calls[i].arg.value], NoValue)

\* setUsers(users.map(...)) of the captured list; a failure is swallowed.
UserUpdated(i) ==
  LET c == calls[i].arg IN
  /\ \/ /\ Back(i, "patchUser", "ok")
        /\ Resolve(i, [hooks EXCEPT !.users = [c.seen EXCEPT ![c.user] = c.value]], <<>>)
     \/ Back(i, "patchUser", "failed") /\ Resolve(i, hooks, <<>>)
  /\ UNCHANGED timers

(* FeatureFlags.jsx: after a change that worked the flags are fetched again; *)
(* a change that failed is not caught and leaves the screen as it is.        *)

FlagsState == [flags |-> <<>>, editing |-> "none", showCreate |-> FALSE, named |-> FALSE]

FetchFlags == <<Get("flags", "flags")>>

FlagsMount == Mount("flags", FlagsState, FetchFlags)

FlagsFetched(i) ==
  /\ \/ /\ Back(i, "flags", "ok")
        /\ Resolve(i, [hooks EXCEPT !.flags = calls[i].reply.value], <<>>)
     \/ Back(i, "flags", "failed") /\ Resolve(i, hooks, <<>>)
  /\ UNCHANGED timers

FlagForm ==
  /\ screen = "flags"
  /\ \/ Set([hooks EXCEPT !.showCreate = ~@])
     \/ hooks.showCreate /\ Set([hooks EXCEPT !.named = TRUE])
     \/ \E f \in DOMAIN hooks.flags : hooks.editing # f /\ Set([hooks EXCEPT !.editing = f])
     \/ hooks.editing # "none" /\ Set([hooks EXCEPT !.editing = "none"])

FlagSend(op, f, value) ==
  screen = "flags" /\ SetAndSend(hooks, <<Post(op, [flag |-> f, value |-> value])>>)

\* toggleFlag sends the opposite of what is on screen.
FlagToggle(f) == FlagSend("toggleFlag", f, IF hooks.flags[f] = "on" THEN "off" ELSE "on")

FlagRollout(f) == hooks.editing = f /\ FlagSend("updateRollout", f, "off")

FlagCreate(f) == hooks.showCreate /\ hooks.named /\ FlagSend("createFlag", f, "off")

FlagDelete(f) == FlagSend("deleteFlag", f, "off")

FlagWrites == {"toggleFlag", "updateRollout", "createFlag", "deleteFlag"}

\* update_flag, create_flag and delete_flag; an unknown key is a 404.
FlagServe(i) ==
  LET f == calls[i].arg.flag
      known == DOMAIN server.flags
      Put(keys) == [server EXCEPT !.flags = [g \in keys |-> IF g = f THEN calls[i].arg.value ELSE @[g]]]
  IN /\ calls[i].op \in FlagWrites /\ Unanswered(i)
     /\ \/ calls[i].op \in {"toggleFlag", "updateRollout"} /\ f \in known
           /\ Write(i, calls[i].op, Put(known), f)
        \/ calls[i].op = "createFlag" /\ Write(i, "createFlag", Put(known \union {f}), f)
        \/ calls[i].op = "deleteFlag" /\ f \in known
           /\ Write(i, "deleteFlag", [server EXCEPT !.flags = [g \in known \ {f} |-> @[g]]], f)

FlagWritten(i) ==
  /\ calls[i].op \in FlagWrites
  /\ \/ /\ calls[i].reply.status = "ok"
        /\ Resolve(i, [hooks EXCEPT
             !.editing = IF calls[i].op = "updateRollout" THEN "none" ELSE @,
             !.showCreate = IF calls[i].op = "createFlag" THEN FALSE ELSE @,
             !.named = IF calls[i].op = "createFlag" THEN FALSE ELSE @], FetchFlags)
     \/ calls[i].reply.status = "failed" /\ Resolve(i, hooks, <<>>)
  /\ UNCHANGED timers

(* AdminDashboard.jsx, AuditLogs.jsx, FraudMonitoring.jsx: fetched once, an    *)
(* empty list where that failed; a tab or a filter chooses what is shown       *)

AdminLists == {"adminDashboard", "auditLogs", "fraudMonitoring"}

AdminListState == [events |-> "none", loading |-> TRUE, choice |-> "all"]

AdminListMount(s) == Mount(s, AdminListState, <<Get(s, "events")>>)

AdminListFetched(i) ==
  /\ calls[i].op \in AdminLists /\ ~Unanswered(i)
  /\ Resolve(i, [hooks EXCEPT !.events = calls[i].reply.value, !.loading = FALSE], <<>>)
  /\ UNCHANGED timers

\* The tabs of the console and the filters of the log.
AdminListChoice(c) ==
  /\ screen \in {"adminDashboard", "auditLogs"} /\ ~hooks.loading
  /\ Set([hooks EXCEPT !.choice = c])

(* BackupManager.jsx: one backup at a time is marked as being restored *)

BackupsState == [restoring |-> "none"]

BackupsMount == Mount("backups", BackupsState, <<>>)

Restore(b) ==
  /\ screen = "backups" /\ hooks.restoring # b
  /\ SetAndDelay([hooks EXCEPT !.restoring = b], "restored")

Restored == screen = "backups" /\ Fire("restored", [hooks EXCEPT !.restoring = "none"])

(* DSAShowcase.jsx: any number of cards is open; DevelopmentRoadmap.jsx: one   *)
(* phase at most                                                               *)

\* One of the cards, and one of the phases, is open at first.
Opening == CHOOSE c \in Items : TRUE

ShowcaseState == [openCards |-> {Opening}, view |-> "map"]

ShowcaseMount == Mount("showcase", ShowcaseState, <<>>)

ShowcaseView(v) == screen = "showcase" /\ Set([hooks EXCEPT !.view = v])

\* The cards are in the catalogue.
ShowcaseToggle(c) ==
  /\ screen = "showcase" /\ hooks.view = "catalog"
  /\ Set([hooks EXCEPT !.openCards = IF c \in @ THEN @ \ {c} ELSE @ \union {c}])

RoadmapState == [expandedPhase |-> Opening]

RoadmapMount == Mount("roadmap", RoadmapState, <<>>)

RoadmapToggle(p) ==
  /\ screen = "roadmap"
  /\ Set([hooks EXCEPT !.expandedPhase = IF @ = p THEN "none" ELSE p])

AdminNext ==
  \/ screen = "users" /\ (UsersMount \/ \E u \in DOMAIN hooks.users : UserUpdate(u))
  \/ screen = "flags" /\ FlagsMount
  \/ FlagForm
  \/ screen = "flags" /\ \E f \in DOMAIN hooks.flags : FlagToggle(f) \/ FlagRollout(f) \/ FlagDelete(f)
  \/ screen = "flags" /\ \E f \in Flags : FlagCreate(f)
  \/ \E s \in AdminLists : screen = s /\ AdminListMount(s)
  \/ \E c \in {"all", "one"} : AdminListChoice(c)
  \/ screen = "backups" /\ BackupsMount
  \/ screen = "showcase" /\ ShowcaseMount
  \/ screen = "roadmap" /\ RoadmapMount
  \/ \E b \in Items : Restore(b) \/ ShowcaseToggle(b) \/ RoadmapToggle(b)
  \/ Restored
  \/ \E v \in {"map", "catalog"} : ShowcaseView(v)
  \/ \E i \in DOMAIN calls :
       \/ UsersFetched(i) \/ PatchServe(i) \/ UserUpdated(i)
       \/ FlagsFetched(i) \/ FlagServe(i) \/ FlagWritten(i) \/ AdminListFetched(i)
=============================================================================
