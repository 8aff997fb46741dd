------------------------------- MODULE Screen -------------------------------
(***************************************************************************)
(* One screen of the front end (frontend/src), mounted by React in a       *)
(* browser tab: the values of its useState hooks, the calls to the API     *)
(* whose promises are pending, and the timeouts it has set.                *)
(*                                                                         *)
(* A handler, an effect or a promise callback runs to completion and its   *)
(* set functions take effect together, so each is one step.  Between the   *)
(* steps the server answers the calls in any order, or fails them, and the *)
(* user may leave the screen and open it again.  React drops what a        *)
(* callback of an unmounted component sets; what it sends it still sends.  *)
(*                                                                         *)
(* The screens EXTEND this module; Pages puts them together.               *)
(***************************************************************************)
EXTENDS Naturals, Sequences, FiniteSets, SequencesExt

CONSTANTS
  NoValue,    \* a model value: no payload, no answer
  MaxCalls,   \* bound: calls in flight at a time
  MaxTimers   \* bound: timeouts pending at a time

ASSUME BoundsAssumption == MaxCalls \in Nat \ {0} /\ MaxTimers \in Nat

VARIABLES
  screen,   \* the route that is open
  hooks,    \* its state: a record with one field per hook
  calls,    \* its calls in flight, in the order they were sent
  timers,   \* its timeouts, in the order they were set
  server,   \* what the back end keeps, a field per resource
  past      \* history of this mount: what went wrong so far

tab == <<screen, hooks, calls, timers>>
vars == <<tab, server, past>>

(* Calls *)

Waiting == [status |-> "waiting", value |-> NoValue]
Failed  == [status |-> "failed", value |-> NoValue]
Ok(v)   == [status |-> "ok", value |-> v]

\* A call: the callback that waits for it, the resource it reads, its payload,
\* whether the component that made it is still mounted, the answer, and whether
\* one sent later for the same callback came back sooner.
Sent(op, resource, arg) ==
  [op |-> op, resource |-> resource, arg |-> arg, live |-> TRUE,
   reply |-> Waiting, overtaken |-> FALSE]

Get(op, resource) == Sent(op, resource, NoValue)
Post(op, arg) == Sent(op, "none", arg)

\* The calls a handler makes while the component is mounted.
Send(cs) ==
  /\ Len(calls) + Len(cs) <= MaxCalls
  /\ calls' = calls \o cs

\* The i-th call has come back.
Back(i, op, status) == calls[i].op = op /\ calls[i].reply.status = status

Unanswered(i) == calls[i].reply.status = "waiting"

InFlight(op) == {i \in DOMAIN calls : calls[i].op = op /\ calls[i].live}

\* The calls that remain once the i-th has come back.
CallsWithout(i) ==
  RemoveAt([j \in DOMAIN calls |->
              [calls[j] EXCEPT !.overtaken = @ \/ (j < i /\ calls[j].op = calls[i].op)]], i)

\* What the callback of the i-th call does: it sets hooks to h if the component
\* is still there, and sends further calls of the same component either way.
Resolve(i, h, more) ==
  /\ Len(calls) - 1 + Len(more) <= MaxCalls
  /\ calls' = CallsWithout(i) \o [j \in DOMAIN more |-> [more[j] EXCEPT !.live = calls[i].live]]
  /\ hooks' = IF calls[i].live THEN h ELSE hooks
  /\ past' = IF calls[i].live
               THEN past \union (IF calls[i].reply.status = "failed" THEN {"failed"} ELSE {})
                         \union (IF calls[i].overtaken THEN {"overtaken"} ELSE {})
               ELSE past
  /\ UNCHANGED <<screen, server>>

\* The screen is left: nobody waits for its calls any more.
Left(cs) == [i \in DOMAIN cs |-> [cs[i] EXCEPT !.live = FALSE]]

(* The server's side of a call *)

Answer(i, reply) == calls' = [calls EXCEPT ![i].reply = reply]

\* A GET returns the resource that the call names.
Read(i) ==
  /\ Unanswered(i) /\ calls[i].resource \in DOMAIN server
  /\ Answer(i, Ok(server[calls[i].resource]))
  /\ UNCHANGED <<screen, hooks, timers, server, past>>

\* The request was refused or did not get through.
Reject(i) ==
  /\ Unanswered(i)
  /\ Answer(i, Failed)
  /\ UNCHANGED <<screen, hooks, timers, server, past>>

\* The server has done its part but the answer does not get through.
Lose(i) ==
  /\ calls[i].reply.status = "ok" /\ calls[i].resource = "none"
  /\ Answer(i, Failed)
  /\ UNCHANGED <<screen, hooks, timers, server, past>>

\* The server serves a call that writes.
Write(i, op, rows, value) ==
  /\ calls[i].op = op /\ Unanswered(i)
  /\ Answer(i, Ok(value))
  /\ server' = rows
  /\ past' = IF calls[i].live THEN past ELSE past \union {"outlived"}
  /\ UNCHANGED <<screen, hooks, timers>>

(* Handlers *)

\* A handler that only sets hooks.
Set(h) == hooks' = h /\ UNCHANGED <<screen, calls, timers, server, past>>

\* A handler that sets hooks and sends calls.
SetAndSend(h, cs) == hooks' = h /\ Send(cs) /\ UNCHANGED <<screen, timers, server, past>>

\* A handler that sets hooks and a timeout.
SetAndDelay(h, kind) ==
  /\ Len(timers) < MaxTimers
  /\ hooks' = h /\ timers' = Append(timers, kind)
  /\ UNCHANGED <<screen, calls, server, past>>

\* Timeouts of one delay fire in the order they were set.
First(kind) == CHOOSE k \in DOMAIN timers : timers[k] = kind /\ \A j \in 1..k-1 : timers[j] # kind

Pending(kind) == \E k \in DOMAIN timers : timers[k] = kind

Fire(kind, h) ==
  /\ Pending(kind)
  /\ hooks' = h /\ timers' = RemoveAt(timers, First(kind))
  /\ UNCHANGED <<screen, calls, server, past>>

\* The screen is left and opened (again): new hooks, and the effects that run on
\* mount send cs and set ts.  Timeouts of the old component set nothing any more.
MountWith(s, h, cs, ts) ==
  /\ Len(calls) + Len(cs) <= MaxCalls
  /\ screen' = s /\ hooks' = h /\ timers' = ts /\ past' = {}
  /\ calls' = Left(calls) \o cs
  /\ UNCHANGED server

Mount(s, h, cs) == MountWith(s, h, cs, <<>>)
=============================================================================
