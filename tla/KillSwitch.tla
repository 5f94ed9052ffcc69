----------------------------- MODULE KillSwitch -----------------------------
(***************************************************************************)
(* The global kill switch and the proxy calls it stops (api/admin.py,      *)
(* api/proxy.py, services/iiko_client.py).                                 *)
(*                                                                         *)
(* The switch is a key of Redis, set and deleted by admin calls that then  *)
(* commit an audit row to the database.  A proxy call looks at the key     *)
(* once, then waits for a connection of the upstream pool, sends its       *)
(* request, and streams the response.  A connection is given back by the   *)
(* stream's generator; when the client leaves, by the collector that       *)
(* finalizes the generator.  A peer that stays connected and stops, or     *)
(* never stops, may hold a call: no timeout covers that.                   *)
(***************************************************************************)
EXTENDS Integers, FiniteSets

CONSTANTS
  Requests,     \* slots for proxy calls in flight
  Calls,        \* slots for POST /admin/kill-switch in flight
  Pool,         \* max_connections of the upstream client
  KeyLoss,      \* whether Redis may lose the key (eviction, restart)
  CommitFails   \* whether the audit commit may fail

ASSUME KillSwitchAssumption ==
  /\ IsFiniteSet(Requests)
  /\ Pool \in Nat \ {0}
  /\ {KeyLoss, CommitFails} \subseteq BOOLEAN

VARIABLES
  deny,      \* the key global_deny is "1"
  call,      \* call[a]: what an admin call has left to do
  lastRow,   \* what the latest audit row of the switch says
  req,       \* req[r]: where a proxy call stands
  held,      \* held[r]: Redis, its client or the upstream keeps it waiting for now
  under      \* history: the call arrived under the lockdown still in force

vars == <<deny, call, lastRow, req, held, under>>

CallState == {"idle", "logOn", "logOff"}

\* Stages that hold an upstream connection.
Holding == {"sending", "open", "streaming", "orphan"}
Forwarding == {"admitted"} \cup Holding
Stages == {"idle", "arrived"} \cup Forwarding

\* Stages that await a peer without a timeout.
Holdable == {"arrived", "sending", "open", "streaming"}

Holders == {r \in Requests : req[r] \in Holding}

TypeOK ==
  /\ deny \in BOOLEAN
  /\ call \in [Calls -> CallState]
  /\ lastRow \in BOOLEAN
  /\ req \in [Requests -> Stages]
  /\ held \in [Requests -> BOOLEAN]
  /\ \A r \in Requests : held[r] => req[r] \in Holdable
  /\ under \in [Requests -> BOOLEAN]
  /\ Cardinality(Holders) <= Pool

Init ==
  /\ deny = FALSE
  /\ call = [a \in Calls |-> "idle"]
  /\ lastRow = FALSE
  /\ req = [r \in Requests |-> "idle"]
  /\ held = [r \in Requests |-> FALSE]
  /\ under = [r \in Requests |-> FALSE]

-----------------------------------------------------------------------------
(* The admin's side.                                                        *)

\* Lifting a lockdown ends what calls arrived under.
Lift ==
  /\ deny' = FALSE
  /\ under' = [r \in Requests |-> FALSE]

\* set_kill_switch_status writes Redis first ...
Activate(a) ==
  /\ call[a] = "idle"
  /\ deny' = TRUE
  /\ call' = [call EXCEPT ![a] = "logOn"]
  /\ UNCHANGED <<lastRow, req, held, under>>

Deactivate(a) ==
  /\ call[a] = "idle"
  /\ Lift
  /\ call' = [call EXCEPT ![a] = "logOff"]
  /\ UNCHANGED <<lastRow, req, held>>

\* ... and commits the audit row after.
CommitRow(a) ==
  /\ call[a] # "idle"
  /\ lastRow' = (call[a] = "logOn")
  /\ call' = [call EXCEPT ![a] = "idle"]
  /\ UNCHANGED <<deny, req, held, under>>

\* The commit raises, or the process dies before it: the switch stays set.
LoseRow(a) ==
  /\ CommitFails
  /\ call[a] # "idle"
  /\ call' = [call EXCEPT ![a] = "idle"]
  /\ UNCHANGED <<deny, lastRow, req, held, under>>

\* Redis keeps nothing on disk and may evict any key.
LoseKey ==
  /\ KeyLoss
  /\ deny
  /\ Lift
  /\ UNCHANGED <<call, lastRow, req, held>>

-----------------------------------------------------------------------------
(* A proxy call.                                                            *)

To(r, stage) ==
  /\ req' = [req EXCEPT ![r] = stage]
  /\ held' = [held EXCEPT ![r] = FALSE]
  /\ UNCHANGED <<deny, call, lastRow, under>>

\* The token and the permission were accepted; the handler starts.
Arrive(r) ==
  /\ req[r] = "idle"
  /\ req' = [req EXCEPT ![r] = "arrived"]
  /\ under' = [under EXCEPT ![r] = deny]
  /\ UNCHANGED <<deny, call, lastRow, held>>

\* A handler without the check of the key.
CheckNothing(r) ==
  /\ req[r] = "arrived" /\ ~held[r]
  /\ To(r, "admitted")

\* The handler reads global_deny, once; the answer to a denied call is 403.
Check(r) ==
  /\ req[r] = "arrived" /\ ~held[r]
  /\ To(r, IF deny THEN "idle" ELSE "admitted")

\* A traversal sequence in the path: 400 before anything is sent.
RejectPath(r) ==
  /\ req[r] = "admitted"
  /\ To(r, "idle")

\* A pool without a limit.
AcquireAny(r) ==
  /\ req[r] = "admitted"
  /\ To(r, "sending")

\* _forward takes a connection of the pool ...
Acquire(r) ==
  /\ req[r] = "admitted"
  /\ Cardinality(Holders) < Pool
  /\ To(r, "sending")

\* A pool that makes callers wait for ever.
PoolWaits(r) ==
  /\ req[r] = "admitted"
  /\ Cardinality(Holders) >= Pool
  /\ UNCHANGED vars

\* ... or gives up after iiko_request_timeout_seconds: 504.
PoolTimeout(r) ==
  /\ req[r] = "admitted"
  /\ Cardinality(Holders) >= Pool
  /\ To(r, "idle")

\* The upstream answers with a status and headers: a StreamingResponse is
\* built over a generator that has not started.
Respond(r) ==
  /\ req[r] = "sending" /\ ~held[r]
  /\ To(r, "open")

\* The upstream refuses, breaks or times out (502, 504), or the client leaves
\* while the handler awaits: the context manager gives the connection back.
UpstreamFails(r) ==
  /\ req[r] = "sending" /\ ~held[r]
  /\ To(r, "idle")

\* The generator runs to its first chunk.
StartStream(r) ==
  /\ req[r] = "open" /\ ~held[r]
  /\ To(r, "streaming")

\* A generator that does not close its connection at the end.
EndStreamOpen(r) ==
  /\ req[r] = "streaming" /\ ~held[r]
  /\ UNCHANGED vars

\* End of the response, an error in the middle, a read timeout, or the client
\* leaving while the generator awaits: its finally clause gives it back.
EndStream(r) ==
  /\ req[r] = "streaming" /\ ~held[r]
  /\ To(r, "idle")

\* The client leaves while the response awaits send: nobody closes the
\* generator, started or not.
ClientLeaves(r) ==
  /\ req[r] \in {"open", "streaming"}
  /\ To(r, "orphan")

\* The event loop finalizes the abandoned generator and its exit stack.
Collect(r) ==
  /\ req[r] = "orphan"
  /\ To(r, "idle")

\* Redis does not answer, the client stops uploading or reading and stays
\* connected, or the upstream's answer has no end: timeouts bound single reads and
\* writes upstream, nothing else.
Hold(r) ==
  /\ req[r] \in Holdable /\ ~held[r]
  /\ held' = [held EXCEPT ![r] = TRUE]
  /\ UNCHANGED <<deny, call, lastRow, req, under>>

\* It goes on, or gives up.
Release(r) ==
  /\ held[r]
  /\ held' = [held EXCEPT ![r] = FALSE]
  /\ UNCHANGED <<deny, call, lastRow, req, under>>

Switch == \E a \in Calls : Activate(a) \/ Deactivate(a) \/ CommitRow(a) \/ LoseRow(a)

Next ==
  \/ Switch
  \/ LoseKey
  \/ \E r \in Requests :
       \/ Arrive(r) \/ Check(r) \/ RejectPath(r) \/ Acquire(r) \/ PoolTimeout(r)
       \/ Respond(r) \/ UpstreamFails(r) \/ StartStream(r) \/ EndStream(r)
       \/ ClientLeaves(r) \/ Collect(r) \/ Hold(r) \/ Release(r)

Spec == Init /\ [][Next]_vars

\* A call that has been started moves on unless a peer holds it: handlers are
\* scheduled, the wait for the pool and each read of the upstream have a timeout,
\* and abandoned generators are finalized.  Nothing obliges a peer to release a
\* call it holds, clients or admins to call, or upstreams to answer.
Progress(r) ==
  /\ WF_vars(Check(r))
  /\ WF_vars(Acquire(r) \/ PoolTimeout(r))
  /\ WF_vars(Respond(r) \/ UpstreamFails(r))
  /\ WF_vars(StartStream(r))
  /\ WF_vars(EndStream(r))
  /\ WF_vars(Collect(r))

FairSpec == Spec /\ \A r \in Requests : Progress(r)

-----------------------------------------------------------------------------

\* A proxy call that arrived under a lockdown is not forwarded while the
\* lockdown lasts, whatever other admins and calls do (api/proxy.py:144-149).
LockdownHolds == \A r \in Requests : under[r] => deny /\ req[r] \notin Forwarding

\* Once a lockdown is kept up, each call it found in flight drains away, unless a
\* peer holds it again and again or for ever (api/proxy.py:72-88); a call denied
\* no connection by a full pool drains as well.
LockdownDrains ==
  <>[]deny => \A r \in Requests : <>[](req[r] \notin Forwarding) \/ []<>held[r]

\* A proxy call that was started ends, and its connection is given back, unless
\* a peer comes to hold it: also when the pool is full, of held calls for
\* instance, or the client leaves (api/proxy.py:73-79, iiko_client.py:83).
EveryCallEnds ==
  \A r \in Requests : req[r] # "idle" ~> req[r] = "idle" \/ held[r]

=============================================================================
