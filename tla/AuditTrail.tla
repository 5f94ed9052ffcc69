----------------------------- MODULE AuditTrail -----------------------------
(***************************************************************************)
(* The audit rows, and the two pages that show them: the feed of the       *)
(* dashboard (pages/Dashboard.tsx, components/Dashboard/LiveEvents.tsx)    *)
(* and the audit log (pages/AuditLogs.tsx), under the toasts, which        *)
(* outlive both.                                                           *)
(*                                                                         *)
(* A row takes its timestamp before its transaction commits, and is read   *)
(* by timestamp: rows are numbered in that order.  The dashboard polls;    *)
(* the log is read once, when its page is opened, and keeps its invented   *)
(* rows until an answer with rows comes.                                   *)
(***************************************************************************)
EXTENDS Toasts, FiniteSets

CONSTANTS
  FeedSize,   \* 5
  LogSize,    \* 100
  Polls,      \* slots for polls in flight
  MaxRows,    \* bound on the rows written
  MaxEvents   \* bound on the rows written and the toasts shown, together

ASSUME AuditTrailAssumption ==
  /\ {FeedSize, LogSize} \subseteq Nat \ {0}
  /\ {MaxRows, MaxEvents} \subseteq Nat

VARIABLES
  stamped,      \* rows 1..stamped have their timestamp
  table,        \* the committed rows
  pending,      \* rows whose transaction is under way
  route,        \* the page that is open
  poll,         \* poll[p]: the dashboard's requests and their answers
  feed,         \* the rows of the feed
  fetch,        \* the log page's request and its answer
  logs,         \* the rows of the log page
  selectedLog,  \* the row whose trace is open, if any
  before        \* history: the rows committed when the log page was opened

tableVars == <<stamped, table, pending>>
dashboardVars == <<poll, feed>>
logVars == <<fetch, logs, selectedLog, before>>
vars == <<tableVars, route, dashboardVars, logVars, toastVars>>

Rows == 1..MaxRows
InventedRow == 0
MOCK_LOGS == {InventedRow}

Room == stamped + shown < MaxEvents

Request == [st : {"idle", "sent", "answered", "unread", "failed"}, rows : SUBSET Rows]
Idle == [st |-> "idle", rows |-> {}]
Sent == [st |-> "sent", rows |-> {}]
Failed == [st |-> "failed", rows |-> {}]
Answer(S) == [st |-> "answered", rows |-> S]

TypeOK ==
  /\ ToastsTypeOK
  /\ stamped \in 0..MaxRows
  /\ table \subseteq 1..stamped /\ pending \subseteq 1..stamped \ table
  /\ route \in {"dashboard", "logs"}
  /\ poll \in [Polls -> Request]
  /\ feed \subseteq {InventedRow} \cup table
  /\ Cardinality(feed) <= FeedSize
  /\ fetch \in Request
  /\ logs \subseteq {InventedRow} \cup table
  /\ selectedLog \subseteq {InventedRow} \cup table
  /\ before \subseteq table

Init ==
  /\ ToastsInit
  /\ stamped = 0 /\ table = {} /\ pending = {}
  /\ route = "dashboard"
  /\ \E p \in Polls : poll = [x \in Polls |-> IF x = p THEN Sent ELSE Idle]
  /\ feed = MOCK_LOGS
  /\ fetch = Idle /\ logs = MOCK_LOGS /\ selectedLog = {} /\ before = {}

-----------------------------------------------------------------------------
(* The rows of the admin API.                                               *)

Stamp ==
  /\ stamped < MaxRows /\ Room
  /\ stamped' = stamped + 1
  /\ pending' = pending \cup {stamped + 1}
  /\ UNCHANGED <<table, route, dashboardVars, logVars, toastVars>>

Commit(r) ==
  /\ r \in pending
  /\ table' = table \cup {r}
  /\ pending' = pending \ {r}
  /\ UNCHANGED <<stamped, route, dashboardVars, logVars, toastVars>>

Rollback(r) ==
  /\ r \in pending
  /\ pending' = pending \ {r}
  /\ UNCHANGED <<stamped, table, route, dashboardVars, logVars, toastVars>>

\* The oldest k rows, were the order not descending.
Oldest(k) == {r \in table : Cardinality({q \in table : q < r}) < k}

\* All rows, were there no limit.
NewestAll(k) == table

\* The newest k rows.
Newest(k) == {r \in table : Cardinality({q \in table : q > r}) < k}

-----------------------------------------------------------------------------
(* The dashboard.                                                           *)

OpenDashboard ==
  /\ route # "dashboard"
  /\ route' = "dashboard"
  /\ feed' = MOCK_LOGS
  /\ \E p \in Polls : poll' = [x \in Polls |-> IF x = p THEN Sent ELSE Idle]
  /\ fetch' = Idle /\ logs' = MOCK_LOGS /\ selectedLog' = {} /\ before' = {}
  /\ UNCHANGED <<tableVars, toastVars>>

ToPoll(p, from, q) ==
  /\ poll[p].st = from
  /\ poll' = [poll EXCEPT ![p] = q]
  /\ UNCHANGED <<tableVars, route, logVars, toastVars>>

StartPoll(p) == route = "dashboard" /\ ToPoll(p, "idle", Sent) /\ UNCHANGED feed

AnswerPoll(p) == ToPoll(p, "sent", Answer(Newest(FeedSize))) /\ UNCHANGED feed

\* The statistics are answered without the events, which could not be read ...
UnreadEvents(p) == ToPoll(p, "sent", [Answer({}) EXCEPT !.st = "unread"]) /\ UNCHANGED feed

\* ... or not at all.
FailPoll(p) == ToPoll(p, "sent", Failed) /\ UNCHANGED feed

\* A feed that keeps the events it was first given.
FeedFrozen(p) == IF feed = MOCK_LOGS THEN poll[p].rows ELSE feed

FeedAfter(p) == poll[p].rows

\* The feed shows the answer, in the order answers come; "No recent events"
\* when it has none.
LandPoll(p) ==
  /\ ToPoll(p, poll[p].st, Idle)
  /\ poll[p].st \in {"answered", "unread"}
  /\ feed' = FeedAfter(p)

LandFailure(p) == ToPoll(p, "failed", Idle) /\ UNCHANGED feed

-----------------------------------------------------------------------------
(* The log page.                                                            *)

OpenLogs ==
  /\ route # "logs"
  /\ route' = "logs"
  /\ fetch' = Sent
  /\ logs' = MOCK_LOGS
  /\ selectedLog' = {}
  /\ before' = table
  /\ poll' = [p \in Polls |-> Idle]
  /\ feed' = {}
  /\ UNCHANGED <<tableVars, toastVars>>

OnLogs == UNCHANGED <<tableVars, route, dashboardVars, before>>

AnswerLogs ==
  /\ fetch = Sent
  /\ fetch' = Answer(Newest(LogSize))
  /\ OnLogs /\ UNCHANGED <<logs, selectedLog, toastVars>>

FailLogs ==
  /\ fetch = Sent
  /\ fetch' = Idle
  /\ OnLogs /\ UNCHANGED <<logs, selectedLog, toastVars>>

\* An answer without rows leaves the invented ones.
LandLogs ==
  /\ fetch.st = "answered"
  /\ fetch' = Idle
  /\ logs' = IF fetch.rows = {} THEN logs ELSE fetch.rows
  /\ OnLogs /\ UNCHANGED <<selectedLog, toastVars>>

\* A row is clicked, and its trace opened over the page.
SelectLog(r) ==
  /\ route = "logs" /\ selectedLog = {} /\ r \in logs
  /\ selectedLog' = {r}
  /\ OnLogs /\ UNCHANGED <<fetch, logs, toastVars>>

Close ==
  /\ selectedLog # {}
  /\ selectedLog' = {}
  /\ OnLogs /\ UNCHANGED <<fetch, logs, toastVars>>

\* "Export successful".
ExportToCSV ==
  /\ route = "logs" /\ selectedLog = {} /\ Room
  /\ ShowToast
  /\ OnLogs /\ UNCHANGED <<fetch, logs, selectedLog>>

\* "Trace exported to SIEM": nothing is sent.
ForwardToSOC ==
  /\ selectedLog # {} /\ Room
  /\ ShowToast
  /\ OnLogs /\ UNCHANGED <<fetch, logs, selectedLog>>

-----------------------------------------------------------------------------

Elsewhere == UNCHANGED <<tableVars, route, dashboardVars, logVars>>

Polling(p) ==
  \/ StartPoll(p) \/ AnswerPoll(p) \/ UnreadEvents(p) \/ FailPoll(p)
  \/ LandPoll(p) \/ LandFailure(p)

Next ==
  \/ Stamp
  \/ \E r \in pending : Commit(r) \/ Rollback(r)
  \/ OpenDashboard \/ OpenLogs
  \/ \E p \in Polls : Polling(p)
  \/ AnswerLogs \/ FailLogs \/ LandLogs \/ Close
  \/ \E r \in logs : SelectLog(r)
  \/ ExportToCSV \/ ForwardToSOC
  \/ (\E n \in 1..MaxToasts : FireTimer(n)) /\ Elsewhere
  \/ Render /\ Elsewhere
  \/ Tick /\ Elsewhere

Spec == Init /\ [][Next]_vars

\* The interval fires while the dashboard is open, its requests end, time
\* passes, timers fire and React renders.  Nothing obliges reads to succeed or admins to act.
Fairness ==
  /\ \A p \in Polls :
       /\ WF_vars(StartPoll(p))
       /\ WF_vars(AnswerPoll(p) \/ UnreadEvents(p) \/ FailPoll(p))
       /\ WF_vars(LandPoll(p) \/ LandFailure(p))
  /\ \A n \in 1..MaxToasts : WF_vars(FireTimer(n) /\ Elsewhere)
  /\ WF_vars(Render /\ Elsewhere)
  /\ WF_vars(Tick /\ Elsewhere)

FairSpec == Spec /\ Fairness

-----------------------------------------------------------------------------

\* A toast is not taken away before its three seconds, whichever toasts share
\* its id (ToastContext.tsx:23-28).
NeverEarly ==
  [][\A t \in toasts \ toasts' : Age(t) >= Life]_vars

\* No toast of the list, or still on the screen, has the id of t, and with its
\* millisecond over none will.
Alone(t) ==
  /\ now # t.id
  /\ \A u \in toasts \cup screen : u.no # t.no => u.id # t.id

OnScreen == stuck \cup {t.no : t \in screen}

\* A toast that shares its id with no other leaves the screen, also when the
\* timers of others, their renders or another page come between
\* (ToastContext.tsx:26-28, 35-36).  One that does share it may stay for ever.
ToastsLeave ==
  \A n \in 1..MaxToasts :
    (\E t \in screen : t.no = n /\ Alone(t)) ~> n \notin OnScreen

\* The log page, once it shows rows of the gateway, misses none that was
\* committed before it was opened, unless LogSize newer ones are there
\* (AuditLogs.tsx:77-80).
NoActionMissing ==
  route = "logs" /\ logs # MOCK_LOGS =>
    \A r \in before \ logs : Cardinality({q \in logs : q > r}) >= LogSize

Calm == \A p \in Polls : poll[p].st \notin {"unread", "failed"}

\* While the dashboard is open and reads succeed, a row that stays among the
\* newest comes to the feed and stays there, whatever answers cross
\* (Dashboard.tsx:61-86, LiveEvents.tsx:31).
ActionsShow ==
  \A r \in Rows :
    <>[](route = "dashboard" /\ r \in Newest(FeedSize) /\ Calm) => <>[](r \in feed)

=============================================================================
