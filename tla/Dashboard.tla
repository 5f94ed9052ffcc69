----------------------------- MODULE Dashboard ------------------------------
(***************************************************************************)
(* The dashboard's view of the kill switch (pages/Dashboard.tsx).          *)
(*                                                                         *)
(* The page polls the statistics and the switch, and shows what the latest *)
(* answer said, in the order answers arrive.  A click posts the negation   *)
(* of the view.  The switch itself, its other admins and its audit commits *)
(* are those of KillSwitch: a post of the page is one of its admin calls,  *)
(* and every step of this module is a step of KillSwitch or none.          *)
(***************************************************************************)
EXTENDS KillSwitch

CONSTANT Polls   \* slots for polls in flight: answers may take longer than 5 s

VARIABLES
  open,                    \* the page is mounted
  stats,                   \* whose statistics the cards show
  isLockdown,              \* the view of the switch
  isKillSwitchModalOpen,   \* the confirmation is open
  poll,                    \* poll[p]: a fetchStats in flight, and its answer
  post,                    \* post[a]: a handleKillSwitch in flight, as call a
  seenOn                   \* history: the switch was on since the page opened

shown == <<stats, isLockdown, isKillSwitchModalOpen>>
page == <<open, shown, poll, post, seenOn>>
dashboardVars == <<vars, page>>

MOCK_STATS == "mock"
PollState == {"idle", "asked", "on", "off", "masked", "failed"}
NoPost == [st |-> "none", want |-> FALSE]
PostState == [st : {"none", "sent", "running", "ok", "failed"}, want : BOOLEAN]

DashboardTypeOK ==
  /\ TypeOK
  /\ open \in BOOLEAN
  /\ stats \in {MOCK_STATS, "real"}
  /\ {isLockdown, isKillSwitchModalOpen, seenOn} \subseteq BOOLEAN
  /\ poll \in [Polls -> PollState]
  /\ post \in [Calls -> PostState]
  /\ ~open => /\ poll = [p \in Polls |-> "idle"]
              /\ post = [a \in Calls |-> NoPost]

DashboardInit ==
  /\ Init
  /\ open = FALSE
  /\ stats = MOCK_STATS
  /\ isLockdown = FALSE
  /\ isKillSwitchModalOpen = FALSE
  /\ poll = [p \in Polls |-> "idle"]
  /\ post = [a \in Calls |-> NoPost]
  /\ seenOn = FALSE

-----------------------------------------------------------------------------
(* Polling.                                                                 *)

\* Mounting the page shows invented statistics and no lockdown, and starts a
\* poll at once ...
OpenPage ==
  /\ ~open
  /\ open' = TRUE
  /\ stats' = MOCK_STATS
  /\ isLockdown' = FALSE
  /\ isKillSwitchModalOpen' = FALSE
  /\ \E p \in Polls : poll' = [poll EXCEPT ![p] = "asked"]
  /\ seenOn' = deny
  /\ UNCHANGED <<vars, post>>

\* ... and unmounting it stops the interval; late answers change nothing, and
\* the posts it sent are the server's affair.
LeavePage ==
  /\ open
  /\ open' = FALSE
  /\ poll' = [p \in Polls |-> "idle"]
  /\ post' = [a \in Calls |-> NoPost]
  /\ UNCHANGED <<vars, shown, seenOn>>

ToPoll(p, from, to) ==
  /\ poll[p] = from
  /\ poll' = [poll EXCEPT ![p] = to]
  /\ UNCHANGED <<vars, open, post, seenOn>>

\* An interval that nobody clears.
StartPollUncleared(p) == ToPoll(p, "idle", "asked") /\ UNCHANGED shown

\* A page that reads no more once it has statistics.
StartPollOnce(p) == open /\ stats = MOCK_STATS /\ ToPoll(p, "idle", "asked") /\ UNCHANGED shown

\* The interval fires, whatever is still unanswered.
StartPoll(p) == open /\ ToPoll(p, "idle", "asked") /\ UNCHANGED shown

\* The server answers both reads ...
AnswerPoll(p) == ToPoll(p, "asked", IF deny THEN "on" ELSE "off") /\ UNCHANGED shown

\* ... or fails to read the switch, which the page takes for "not active" ...
MaskPoll(p) == ToPoll(p, "asked", "masked") /\ UNCHANGED shown

\* ... or fails to answer the statistics.
FailPoll(p) == ToPoll(p, "asked", "failed") /\ UNCHANGED shown

\* The answer is shown, however old it is.
LandPoll(p) ==
  /\ poll[p] \in {"on", "off", "masked"}
  /\ ToPoll(p, poll[p], "idle")
  /\ stats' = "real"
  /\ isLockdown' = (poll[p] = "on")
  /\ UNCHANGED isKillSwitchModalOpen

\* A failed poll leaves the view as it is.
LandFailure(p) == ToPoll(p, "failed", "idle") /\ UNCHANGED shown

-----------------------------------------------------------------------------
(* The confirmation and the post.                                           *)

\* The button of the header, which says "Lockdown Active" or "Kill Switch".
ClickKillSwitch ==
  /\ open
  /\ ~isKillSwitchModalOpen
  /\ isKillSwitchModalOpen' = TRUE
  /\ UNCHANGED <<vars, open, stats, isLockdown, poll, post, seenOn>>

Cancel ==
  /\ open
  /\ isKillSwitchModalOpen
  /\ isKillSwitchModalOpen' = FALSE
  /\ UNCHANGED <<vars, open, stats, isLockdown, poll, post, seenOn>>

ToPost(a, q) == post' = [post EXCEPT ![a] = q] /\ UNCHANGED <<open, poll>>

\* A page that shows the new state before the server has answered.
HandleKillSwitchEager(a) ==
  /\ open /\ isKillSwitchModalOpen
  /\ call[a] = "idle" /\ post[a] = NoPost
  /\ ToPost(a, [st |-> "sent", want |-> ~isLockdown])
  /\ isLockdown' = ~isLockdown
  /\ UNCHANGED <<vars, stats, isKillSwitchModalOpen, seenOn>>

\* The confirming button.  It stays there until the answer comes: a second
\* click sends what the view says by then.
HandleKillSwitch(a) ==
  /\ open /\ isKillSwitchModalOpen
  /\ call[a] = "idle" /\ post[a] = NoPost
  /\ ToPost(a, [st |-> "sent", want |-> ~isLockdown])
  /\ UNCHANGED <<vars, shown, seenOn>>

\* The post reaches set_kill_switch_status, which writes Redis ...
ArrivePost(a) ==
  /\ post[a].st = "sent"
  /\ IF post[a].want THEN Activate(a) ELSE Deactivate(a)
  /\ ToPost(a, [post[a] EXCEPT !.st = "running"])
  /\ seenOn' = (seenOn \/ deny')
  /\ UNCHANGED shown

\* ... or does not get that far.
FailPost(a) ==
  /\ post[a].st = "sent"
  /\ ToPost(a, [post[a] EXCEPT !.st = "failed"])
  /\ UNCHANGED <<vars, shown, seenOn>>

\* The audit row is committed and the answer sent, or lost on its way.
CommitPost(a) ==
  /\ post[a].st = "running"
  /\ CommitRow(a)
  /\ \E st \in {"ok", "failed"} : ToPost(a, [post[a] EXCEPT !.st = st])
  /\ UNCHANGED <<shown, seenOn>>

\* The commit fails: the answer is 500, and Redis stays as written.
LosePost(a) ==
  /\ post[a].st = "running"
  /\ LoseRow(a)
  /\ ToPost(a, [post[a] EXCEPT !.st = "failed"])
  /\ UNCHANGED <<shown, seenOn>>

\* The answer: the view becomes what was asked for, the dialogue closes.
LandPost(a) ==
  /\ post[a].st = "ok"
  /\ ToPost(a, NoPost)
  /\ isLockdown' = post[a].want
  /\ isKillSwitchModalOpen' = FALSE
  /\ UNCHANGED <<vars, stats, seenOn>>

\* "Failed to toggle kill switch": only the dialogue closes.
LandPostFailure(a) ==
  /\ post[a].st = "failed"
  /\ ToPost(a, NoPost)
  /\ isKillSwitchModalOpen' = FALSE
  /\ UNCHANGED <<vars, stats, isLockdown, seenOn>>

-----------------------------------------------------------------------------

\* A step of the switch that is not a post of this page's.  Proxy calls, which
\* only read it, are left to KillSwitch.
Elsewhere ==
  /\ \/ LoseKey
     \/ \E a \in Calls :
          /\ post[a] = NoPost
          /\ Activate(a) \/ Deactivate(a) \/ CommitRow(a) \/ LoseRow(a)
  /\ seenOn' = (seenOn \/ deny')
  /\ UNCHANGED <<open, shown, poll, post>>

Polling(p) ==
  \/ StartPoll(p) \/ AnswerPoll(p) \/ MaskPoll(p) \/ FailPoll(p)
  \/ LandPoll(p) \/ LandFailure(p)

Posting(a) ==
  \/ HandleKillSwitch(a) \/ ArrivePost(a) \/ FailPost(a) \/ CommitPost(a)
  \/ LosePost(a) \/ LandPost(a) \/ LandPostFailure(a)

DashboardNext ==
  \/ OpenPage \/ LeavePage \/ ClickKillSwitch \/ Cancel
  \/ \E p \in Polls : Polling(p)
  \/ \E a \in Calls : Posting(a)
  \/ Elsewhere

DashboardSpec == DashboardInit /\ [][DashboardNext]_dashboardVars

\* The interval fires while the page is open, and every request ends, in an
\* answer or an error.  Nothing obliges reads to succeed or anyone to click.
DashboardFair ==
  /\ \A p \in Polls :
       /\ WF_dashboardVars(StartPoll(p))
       /\ WF_dashboardVars(AnswerPoll(p) \/ MaskPoll(p) \/ FailPoll(p))
       /\ WF_dashboardVars(LandPoll(p) \/ LandFailure(p))
  /\ \A a \in Calls :
       /\ WF_dashboardVars(ArrivePost(a) \/ FailPost(a))
       /\ WF_dashboardVars(CommitPost(a) \/ LosePost(a))
       /\ WF_dashboardVars(LandPost(a) \/ LandPostFailure(a))

DashboardFairSpec == DashboardSpec /\ DashboardFair

-----------------------------------------------------------------------------

\* The page shows a lockdown only if the switch was on at some moment since it
\* was opened, whatever polls and posts cross or fail (Dashboard.tsx:61-105).
NoInventedLockdown == open /\ isLockdown => seenOn

Calm == \A p \in Polls : poll[p] \notin {"masked", "failed"}

\* When the switch stays as it is and reads succeed again, the page comes to
\* show it and stays right: no late answer, to a poll or to a click, leaves it
\* wrong for good (Dashboard.tsx:61-86).
ViewCatchesUp ==
  \A v \in BOOLEAN : <>[](open /\ deny = v /\ Calm) => <>[](isLockdown = v)

=============================================================================
