-------------------------- MODULE KillSwitchProofs --------------------------
(***************************************************************************)
(* What holds of the kill switch for any number of proxy calls and admin   *)
(* calls, any size of the pool, and whether Redis loses the key or not;    *)
(* and of the dashboard's view of it, for any number of polls and posts in *)
(* flight, of this page and of other admins.                               *)
(***************************************************************************)
EXTENDS Dashboard, FiniteSetTheorems, TLAPS

\* Everything TypeOK says but the bound of the pool.
Typed ==
  /\ deny \in BOOLEAN
  /\ call \in [Calls -> CallState]
  /\ lastRow \in BOOLEAN
  /\ req \in [Requests -> Stages]
  /\ held \in [Requests -> BOOLEAN]
  /\ \A r \in Requests : held[r] => req[r] \in Holdable
  /\ under \in [Requests -> BOOLEAN]

\* A step that only moves calls out of the stages that hold a connection, or
\* among them, leaves no more connections in use.
LEMMA NoMoreHolders ==
  ASSUME Holders' \subseteq Holders, Cardinality(Holders) <= Pool
  PROVE  Cardinality(Holders') <= Pool
<1>1. IsFiniteSet(Holders)
  BY KillSwitchAssumption, FS_Subset DEF Holders
<1>2. /\ IsFiniteSet(Holders')
      /\ Cardinality(Holders') <= Cardinality(Holders)
  BY <1>1, FS_Subset
<1>3. Cardinality(Holders) \in Nat /\ Cardinality(Holders') \in Nat
  BY <1>1, <1>2, FS_CardinalityType
<1>4. QED
  BY <1>2, <1>3, KillSwitchAssumption

\* A call that takes a connection takes one that was free.
LEMMA OneMoreHolder ==
  ASSUME NEW r \in Requests, Typed, Acquire(r)
  PROVE  Cardinality(Holders') <= Pool
<1>1. Holders' \subseteq Holders \cup {r}
  BY DEF Acquire, To, Typed, Holders, Holding
<1>2. IsFiniteSet(Holders)
  BY KillSwitchAssumption, FS_Subset DEF Holders
<1>3. /\ IsFiniteSet(Holders \cup {r})
      /\ Cardinality(Holders \cup {r}) <= Cardinality(Holders) + 1
  <2>1. /\ IsFiniteSet(Holders \cup {r})
        /\ Cardinality(Holders \cup {r}) =
             IF r \in Holders THEN Cardinality(Holders) ELSE Cardinality(Holders) + 1
    BY <1>2, FS_AddElement
  <2>2. Cardinality(Holders) \in Nat
    BY <1>2, FS_CardinalityType
  <2>3. QED
    BY <2>1, <2>2
<1>4. Cardinality(Holders') <= Cardinality(Holders \cup {r})
  BY <1>1, <1>3, FS_Subset
<1>5. IsFiniteSet(Holders')
  BY <1>1, <1>3, FS_Subset
<1>6. /\ Cardinality(Holders) \in Nat
      /\ Cardinality(Holders') \in Nat
      /\ Cardinality(Holders \cup {r}) \in Nat
  BY <1>2, <1>3, <1>5, FS_CardinalityType
<1>7. Cardinality(Holders) < Pool
  BY DEF Acquire
<1>8. QED
  BY <1>3, <1>4, <1>6, <1>7, KillSwitchAssumption

\* The state keeps its shape, and no more connections are in use than the
\* upstream client's pool has.
THEOREM SwitchTypeCorrect == Spec => []TypeOK
<1>1. Init => TypeOK
  <2> SUFFICES ASSUME Init PROVE TypeOK
    OBVIOUS
  <2>1. Holders = {}
    BY DEF Init, Holders, Holding
  <2>2. Cardinality(Holders) = 0
    BY <2>1, FS_EmptySet
  <2>3. Typed
    BY DEF Init, Typed, CallState, Stages
  <2>4. Cardinality(Holders) <= Pool
    BY <2>2, KillSwitchAssumption
  <2>5. QED
    BY <2>3, <2>4 DEF TypeOK, Typed
<1>2. TypeOK /\ [Next]_vars => TypeOK'
  <2> SUFFICES ASSUME TypeOK, [Next]_vars PROVE TypeOK'
    OBVIOUS
  <2> Typed /\ Cardinality(Holders) <= Pool
    BY DEF TypeOK, Typed
  <2>1. CASE Switch
    <3>1. Typed'
      BY <2>1 DEF Switch, Activate, Deactivate, CommitRow, LoseRow, Lift, Typed, CallState
    <3>2. Holders' = Holders
      BY <2>1 DEF Switch, Activate, Deactivate, CommitRow, LoseRow, Holders
    <3>3. QED
      BY <3>1, <3>2, NoMoreHolders DEF TypeOK, Typed
  <2>2. CASE LoseKey
    <3>1. Typed'
      BY <2>2 DEF LoseKey, Lift, Typed
    <3>2. Holders' = Holders
      BY <2>2 DEF LoseKey, Holders
    <3>3. QED
      BY <3>1, <3>2, NoMoreHolders DEF TypeOK, Typed
  <2>3. ASSUME NEW r \in Requests, Acquire(r) PROVE TypeOK'
    <3>1. Typed'
      BY <2>3 DEF Acquire, To, Typed, Stages, Forwarding, Holding, Holdable
    <3>2. QED
      BY <2>3, <3>1, OneMoreHolder DEF TypeOK, Typed
  <2>4. ASSUME NEW r \in Requests, Arrive(r) \/ Check(r) \/ RejectPath(r) \/ PoolTimeout(r)
        PROVE  TypeOK'
    <3>1. Typed'
      BY <2>4 DEF Arrive, Check, RejectPath, PoolTimeout, To, Typed, Stages, Forwarding, Holding,
                  Holdable
    <3>2. Holders' \subseteq Holders
      BY <2>4 DEF Arrive, Check, RejectPath, PoolTimeout, To, Typed, Holders, Holding
    <3>3. QED
      BY <3>1, <3>2, NoMoreHolders DEF TypeOK, Typed
  <2>5. ASSUME NEW r \in Requests,
               \/ Respond(r) \/ UpstreamFails(r) \/ StartStream(r) \/ EndStream(r)
               \/ ClientLeaves(r) \/ Collect(r) \/ Hold(r) \/ Release(r)
        PROVE  TypeOK'
    <3>1. Typed'
      BY <2>5 DEF Respond, UpstreamFails, StartStream, EndStream, ClientLeaves, Collect,
                  Hold, Release, Holdable, To, Typed, Stages, Forwarding, Holding
    <3>2. Holders' \subseteq Holders
      BY <2>5 DEF Respond, UpstreamFails, StartStream, EndStream, ClientLeaves, Collect,
                  Hold, Release, To, Typed, Holders, Holding
    <3>3. QED
      BY <3>1, <3>2, NoMoreHolders DEF TypeOK, Typed
  <2>6. CASE UNCHANGED vars
    <3>1. Typed' /\ Holders' = Holders
      BY <2>6 DEF vars, Typed, Holders
    <3>2. QED
      BY <3>1, NoMoreHolders DEF TypeOK, Typed
  <2>7. QED
    BY <2>1, <2>2, <2>3, <2>4, <2>5, <2>6 DEF Next
<1>3. QED
  BY <1>1, <1>2, PTL DEF Spec

\* No proxy call that arrived under a lockdown is forwarded while it lasts,
\* however admins, clients, evictions and other calls interleave.
THEOREM LockdownSafe == Spec => []LockdownHolds
<1>1. Init => LockdownHolds
  BY DEF Init, LockdownHolds
<1>2. TypeOK /\ LockdownHolds /\ [Next]_vars => LockdownHolds'
  <2> SUFFICES ASSUME TypeOK, LockdownHolds, [Next]_vars PROVE LockdownHolds'
    OBVIOUS
  <2> USE DEF TypeOK, LockdownHolds
  <2>1. CASE Switch
    BY <2>1 DEF Switch, Activate, Deactivate, CommitRow, LoseRow, Lift
  <2>2. CASE LoseKey
    BY <2>2 DEF LoseKey, Lift
  <2>3. ASSUME NEW r \in Requests, Arrive(r) PROVE LockdownHolds'
    BY <2>3 DEF Arrive, Forwarding, Holding
  <2>4. ASSUME NEW r \in Requests, Check(r) PROVE LockdownHolds'
    BY <2>4 DEF Check, To, Forwarding, Holding
  <2>5. ASSUME NEW r \in Requests, RejectPath(r) \/ Acquire(r) \/ PoolTimeout(r)
        PROVE  LockdownHolds'
    BY <2>5 DEF RejectPath, Acquire, PoolTimeout, To, Forwarding, Holding
  <2>6. ASSUME NEW r \in Requests,
               \/ Respond(r) \/ UpstreamFails(r) \/ StartStream(r) \/ EndStream(r)
               \/ ClientLeaves(r) \/ Collect(r) \/ Hold(r) \/ Release(r)
        PROVE  LockdownHolds'
    BY <2>6 DEF Respond, UpstreamFails, StartStream, EndStream, ClientLeaves, Collect,
                Hold, Release, To, Forwarding, Holding
  <2>7. CASE UNCHANGED vars
    BY <2>7 DEF vars
  <2>8. QED
    BY <2>1, <2>2, <2>3, <2>4, <2>5, <2>6, <2>7 DEF Next
<1>3. QED
  BY <1>1, <1>2, SwitchTypeCorrect, PTL DEF Spec

-----------------------------------------------------------------------------
(* The dashboard's view.                                                    *)

\* The steps of the page and of the admins beside it are steps of the switch, or
\* none, so the switch keeps its shape under them.
LEMMA PageStepsTheSwitch == DashboardSpec => Spec
<1>1. DashboardInit => Init
  BY DEF DashboardInit
<1>2. [DashboardNext]_dashboardVars => [Next]_vars
  <2> SUFFICES ASSUME [DashboardNext]_dashboardVars PROVE Switch \/ LoseKey \/ UNCHANGED vars
    BY DEF Next
  <2>1. CASE OpenPage \/ LeavePage \/ ClickKillSwitch \/ Cancel
    BY <2>1 DEF OpenPage, LeavePage, ClickKillSwitch, Cancel
  <2>2. ASSUME NEW p \in Polls, Polling(p) PROVE UNCHANGED vars
    BY <2>2 DEF Polling, StartPoll, AnswerPoll, MaskPoll, FailPoll, LandPoll, LandFailure, ToPoll
  <2>3. ASSUME NEW a \in Calls, Posting(a) PROVE Switch \/ UNCHANGED vars
    <3>1. CASE ArrivePost(a)
      BY <3>1 DEF ArrivePost, Switch
    <3>2. CASE CommitPost(a) \/ LosePost(a)
      BY <3>2 DEF CommitPost, LosePost, Switch
    <3>3. CASE HandleKillSwitch(a) \/ FailPost(a) \/ LandPost(a) \/ LandPostFailure(a)
      BY <3>3 DEF HandleKillSwitch, FailPost, LandPost, LandPostFailure
    <3>4. QED
      BY <2>3, <3>1, <3>2, <3>3 DEF Posting
  <2>4. CASE Elsewhere
    BY <2>4 DEF Elsewhere, Switch
  <2>5. CASE UNCHANGED dashboardVars
    BY <2>5 DEF dashboardVars
  <2>6. QED
    BY <2>1, <2>2, <2>3, <2>4, <2>5 DEF DashboardNext
<1>3. QED
  BY <1>1, <1>2, PTL DEF DashboardSpec, Spec

\* The page's part of DashboardTypeOK.
PageTyped ==
  /\ open \in BOOLEAN
  /\ stats \in {MOCK_STATS, "real"}
  /\ {isLockdown, isKillSwitchModalOpen, seenOn} \subseteq BOOLEAN
  /\ poll \in [Polls -> PollState]
  /\ post \in [Calls -> PostState]
  /\ ~open => /\ poll = [p \in Polls |-> "idle"]
              /\ post = [a \in Calls |-> NoPost]

\* The state keeps its shape; a page that is not open waits for nothing.
THEOREM DashboardTypeCorrect == DashboardSpec => []DashboardTypeOK
<1> USE DEF MOCK_STATS, PollState
<1> NoPost \in PostState
  BY DEF NoPost, PostState
<1>1. DashboardInit => PageTyped
  BY DEF DashboardInit, PageTyped
<1>2. TypeOK /\ PageTyped /\ [DashboardNext]_dashboardVars => PageTyped'
  <2> SUFFICES ASSUME TypeOK, PageTyped, [DashboardNext]_dashboardVars PROVE PageTyped'
    OBVIOUS
  <2> USE DEF PageTyped, shown
  <2>1. CASE OpenPage \/ LeavePage
    BY <2>1 DEF OpenPage, LeavePage, TypeOK
  <2>2. CASE ClickKillSwitch \/ Cancel
    BY <2>2 DEF ClickKillSwitch, Cancel
  <2>3. ASSUME NEW p \in Polls, StartPoll(p) \/ AnswerPoll(p) \/ MaskPoll(p) \/ FailPoll(p)
        PROVE  PageTyped'
    BY <2>3 DEF StartPoll, AnswerPoll, MaskPoll, FailPoll, ToPoll
  <2>4. ASSUME NEW p \in Polls, LandPoll(p) \/ LandFailure(p) PROVE PageTyped'
    BY <2>4 DEF LandPoll, LandFailure, ToPoll
  <2>5. ASSUME NEW a \in Calls, HandleKillSwitch(a) \/ FailPost(a) PROVE PageTyped'
    BY <2>5 DEF HandleKillSwitch, FailPost, ToPost, PostState, NoPost
  <2>6. ASSUME NEW a \in Calls, ArrivePost(a) PROVE PageTyped'
    BY <2>6 DEF ArrivePost, ToPost, Activate, Deactivate, Lift, PostState, NoPost
  <2>7. ASSUME NEW a \in Calls, CommitPost(a) \/ LosePost(a) PROVE PageTyped'
    BY <2>7 DEF CommitPost, LosePost, ToPost, PostState, NoPost
  <2>8. ASSUME NEW a \in Calls, LandPost(a) \/ LandPostFailure(a) PROVE PageTyped'
    <3>1. open /\ post[a].want \in BOOLEAN
      BY <2>8 DEF LandPost, LandPostFailure, NoPost, PostState
    <3>2. QED
      BY <2>8, <3>1 DEF LandPost, LandPostFailure, ToPost
  <2>9. CASE Elsewhere
    BY <2>9 DEF Elsewhere, LoseKey, Activate, Deactivate, CommitRow, LoseRow, Lift, TypeOK
  <2>10. CASE UNCHANGED dashboardVars
    BY <2>10 DEF dashboardVars, page
  <2>11. QED
    BY <2>1, <2>2, <2>3, <2>4, <2>5, <2>6, <2>7, <2>8, <2>9, <2>10
       DEF DashboardNext, Polling, Posting
<1>3. TypeOK /\ PageTyped => DashboardTypeOK
  BY DEF PageTyped, DashboardTypeOK
<1>4. QED
  BY <1>1, <1>2, <1>3, PageStepsTheSwitch, SwitchTypeCorrect, PTL DEF DashboardSpec

\* Whatever could make the view say "lockdown" was true since the page opened:
\* the switch itself, an answer under way, a post that was obeyed.
Evidence ==
  /\ deny => seenOn
  /\ isLockdown => seenOn
  /\ \A p \in Polls : poll[p] = "on" => seenOn
  /\ \A a \in Calls : post[a].st \in {"running", "ok"} /\ post[a].want => seenOn

\* The page shows a lockdown only if the switch was on since it was opened.
THEOREM NoLockdownInvented == DashboardSpec => []NoInventedLockdown
<1> USE DEF PollState, PostState, NoPost
<1>1. DashboardInit => Evidence
  BY DEF DashboardInit, Init, Evidence
<1>2. DashboardTypeOK /\ Evidence /\ [DashboardNext]_dashboardVars => Evidence'
  <2> SUFFICES ASSUME DashboardTypeOK, Evidence, [DashboardNext]_dashboardVars PROVE Evidence'
    OBVIOUS
  <2> USE DEF Evidence, shown, vars
  <2> /\ {deny, isLockdown, seenOn} \subseteq BOOLEAN
      /\ poll \in [Polls -> PollState] /\ post \in [Calls -> PostState]
      /\ ~open => /\ poll = [p \in Polls |-> "idle"]
                  /\ post = [a \in Calls |-> NoPost]
    BY DEF DashboardTypeOK, TypeOK
  <2>1. CASE OpenPage \/ LeavePage
    BY <2>1 DEF OpenPage, LeavePage
  <2>2. CASE ClickKillSwitch \/ Cancel
    BY <2>2 DEF ClickKillSwitch, Cancel
  <2>3. ASSUME NEW p \in Polls, StartPoll(p) \/ AnswerPoll(p) \/ MaskPoll(p) \/ FailPoll(p)
        PROVE  Evidence'
    BY <2>3 DEF StartPoll, AnswerPoll, MaskPoll, FailPoll, ToPoll
  <2>4. ASSUME NEW p \in Polls, LandPoll(p) \/ LandFailure(p) PROVE Evidence'
    BY <2>4 DEF LandPoll, LandFailure, ToPoll
  <2>5. ASSUME NEW a \in Calls, HandleKillSwitch(a) \/ FailPost(a) PROVE Evidence'
    BY <2>5 DEF HandleKillSwitch, FailPost, ToPost
  <2>6. ASSUME NEW a \in Calls, ArrivePost(a) PROVE Evidence'
    BY <2>6 DEF ArrivePost, ToPost, Activate, Deactivate, Lift
  <2>7. ASSUME NEW a \in Calls, CommitPost(a) \/ LosePost(a) PROVE Evidence'
    BY <2>7 DEF CommitPost, LosePost, CommitRow, LoseRow, ToPost
  <2>8. ASSUME NEW a \in Calls, LandPost(a) \/ LandPostFailure(a) PROVE Evidence'
    BY <2>8 DEF LandPost, LandPostFailure, ToPost
  <2>9. CASE Elsewhere
    BY <2>9 DEF Elsewhere, LoseKey, Activate, Deactivate, CommitRow, LoseRow, Lift
  <2>10. CASE UNCHANGED dashboardVars
    BY <2>10 DEF dashboardVars, page
  <2>11. QED
    BY <2>1, <2>2, <2>3, <2>4, <2>5, <2>6, <2>7, <2>8, <2>9, <2>10
       DEF DashboardNext, Polling, Posting
<1>3. Evidence => NoInventedLockdown
  BY DEF Evidence, NoInventedLockdown
<1>4. QED
  BY <1>1, <1>2, <1>3, DashboardTypeCorrect, PTL DEF DashboardSpec

=============================================================================
