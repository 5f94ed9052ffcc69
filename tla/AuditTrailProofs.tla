-------------------------- MODULE AuditTrailProofs --------------------------
(***************************************************************************)
(* What holds of the audit rows on the pages, and of the toasts, for any   *)
(* number of rows, of requests in flight and of toasts, and any sizes.     *)
(***************************************************************************)
EXTENDS AuditTrail, FiniteSetTheorems, TLAPS

(* The newest of a set of rows.                                             *)

\* A finite set of numbers has a least and a greatest one.
LEMMA Extremes ==
  ASSUME NEW T \in SUBSET Nat, IsFiniteSet(T), T # {}
  PROVE  /\ \E m \in T : \A q \in T : m <= q
         /\ \E m \in T : \A q \in T : q <= m
<1> DEFINE Below(r) == {q \in T : q < r}
           Above(r) == {q \in T : q > r}
           F == {Below(r) : r \in T}
           G == {Above(r) : r \in T}
           R == StrictSubsetOrdering(T)
           S == FiniteSubsetsOf(T)
<1>1. IsWellFoundedOn(R, S)
  BY FS_StrictSubsetOrderingWellFounded
<1>2. \A r \in T : Below(r) \in S /\ Above(r) \in S
  BY FS_Subset DEF FiniteSubsetsOf
<1>3. F \subseteq S /\ F # {} /\ G \subseteq S /\ G # {}
  BY <1>2
<1>4. \A x, y \in S : x \subseteq y /\ x # y => <<x, y>> \in R
  BY DEF StrictSubsetOrdering, FiniteSubsetsOf
<1>5. \E m \in T : \A q \in T : m <= q
  <2> HIDE DEF R, S, F
  <2>1. PICK x \in F : \A y \in F : <<y, x>> \notin R
    BY <1>1, <1>3, WFMin
  <2>2. PICK m \in T : x = Below(m)
    BY <2>1 DEF F
  <2>3. ASSUME NEW q \in T, ~(m <= q) PROVE FALSE
    <3>1. Below(q) \in F /\ Below(q) \in S /\ Below(m) \in S
      BY <1>2 DEF F
    <3>2. Below(q) \subseteq Below(m) /\ q \in Below(m) /\ q \notin Below(q)
      <4>1. m \in Nat /\ q \in Nat /\ \A r \in T : r \in Nat
        OBVIOUS
      <4>2. q < m
        BY <2>3, <4>1
      <4>3. \A r \in Below(q) : r \in Below(m)
        BY <4>1, <4>2
      <4>4. q \in Below(m) /\ q \notin Below(q)
        BY <4>1, <4>2
      <4>5. QED
        BY <4>3, <4>4
    <3>3. Below(q) # Below(m)
      BY <3>2
    <3>4. QED
      BY <1>4, <2>1, <2>2, <3>1, <3>2, <3>3
  <2>4. QED
    BY <2>3
<1>6. \E m \in T : \A q \in T : q <= m
  <2> HIDE DEF R, S, G
  <2>1. PICK x \in G : \A y \in G : <<y, x>> \notin R
    BY <1>1, <1>3, WFMin
  <2>2. PICK m \in T : x = Above(m)
    BY <2>1 DEF G
  <2>3. ASSUME NEW q \in T, ~(q <= m) PROVE FALSE
    <3>1. Above(q) \in G /\ Above(q) \in S /\ Above(m) \in S
      BY <1>2 DEF G
    <3>2. Above(q) \subseteq Above(m) /\ q \in Above(m) /\ q \notin Above(q)
      <4>1. m \in Nat /\ q \in Nat /\ \A r \in T : r \in Nat
        OBVIOUS
      <4>2. m < q
        BY <2>3, <4>1
      <4>3. \A r \in Above(q) : r \in Above(m)
        BY <4>1, <4>2
      <4>4. q \in Above(m) /\ q \notin Above(q)
        BY <4>1, <4>2
      <4>5. QED
        BY <4>3, <4>4
    <3>3. Above(q) # Above(m)
      BY <3>2
    <3>4. QED
      BY <1>4, <2>1, <2>2, <3>1, <3>2, <3>3
  <2>4. QED
    BY <2>3
<1>7. QED
  BY <1>5, <1>6

NewestOf(T, k) == {r \in T : Cardinality({q \in T : q > r}) < k}

\* The newest k of some rows are k at most.
LEMMA NewestAreFew ==
  ASSUME NEW T \in SUBSET Nat, IsFiniteSet(T), NEW k \in Nat \ {0}
  PROVE  IsFiniteSet(NewestOf(T, k)) /\ Cardinality(NewestOf(T, k)) <= k
<1> DEFINE N == NewestOf(T, k)
<1>1. N \subseteq T /\ IsFiniteSet(N)
  BY FS_Subset DEF NewestOf
<1>2. CASE N = {}
  BY <1>1, <1>2, FS_EmptySet
<1>3. CASE N # {}
  <2>1. PICK m \in N : \A r \in N : m <= r
    BY <1>1, <1>3, Extremes
  <2>2. N \ {m} \subseteq {q \in T : q > m}
    <3>1. \A r \in T : r \in Nat
      OBVIOUS
    <3>2. \A r \in N : r # m => r \in T /\ r > m
      <4>1. m \in T /\ \A r \in N : r \in T
        BY <1>1
      <4>2. QED
        BY <2>1, <3>1, <4>1
    <3>3. QED
      BY <3>2
  <2>3. IsFiniteSet({q \in T : q > m}) /\ Cardinality({q \in T : q > m}) < k
    <3>1. {q \in T : q > m} \in SUBSET T
      OBVIOUS
    <3>2. IsFiniteSet({q \in T : q > m})
      BY <3>1, FS_Subset
    <3>3. QED
      BY <3>2 DEF NewestOf
  <2>4. Cardinality(N \ {m}) <= Cardinality({q \in T : q > m})
    BY <2>2, <2>3, FS_Subset
  <2>5. IsFiniteSet(N \ {m}) /\ Cardinality(N \ {m}) = Cardinality(N) - 1
    BY <1>1, <2>1, FS_RemoveElement
  <2>6. Cardinality(N) \in Nat /\ Cardinality({q \in T : q > m}) \in Nat
    BY <1>1, <2>3, FS_CardinalityType
  <2>7. QED
    BY <1>1, <2>3, <2>4, <2>5, <2>6
<1>4. QED
  BY <1>2, <1>3

\* A row that is not among the newest k is older than k of them.
LEMMA NewestAreEnough ==
  ASSUME NEW T \in SUBSET Nat, IsFiniteSet(T), NEW k \in Nat \ {0},
         NEW r \in T, r \notin NewestOf(T, k)
  PROVE  Cardinality({q \in NewestOf(T, k) : q > r}) >= k
<1> DEFINE A == {q \in T : q > r}
           B == {q \in NewestOf(T, k) : q > r}
<1> HIDE DEF A, B
<1>2. B \subseteq A /\ A \subseteq T /\ IsFiniteSet(A) /\ IsFiniteSet(B)
  <2>1. B \subseteq A /\ A \subseteq T
    BY DEF A, B, NewestOf
  <2>2. QED
    BY <2>1, FS_Subset
<1>3. Cardinality(A) \in Nat /\ Cardinality(B) \in Nat /\ Cardinality(A) >= k
  <2>1. Cardinality(A) \in Nat /\ Cardinality(B) \in Nat
    BY <1>2, FS_CardinalityType
  <2>2. ~(Cardinality(A) < k)
    BY DEF NewestOf, A
  <2>3. QED
    BY <2>1, <2>2
<1>4. SUFFICES ASSUME Cardinality(B) < k PROVE FALSE
  BY <1>3 DEF B
<1>5. A \ B # {}
  <2>1. A # B
    BY <1>3, <1>4
  <2>2. QED
    BY <1>2, <2>1
<1>6. PICK m \in A \ B : \A q \in A \ B : q <= m
  <2>1. A \ B \in SUBSET Nat /\ IsFiniteSet(A \ B)
    BY <1>2, FS_Subset
  <2>2. QED
    BY <1>5, <2>1, Extremes
<1>7. {q \in T : q > m} \subseteq B
  <2>1. m \in Nat /\ m > r /\ r \in Nat
    BY <1>6 DEF A
  <2>2. ASSUME NEW q \in T, q > m PROVE q \in B
    <3>1. q \in A
      BY <2>1, <2>2 DEF A
    <3>2. QED
      BY <1>6, <2>1, <2>2, <3>1
  <2>3. QED
    BY <2>2
<1>8. Cardinality({q \in T : q > m}) < k
  <2>1. Cardinality({q \in T : q > m}) <= Cardinality(B) /\ IsFiniteSet({q \in T : q > m})
    BY <1>2, <1>7, FS_Subset
  <2>2. Cardinality({q \in T : q > m}) \in Nat
    BY <2>1, FS_CardinalityType
  <2>3. QED
    BY <1>3, <1>4, <2>1, <2>2
<1>9. QED
  BY <1>6, <1>8 DEF A, B, NewestOf

-----------------------------------------------------------------------------
(* The types.                                                               *)

\* Every answer under way holds rows of the table, and no more than asked for.
AnswersBounded ==
  /\ \A p \in Polls : /\ poll[p].rows \subseteq table
                      /\ IsFiniteSet(poll[p].rows)
                      /\ Cardinality(poll[p].rows) <= FeedSize
  /\ fetch.rows \subseteq table

LEMMA TableFinite == TypeOK => table \in SUBSET Nat /\ table \subseteq Rows /\ IsFiniteSet(table)
<1> SUFFICES ASSUME TypeOK PROVE table \in SUBSET Nat /\ table \subseteq Rows /\ IsFiniteSet(table)
  OBVIOUS
<1>1. stamped \in Nat /\ table \subseteq 1..stamped /\ table \subseteq Rows
  BY AuditTrailAssumption DEF TypeOK, Rows
<1>2. IsFiniteSet(1..stamped)
  BY <1>1, FS_Interval
<1>3. IsFiniteSet(table)
  BY <1>1, <1>2, FS_Subset
<1>4. QED
  BY <1>1, <1>3

LEMMA EmptyBounded == IsFiniteSet({}) /\ Cardinality({}) <= FeedSize /\ Cardinality({}) = 0
BY FS_EmptySet, AuditTrailAssumption

LEMMA MockBounded == Cardinality(MOCK_LOGS) <= FeedSize
<1>1. Cardinality(MOCK_LOGS) = 1
  BY FS_Singleton DEF MOCK_LOGS
<1>2. QED
  BY <1>1, AuditTrailAssumption

\* A toast's times stay on the clock.
LEMMA ShowTyped ==
  ASSUME ToastsTypeOK, ShowToast
  PROVE  ToastsTypeOK'
<1> DEFINE t == [no |-> shown + 1, id |-> NewId, born |-> now]
<1>1. shown \in 0..MaxToasts /\ shown < MaxToasts /\ MaxToasts \in Nat /\ shown' = shown + 1
  BY ToastsAssumption DEF ShowToast, ToastsTypeOK
<1>2. t \in Toast
  BY <1>1 DEF ToastsTypeOK, Toast, NewId
<1>3. /\ toasts' = toasts \cup {t} /\ timers' = timers \cup {t}
      /\ UNCHANGED <<now, screen, stuck>>
  BY DEF ShowToast, Scheduled
<1> HIDE DEF t
<1>4. shown' \in 0..MaxToasts /\ 1..shown \subseteq 1..shown'
  BY <1>1
<1>5. QED
  BY <1>2, <1>3, <1>4 DEF ToastsTypeOK

LEMMA FireTyped ==
  ASSUME ToastsTypeOK, NEW n, FireTimer(n)
  PROVE  ToastsTypeOK'
BY DEF FireTimer, ToastsTypeOK, Remaining

\* Every toast on the list or the screen, or with a timer, was shown.
Numbered == \A t \in toasts \cup timers \cup screen : t.no \in 1..shown

LEMMA RenderTyped ==
  ASSUME ToastsTypeOK, Numbered, Render
  PROVE  ToastsTypeOK'
BY DEF Render, ToastsTypeOK, Numbered, Orphaned

LEMMA ToastsNumbered ==
  ASSUME ToastsTypeOK, Numbered,
         ShowToast \/ (\E n \in 1..MaxToasts : FireTimer(n)) \/ Render \/ Tick
         \/ UNCHANGED toastVars
  PROVE  Numbered'
<1>1. shown \in Nat
  BY ToastsAssumption DEF ToastsTypeOK
<1>2. CASE ShowToast
  <2> DEFINE t == [no |-> shown + 1, id |-> NewId, born |-> now]
  <2>1. /\ toasts' = toasts \cup {t} /\ timers' = timers \cup {t} /\ screen' = screen
        /\ shown' = shown + 1
    BY <1>2 DEF ShowToast, Scheduled
  <2>2. t.no = shown + 1
    OBVIOUS
  <2> HIDE DEF t
  <2>3. 1..shown \subseteq 1..shown' /\ t.no \in 1..shown'
    BY <1>1, <2>1, <2>2
  <2>4. QED
    BY <2>1, <2>3 DEF Numbered
<1>3. CASE \E n \in 1..MaxToasts : FireTimer(n)
  BY <1>3 DEF FireTimer, Remaining, Numbered
<1>4. CASE Render
  BY <1>4 DEF Render, Numbered
<1>5. CASE Tick \/ UNCHANGED toastVars
  BY <1>5 DEF Tick, toastVars, Numbered
<1>6. QED
  BY <1>2, <1>3, <1>4, <1>5

LEMMA TickTyped ==
  ASSUME ToastsTypeOK, Tick
  PROVE  ToastsTypeOK'
<1>1. Cycle \in Nat /\ Cycle > 0 /\ Times = 0..Cycle - 1
  BY ToastsAssumption DEF Cycle, Times
<1>2. now + 1 \in Int
  BY <1>1 DEF ToastsTypeOK
<1>3. (now + 1) % Cycle \in 0..Cycle - 1
  BY <1>1, <1>2
<1>4. QED
  BY <1>1, <1>3 DEF Tick, ToastsTypeOK

LEMMA ToastsInitTyped == ToastsInit => ToastsTypeOK
BY ToastsAssumption DEF ToastsInit, ToastsTypeOK, Times

ToastsInv == ToastsTypeOK /\ Numbered

\* To the toasts, a step shows one, fires a timer, renders or lets time pass.
ToastStep ==
  ShowToast \/ (\E n \in 1..MaxToasts : FireTimer(n)) \/ Render \/ Tick \/ UNCHANGED toastVars

LEMMA ToastMoves ==
  ASSUME [Next]_vars
  PROVE  ToastStep
<1>1. ASSUME NEW p \in Polls, Polling(p) PROVE UNCHANGED toastVars
  BY <1>1 DEF Polling, StartPoll, AnswerPoll, UnreadEvents, FailPoll, LandPoll, LandFailure,
              ToPoll
<1>2. QED
  BY <1>1
     DEF ToastStep, Next, vars, Stamp, Commit, Rollback, OpenDashboard, OpenLogs, AnswerLogs,
         FailLogs, LandLogs, Close, SelectLog, ExportToCSV, ForwardToSOC

LEMMA ToastsStay == ToastsInv /\ [Next]_vars => ToastsInv'
<1> SUFFICES ASSUME ToastsTypeOK, Numbered, ToastStep PROVE ToastsTypeOK' /\ Numbered'
  BY ToastMoves DEF ToastsInv
<1>1. UNCHANGED toastVars => ToastsTypeOK'
  BY DEF toastVars, ToastsTypeOK
<1>2. ToastsTypeOK'
  BY <1>1, ShowTyped, FireTyped, RenderTyped, TickTyped DEF ToastStep
<1>3. Numbered'
  BY ToastsNumbered DEF ToastStep
<1>4. QED
  BY <1>2, <1>3

TypeInv == TypeOK /\ AnswersBounded /\ Numbered

LEMMA TypeStep == TypeInv /\ [Next]_vars => TypeInv'
<1> SUFFICES ASSUME TypeInv, [Next]_vars PROVE TypeInv'
  OBVIOUS
<1>0. TypeOK /\ ToastsTypeOK' /\ Numbered'
  BY ToastsStay DEF TypeInv, TypeOK, ToastsInv
<1> USE DEF TypeInv
<1>1. CASE Stamp
  <2>1. /\ stamped \in 0..MaxRows /\ stamped < MaxRows /\ MaxRows \in Nat
        /\ stamped' = stamped + 1 /\ pending' = pending \cup {stamped + 1}
        /\ table \subseteq 1..stamped /\ pending \subseteq 1..stamped \ table
        /\ UNCHANGED <<table, route, dashboardVars, logVars>>
    BY <1>1, AuditTrailAssumption DEF Stamp, TypeOK
  <2>2. /\ stamped' \in 0..MaxRows /\ 1..stamped \subseteq 1..stamped'
        /\ stamped + 1 \in 1..stamped' /\ stamped + 1 \notin 1..stamped
    BY <2>1
  <2>3. table' \subseteq 1..stamped' /\ pending' \subseteq 1..stamped' \ table'
    BY <2>1, <2>2
  <2>4. QED
    BY <1>0, <2>1, <2>2, <2>3 DEF TypeOK, AnswersBounded, dashboardVars, logVars
<1>2. ASSUME NEW r \in pending, Commit(r) \/ Rollback(r) PROVE TypeInv'
  BY <1>0, <1>2 DEF Commit, Rollback, TypeOK, AnswersBounded, dashboardVars, logVars
<1>3. CASE OpenDashboard
  <2>1. poll' \in [Polls -> Request] /\ fetch' \in Request
    BY <1>3 DEF OpenDashboard, Request, Sent, Idle
  <2>2. AnswersBounded'
    BY <1>3, EmptyBounded DEF OpenDashboard, AnswersBounded, Sent, Idle
  <2>3. QED
    BY <1>0, <1>3, <2>1, <2>2, MockBounded
       DEF OpenDashboard, TypeOK, tableVars, MOCK_LOGS
<1>4. CASE OpenLogs
  <2>1. poll' \in [Polls -> Request] /\ fetch' \in Request
    BY <1>4 DEF OpenLogs, Request, Sent, Idle
  <2>2. AnswersBounded'
    BY <1>4, EmptyBounded DEF OpenLogs, AnswersBounded, Sent, Idle
  <2>3. QED
    BY <1>0, <1>4, <2>1, <2>2, EmptyBounded
       DEF OpenLogs, TypeOK, tableVars, MOCK_LOGS
<1>5. ASSUME NEW p \in Polls, Polling(p) PROVE TypeInv'
  <2>1. ASSUME NEW from, NEW q \in Request, ToPoll(p, from, q), feed' \subseteq {InventedRow} \cup table,
               Cardinality(feed') <= FeedSize, q.rows \subseteq table, IsFiniteSet(q.rows),
               Cardinality(q.rows) <= FeedSize
        PROVE  TypeInv'
    BY <1>0, <2>1 DEF ToPoll, TypeOK, AnswersBounded, tableVars, logVars
  <2>2. feed \subseteq {InventedRow} \cup table /\ Cardinality(feed) <= FeedSize
    BY DEF TypeOK
  <2>3. /\ Idle \in Request /\ Sent \in Request /\ Failed \in Request
        /\ [Answer({}) EXCEPT !.st = "unread"] \in Request
        /\ Idle.rows = {} /\ Sent.rows = {} /\ Failed.rows = {}
        /\ [Answer({}) EXCEPT !.st = "unread"].rows = {}
    BY DEF Idle, Sent, Failed, Answer, Request
  <2>4. CASE StartPoll(p)
    BY <2>1, <2>2, <2>3, <2>4, EmptyBounded DEF StartPoll
  <2>5. CASE AnswerPoll(p)
    <3>1. Newest(FeedSize) = NewestOf(table, FeedSize) /\ FeedSize \in Nat \ {0}
      BY AuditTrailAssumption DEF Newest, NewestOf
    <3>2. IsFiniteSet(Newest(FeedSize)) /\ Cardinality(Newest(FeedSize)) <= FeedSize
      BY <1>0, <3>1, TableFinite, NewestAreFew
    <3>3. Newest(FeedSize) \subseteq table /\ table \subseteq Rows
      BY <1>0, TableFinite DEF Newest
    <3>4. Answer(Newest(FeedSize)) \in Request
          /\ Answer(Newest(FeedSize)).rows = Newest(FeedSize)
      BY <3>3 DEF Answer, Request
    <3>5. QED
      BY <2>1, <2>2, <2>5, <3>2, <3>3, <3>4 DEF AnswerPoll
  <2>6. CASE UnreadEvents(p)
    BY <2>1, <2>2, <2>3, <2>6, EmptyBounded DEF UnreadEvents
  <2>7. CASE FailPoll(p)
    BY <2>1, <2>2, <2>3, <2>7, EmptyBounded DEF FailPoll
  <2>8. CASE LandPoll(p)
    BY <2>1, <2>3, <2>8, EmptyBounded DEF LandPoll, FeedAfter, AnswersBounded
  <2>9. CASE LandFailure(p)
    BY <2>1, <2>2, <2>3, <2>9, EmptyBounded DEF LandFailure
  <2>10. QED
    BY <1>5, <2>4, <2>5, <2>6, <2>7, <2>8, <2>9 DEF Polling
<1>6. ASSUME OnLogs, fetch' \in Request, fetch'.rows \subseteq table,
             logs' \subseteq {InventedRow} \cup table,
             selectedLog' \subseteq {InventedRow} \cup table
      PROVE  TypeInv'
  BY <1>0, <1>6 DEF OnLogs, TypeOK, AnswersBounded, tableVars, dashboardVars
<1>7. /\ fetch \in Request /\ fetch.rows \subseteq table
      /\ logs \subseteq {InventedRow} \cup table
      /\ selectedLog \subseteq {InventedRow} \cup table
  BY DEF TypeOK, AnswersBounded
<1>8. CASE AnswerLogs
  <2>1. Newest(LogSize) \subseteq table /\ table \subseteq Rows
    BY <1>0, TableFinite DEF Newest
  <2>2. QED
    BY <1>6, <1>7, <1>8, <2>1 DEF AnswerLogs, Answer, Request
<1>9. CASE FailLogs
  BY <1>6, <1>7, <1>9 DEF FailLogs, Idle, Request
<1>10. CASE LandLogs
  BY <1>6, <1>7, <1>10 DEF LandLogs, Idle, Request
<1>11. CASE Close
  BY <1>6, <1>7, <1>11 DEF Close
<1>12. ASSUME NEW r \in logs, SelectLog(r) PROVE TypeInv'
  BY <1>6, <1>7, <1>12 DEF SelectLog
<1>13. CASE ExportToCSV \/ ForwardToSOC
  BY <1>6, <1>7, <1>13 DEF ExportToCSV, ForwardToSOC
<1>14. CASE Elsewhere \/ UNCHANGED vars
  BY <1>0, <1>14 DEF Elsewhere, vars, TypeOK, AnswersBounded, tableVars, dashboardVars, logVars
<1>15. QED
  BY <1>1, <1>2, <1>3, <1>4, <1>5, <1>8, <1>9, <1>10, <1>11, <1>12, <1>13, <1>14 DEF Next

\* No page shows, and no answer brings, a row that was not committed; the feed
\* never outgrows its size.
THEOREM AuditTypeCorrect == Spec => []TypeOK
<1>1. Init => TypeInv
  <2> SUFFICES ASSUME Init PROVE TypeInv
    OBVIOUS
  <2>1. poll \in [Polls -> Request] /\ fetch \in Request
    BY DEF Init, Request, Sent, Idle
  <2>2. AnswersBounded
    BY EmptyBounded DEF Init, AnswersBounded, Sent, Idle
  <2>3. stamped \in 0..MaxRows
    BY AuditTrailAssumption DEF Init
  <2>4. QED
    BY <2>1, <2>2, <2>3, MockBounded, ToastsInitTyped
       DEF Init, ToastsInit, Numbered, TypeInv, TypeOK, MOCK_LOGS
<1>2. TypeInv => TypeOK
  BY DEF TypeInv
<1>3. QED
  BY <1>1, <1>2, TypeStep, PTL DEF Spec

-----------------------------------------------------------------------------
(* The log page.                                                            *)

\* S misses a row that was there before only when it has LogSize newer ones.
Complete(S) == \A r \in before \ S : Cardinality({q \in S : q > r}) >= LogSize

LogsComplete ==
  /\ fetch.st = "answered" => Complete(fetch.rows)
  /\ logs # MOCK_LOGS => Complete(logs)

\* The log page, once it shows rows of the gateway, misses none that it should
\* have: for any size of the page and any number of rows.
THEOREM NoneMissing == Spec => []NoActionMissing
<1>1. Init => LogsComplete
  BY DEF Init, LogsComplete, Idle
<1>2. TypeOK /\ LogsComplete /\ [Next]_vars => LogsComplete'
  <2> SUFFICES ASSUME TypeOK, LogsComplete, [Next]_vars PROVE LogsComplete'
    OBVIOUS
  <2> USE DEF LogsComplete, Complete
  <2>1. CASE UNCHANGED logVars
    BY <2>1 DEF logVars
  <2>2. CASE OpenDashboard \/ OpenLogs
    BY <2>2 DEF OpenDashboard, OpenLogs, Idle, Sent
  <2>3. CASE AnswerLogs
    <3>1. Newest(LogSize) = NewestOf(table, LogSize) /\ LogSize \in Nat \ {0}
      BY AuditTrailAssumption DEF Newest, NewestOf
    <3>2. table \in SUBSET Nat /\ IsFiniteSet(table) /\ before \subseteq table
      BY TableFinite DEF TypeOK
    <3>3. Complete(Newest(LogSize))
      BY <3>1, <3>2, NewestAreEnough
    <3>4. QED
      BY <2>3, <3>3 DEF AnswerLogs, Answer, OnLogs
  <2>4. CASE FailLogs
    BY <2>4 DEF FailLogs, OnLogs, Idle
  <2>5. CASE LandLogs
    BY <2>5 DEF LandLogs, OnLogs, Idle
  <2>6. CASE UNCHANGED <<fetch, logs, before>>
    BY <2>6
  <2>7. ASSUME NEW p \in Polls, Polling(p) PROVE LogsComplete'
    BY <2>1, <2>7 DEF Polling, StartPoll, AnswerPoll, UnreadEvents, FailPoll, LandPoll,
                      LandFailure, ToPoll
  <2>8. QED
    BY <2>1, <2>2, <2>3, <2>4, <2>5, <2>6, <2>7
       DEF Next, Stamp, Commit, Rollback, Close, SelectLog, ExportToCSV, ForwardToSOC, OnLogs,
           Elsewhere, vars
<1>3. LogsComplete => NoActionMissing
  BY DEF LogsComplete, Complete, NoActionMissing
<1>4. QED
  BY <1>1, <1>2, <1>3, AuditTypeCorrect, PTL DEF Spec

-----------------------------------------------------------------------------
(* The toasts.                                                              *)

\* Ids are the times toasts were shown at; a toast on the list has its timer.
TimersTrue ==
  /\ \A t \in toasts \cup timers : t.id = t.born
  /\ toasts \subseteq timers

LEMMA TimersHold == Spec => []TimersTrue
<1>1. Init => TimersTrue
  BY DEF Init, ToastsInit, TimersTrue
<1>2. TimersTrue /\ [Next]_vars => TimersTrue'
  <2> SUFFICES ASSUME TimersTrue, ToastStep PROVE TimersTrue'
    BY ToastMoves
  <2>1. CASE ShowToast
    <3> DEFINE t == [no |-> shown + 1, id |-> NewId, born |-> now]
    <3>1. toasts' = toasts \cup {t} /\ timers' = timers \cup {t}
      BY <2>1 DEF ShowToast, Scheduled
    <3>2. t.id = t.born
      BY DEF NewId
    <3> HIDE DEF t
    <3>3. QED
      BY <3>1, <3>2 DEF TimersTrue
  <2>2. CASE \E n \in 1..MaxToasts : FireTimer(n)
    BY <2>2 DEF FireTimer, Remaining, TimersTrue
  <2>3. CASE Render \/ Tick \/ UNCHANGED toastVars
    BY <2>3 DEF Render, Tick, toastVars, TimersTrue
  <2>4. QED
    BY <2>1, <2>2, <2>3 DEF ToastStep
<1>3. QED
  BY <1>1, <1>2, PTL DEF Spec

\* No toast of the list is forgotten, for any number of them: each has its own
\* timer set, whichever timers fired before, and those that share an id are of
\* one age.
THEOREM NoToastForgotten ==
  Spec => [](/\ toasts \subseteq timers
             /\ \A t, u \in toasts : t.id = u.id => t.born = u.born)
<1>1. TimersTrue => /\ toasts \subseteq timers
                    /\ \A t, u \in toasts : t.id = u.id => t.born = u.born
  BY DEF TimersTrue
<1>2. QED
  BY <1>1, TimersHold, PTL

\* No toast is taken away early, for any number of them, of any life, and
\* however late timers fire: those that share an id are of one age.
THEOREM NeverTakenEarly == Spec => NeverEarly
<1>1. TimersTrue /\ [Next]_vars => [\A t \in toasts \ toasts' : Age(t) >= Life]_vars
  <2> SUFFICES ASSUME TimersTrue, ToastStep, NEW u \in toasts \ toasts'
               PROVE  Age(u) >= Life
    BY ToastMoves
  <2>1. \E n \in 1..MaxToasts : FireTimer(n)
    BY DEF ToastStep, ShowToast, Render, Tick, toastVars
  <2>2. PICK t \in timers : Age(t) >= Life /\ toasts' = Remaining(t)
    BY <2>1 DEF FireTimer
  <2>3. u.id = t.id
    BY <2>2 DEF Remaining
  <2>4. u.born = t.born
    BY <2>3 DEF TimersTrue
  <2>5. QED
    BY <2>2, <2>4 DEF Age
<1>2. QED
  BY <1>1, TimersHold, PTL DEF Spec, NeverEarly

=============================================================================
