------------------------- MODULE AdminSessionProofs -------------------------
(***************************************************************************)
(* What holds of the panel's session for any number of tabs, pages and     *)
(* logins.                                                                 *)
(***************************************************************************)
EXTENDS AdminSession, TLAPS

\* What a tab may be given when it is mounted somewhere.
LEMMA MountTyped ==
  ASSUME TypeOK, NEW t \in Tabs, NEW route \in Pages \cup AtLogin, NEW k \in 0..issued',
         NEW waiting \in SUBSET Call, issued' \in issued..MaxTokens,
         Mount(t, route, k, waiting)
  PROVE  /\ path' \in [Tabs -> Pages \cup AtLogin]
         /\ checked' \in [Tabs -> 0..issued']
         /\ loading' \in [Tabs -> BOOLEAN]
         /\ calls' \in [Tabs -> SUBSET Call]
         /\ \A u \in Tabs : loading'[u] => path'[u] = "login" /\ Login \in calls'[u]
<1>1. 0..issued \subseteq 0..issued'
  BY DEF TypeOK
<1>2. checked \in [Tabs -> 0..issued']
  BY <1>1 DEF TypeOK
<1>3. QED
  BY <1>2 DEF TypeOK, Mount

\* The calls of a tab that enters a page are calls.
LEMMA SentTyped ==
  ASSUME NEW t \in Tabs, NEW p \in Pages, NEW k \in 0..MaxTokens, NEW seen
  PROVE  Sent(t, p, k, seen) \in SUBSET Call
BY AdminSessionAssumption DEF Sent, Attached, Get, Call, Tokens, None

LEMMA EnterTyped ==
  ASSUME TypeOK, NEW t \in Tabs, NEW p \in Pages, NEW k \in 0..issued', NEW seen,
         NEW waiting \in SUBSET Call, issued' \in issued..MaxTokens,
         Enter(t, p, k, seen, waiting)
  PROVE  /\ path' \in [Tabs -> Pages \cup AtLogin]
         /\ checked' \in [Tabs -> 0..issued']
         /\ loading' \in [Tabs -> BOOLEAN]
         /\ calls' \in [Tabs -> SUBSET Call]
         /\ \A u \in Tabs : loading'[u] => path'[u] = "login" /\ Login \in calls'[u]
<1>1. issued \in Nat /\ issued' \in Nat /\ k \in 0..MaxTokens /\ None \in 0..issued'
  BY AdminSessionAssumption DEF TypeOK, None
<1>2. CASE k = None
  <2>1. Mount(t, "mounting", None, waiting)
    BY <1>2 DEF Enter
  <2>2. "mounting" \in Pages \cup AtLogin
    BY DEF AtLogin
  <2>3. QED
    BY <1>1, <2>1, <2>2, MountTyped
<1>3. CASE k # None
  <2>1. Mount(t, p, k, waiting \cup Sent(t, p, k, seen))
    BY <1>3 DEF Enter
  <2>2. waiting \cup Sent(t, p, k, seen) \in SUBSET Call
    BY <1>1, SentTyped
  <2>3. QED
    BY <2>1, <2>2, MountTyped
<1>4. QED
  BY <1>2, <1>3

\* The storage keeps its shape when a token is dropped from it.
LEMMA DropTyped ==
  ASSUME TypeOK, issued' = issued, stored' \in {None, stored}, dead' = dead,
         Drop(stored) \/ dropped' = dropped
  PROVE  /\ stored' \in 0..issued' /\ issued' \in 0..MaxTokens
         /\ dead' \subseteq 1..issued' /\ dropped' \subseteq 1..issued'
<1>1. issued \in Nat /\ issued \in 0..MaxTokens /\ stored \in 0..issued /\ None \in 0..issued
  BY AdminSessionAssumption DEF TypeOK, None
<1>2. {stored} \ {None} \subseteq 1..issued
  BY <1>1 DEF None
<1>3. dropped' \subseteq 1..issued
  BY <1>2 DEF TypeOK, Drop
<1>4. QED
  BY <1>1, <1>3 DEF TypeOK

\* A step that leaves a tab where it is and gives it no new login.
LEMMA OverTyped ==
  ASSUME TypeOK, NEW t \in Tabs, NEW c, Over(t, c), issued' = issued
  PROVE  /\ path' \in [Tabs -> Pages \cup AtLogin]
         /\ checked' \in [Tabs -> 0..issued']
         /\ loading' \in [Tabs -> BOOLEAN]
         /\ calls' \in [Tabs -> SUBSET Call]
         /\ \A u \in Tabs : loading'[u] => path'[u] = "login" /\ Login \in calls'[u]
BY DEF TypeOK, Over

LEMMA UnauthorizedTyped ==
  ASSUME TypeOK, NEW t \in Tabs, NEW c, Unauthorized(t, c), UNCHANGED <<issued, dead, acting>>
  PROVE  TypeOK'
<1>1. CASE path[t] \in AtLogin
  <2>1. Over(t, c) /\ UNCHANGED <<stored, dropped>>
    BY <1>1 DEF Unauthorized
  <2>2. QED
    BY <2>1, OverTyped, DropTyped DEF TypeOK
<1>2. CASE path[t] \notin AtLogin
  <2>1. stored' = None /\ Drop(stored) /\ Mount(t, "mounting", None, {})
    BY <1>2 DEF Unauthorized
  <2>2. "mounting" \in Pages \cup AtLogin /\ None \in 0..issued' /\ issued' \in issued..MaxTokens
    BY AdminSessionAssumption DEF AtLogin, TypeOK, None
  <2>3. QED
    BY <2>1, <2>2, MountTyped, DropTyped DEF TypeOK
<1>3. QED
  BY <1>1, <1>2

\* The storage, the tabs and their calls keep their shape; the login button is
\* disabled only while the form shows and its login is awaited.
THEOREM PanelTypeCorrect == Spec => []TypeOK
<1>1. Init => TypeOK
  BY AdminSessionAssumption DEF Init, TypeOK, None, AtLogin
<1>2. TypeOK /\ [Next]_vars => TypeOK'
  <2> SUFFICES ASSUME TypeOK, [Next]_vars PROVE TypeOK'
    OBVIOUS
  <2>0. /\ issued \in Nat /\ issued <= MaxTokens /\ MaxTokens \in Nat
        /\ stored \in 0..issued /\ None \in 0..issued
        /\ \A t \in Tabs : calls[t] \in SUBSET Call /\ calls[t] \cup {Login} \in SUBSET Call
        /\ "mounting" \in Pages \cup AtLogin /\ "login" \in Pages \cup AtLogin
    BY AdminSessionAssumption DEF TypeOK, None, AtLogin, Call
  <2>1. ASSUME NEW t \in Tabs, NEW p \in Pages, OpenUrl(t, p), UNCHANGED acting PROVE TypeOK'
    BY <2>0, <2>1, EnterTyped DEF OpenUrl, TypeOK
  <2>2. ASSUME NEW t \in Tabs, NEW p \in Pages, Navigate(t, p), UNCHANGED acting PROVE TypeOK'
    BY <2>0, <2>2, EnterTyped DEF Navigate, TypeOK
  <2>3. ASSUME NEW t \in Tabs, OpenLogin(t), UNCHANGED acting PROVE TypeOK'
    BY <2>0, <2>3, MountTyped DEF OpenLogin, TypeOK
  <2>4. ASSUME NEW t \in Tabs, Logout(t), UNCHANGED acting PROVE TypeOK'
    BY <2>0, <2>4, MountTyped, DropTyped DEF Logout, TypeOK
  <2>5. ASSUME NEW t \in Tabs, SubmitLogin(t), UNCHANGED acting PROVE TypeOK'
    BY <2>0, <2>5 DEF SubmitLogin, TypeOK
  <2>6. ASSUME NEW t \in Tabs, LoginEffect(t), UNCHANGED acting PROVE TypeOK'
    <3>1. CASE stored = None
      BY <2>0, <2>6, <3>1, MountTyped DEF LoginEffect, TypeOK
    <3>2. CASE stored # None
      BY <2>0, <2>6, <3>2, EnterTyped DEF LoginEffect, TypeOK, Pages
    <3>3. QED
      BY <3>1, <3>2
  <2>7. ASSUME NEW t \in Tabs, Poll(t), UNCHANGED acting PROVE TypeOK'
    <3>1. Get(Attached(t, stored)) \in Call
      BY <2>0 DEF Get, Attached, Call, None, Tokens
    <3>2. QED
      BY <2>7, <3>1 DEF Poll, TypeOK
  <2>8. ASSUME NEW t \in Tabs, GrantLogin(t), UNCHANGED acting PROVE TypeOK'
    <3>1. issued' = issued + 1 /\ issued' \in issued..MaxTokens /\ issued + 1 \in 0..issued'
      BY <2>0, <2>8 DEF GrantLogin
    <3>2. Enter(t, "dashboard", issued + 1, checked[t], calls[t] \ {Login})
      BY <2>8 DEF GrantLogin
    <3>3. dropped' \subseteq 1..issued' /\ dead' \subseteq 1..issued' /\ stored' \in 0..issued'
      BY <2>0, <2>8, <3>1 DEF GrantLogin, Drop, TypeOK, None
    <3>4. calls[t] \ {Login} \in SUBSET Call /\ "dashboard" \in Pages
      BY <2>0 DEF Pages
    <3>5. QED
      BY <2>0, <2>8, <3>1, <3>2, <3>3, <3>4, EnterTyped DEF TypeOK
  <2>9. ASSUME NEW t \in Tabs, NEW c \in calls[t], RefuseCall(t, c), UNCHANGED acting PROVE TypeOK'
    BY <2>9, UnauthorizedTyped DEF RefuseCall
  <2>10. ASSUME NEW t \in Tabs, RefuseLogin(t), UNCHANGED acting PROVE TypeOK'
    BY <2>10, UnauthorizedTyped DEF RefuseLogin
  <2>11. ASSUME NEW t \in Tabs, NEW c \in calls[t], EndCall(t, c), UNCHANGED acting PROVE TypeOK'
    BY <2>11, OverTyped DEF EndCall, TypeOK
  <2>12. ASSUME NEW k \in Tokens, Die(k), UNCHANGED acting PROVE TypeOK'
    BY <2>12 DEF Die, TypeOK
  <2>13. CASE AdminLeaves \/ UNCHANGED vars
    BY <2>13 DEF AdminLeaves, vars, session, TypeOK
  <2>14. QED
    BY <2>1, <2>2, <2>3, <2>4, <2>5, <2>6, <2>7, <2>8, <2>9, <2>10, <2>11, <2>12, <2>13
       DEF Next, AdminActs, Proceed
<1>3. QED
  BY <1>1, <1>2, PTL DEF Spec

\* The token in use has not been dropped.
StoredAlive == stored \notin dropped

\* What a step may send, given the token it reads.
Fresh == \A t \in Tabs : \A c \in calls'[t] \ calls[t] : c.token \notin dropped

LEMMA EnterFresh ==
  ASSUME TypeOK, NEW t \in Tabs, NEW p, NEW k, NEW seen, NEW waiting,
         k \notin dropped, waiting \subseteq calls[t], Enter(t, p, k, seen, waiting)
  PROVE  Fresh
BY DEF Enter, Mount, Sent, Attached, Get, Fresh, TypeOK

LEMMA MountFresh ==
  ASSUME TypeOK, NEW t \in Tabs, NEW p, NEW k, NEW waiting,
         waiting \subseteq calls[t], Mount(t, p, k, waiting)
  PROVE  Fresh
BY DEF Mount, Fresh, TypeOK

LEMMA OverFresh ==
  ASSUME TypeOK, NEW t \in Tabs, NEW c, Over(t, c)
  PROVE  Fresh
BY DEF Over, Fresh, TypeOK

\* A token that left the storage is never stored nor sent again, whichever tab
\* logged out, was refused, or logged in.
THEOREM DroppedTokensStayDropped == Spec => DroppedStaysDropped
<1>1. Init => StoredAlive
  BY DEF Init, StoredAlive
<1>2. TypeOK /\ StoredAlive /\ [Next]_vars => StoredAlive' /\ Fresh
  <2> SUFFICES ASSUME TypeOK, StoredAlive, [Next]_vars PROVE StoredAlive' /\ Fresh
    OBVIOUS
  <2>0. None \notin dropped /\ issued + 1 \notin dropped /\ stored # issued + 1
    BY AdminSessionAssumption DEF TypeOK, None
  <2>1. UNCHANGED <<stored, dropped>> => StoredAlive'
    BY DEF StoredAlive
  <2>2. stored' = None /\ Drop(stored) => StoredAlive'
    BY <2>0 DEF StoredAlive, Drop
  <2>3. ASSUME NEW t \in Tabs, NEW p \in Pages, OpenUrl(t, p) \/ Navigate(t, p)
        PROVE  StoredAlive' /\ Fresh
    BY <2>1, <2>3, EnterFresh DEF OpenUrl, Navigate, StoredAlive
  <2>4. ASSUME NEW t \in Tabs, OpenLogin(t) \/ Logout(t) PROVE StoredAlive' /\ Fresh
    BY <2>1, <2>2, <2>4, MountFresh DEF OpenLogin, Logout
  <2>5. ASSUME NEW t \in Tabs, SubmitLogin(t) PROVE StoredAlive' /\ Fresh
    BY <2>0, <2>1, <2>5 DEF SubmitLogin, Fresh, Login, TypeOK
  <2>6. ASSUME NEW t \in Tabs, LoginEffect(t) PROVE StoredAlive' /\ Fresh
    <3>1. CASE stored = None
      BY <2>1, <2>6, <3>1, MountFresh DEF LoginEffect
    <3>2. CASE stored # None
      BY <2>1, <2>6, <3>2, EnterFresh DEF LoginEffect, StoredAlive
    <3>3. QED
      BY <3>1, <3>2
  <2>7. ASSUME NEW t \in Tabs, Poll(t) PROVE StoredAlive' /\ Fresh
    BY <2>1, <2>7 DEF Poll, Fresh, Get, Attached, StoredAlive, TypeOK
  <2>8. ASSUME NEW t \in Tabs, GrantLogin(t) PROVE StoredAlive' /\ Fresh
    <3>1. StoredAlive'
      BY <2>0, <2>8 DEF GrantLogin, Drop, StoredAlive
    <3>2. Fresh
      BY <2>0, <2>8, EnterFresh DEF GrantLogin
    <3>3. QED
      BY <3>1, <3>2
  <2>9. ASSUME NEW t \in Tabs, NEW c, Unauthorized(t, c) PROVE StoredAlive' /\ Fresh
    BY <2>1, <2>2, <2>9, OverFresh, MountFresh DEF Unauthorized
  <2>10. ASSUME NEW t \in Tabs, NEW c \in calls[t], RefuseCall(t, c) \/ EndCall(t, c)
         PROVE  StoredAlive' /\ Fresh
    BY <2>1, <2>9, <2>10, OverFresh DEF RefuseCall, EndCall
  <2>11. ASSUME NEW t \in Tabs, RefuseLogin(t) PROVE StoredAlive' /\ Fresh
    BY <2>9, <2>11 DEF RefuseLogin
  <2>12. CASE (\E k \in Tokens : Die(k)) \/ AdminLeaves \/ UNCHANGED vars
    BY <2>1, <2>12 DEF Die, AdminLeaves, vars, session, Fresh
  <2>13. QED
    BY <2>3, <2>4, <2>5, <2>6, <2>7, <2>8, <2>10, <2>11, <2>12 DEF Next, AdminActs, Proceed
<1>3. StoredAlive' /\ Fresh =>
        /\ stored' \notin dropped'
        /\ \A t \in Tabs : \A c \in calls'[t] \ calls[t] : c.token \notin dropped
  BY DEF StoredAlive, Fresh
<1>4. QED
  BY <1>1, <1>2, <1>3, PanelTypeCorrect, PTL DEF Spec, DroppedStaysDropped

-----------------------------------------------------------------------------
(* The pages.                                                               *)

\* A tab that shows a page saw a token when it came there: the stored one, or one
\* that has left the storage since, in this tab or another.
PagesUnderToken ==
  \A t \in Tabs : path[t] \in Pages =>
    checked[t] # None /\ checked[t] \in {stored} \cup dropped

\* While the storage stays as it is, a tab goes to a page only under its token.
LEMMA UnderMount ==
  ASSUME TypeOK, PagesUnderToken, NEW t \in Tabs, NEW route, NEW k, NEW waiting,
         Mount(t, route, k, waiting),
         route \in Pages => k # None /\ k \in {stored'} \cup dropped',
         {stored} \cup dropped \subseteq {stored', None} \cup dropped'
  PROVE  PagesUnderToken'
BY DEF Mount, PagesUnderToken, TypeOK

LEMMA UnderEnter ==
  ASSUME TypeOK, PagesUnderToken, NEW t \in Tabs, NEW p, NEW seen, NEW waiting,
         Enter(t, p, stored', seen, waiting),
         {stored} \cup dropped \subseteq {stored', None} \cup dropped'
  PROVE  PagesUnderToken'
<1>1. "mounting" \notin Pages
  BY AdminSessionAssumption DEF Pages
<1>2. QED
  BY <1>1, UnderMount DEF Enter

\* The guard of the pages, over any number of tabs that share the storage: no
\* page is shown that was entered without a token, and a tab whose token is no
\* longer the stored one holds a token that no tab will send again.
THEOREM PagesGuarded == Spec => []PagesUnderToken
<1>1. Init => PagesUnderToken
  BY AdminSessionAssumption DEF Init, PagesUnderToken, Pages
<1>2. TypeOK /\ PagesUnderToken /\ [Next]_vars => PagesUnderToken'
  <2> SUFFICES ASSUME TypeOK, PagesUnderToken, [Next]_vars PROVE PagesUnderToken'
    OBVIOUS
  <2>0. "mounting" \notin Pages /\ "login" \notin Pages
    BY AdminSessionAssumption DEF Pages
  <2>1. UNCHANGED <<stored, dropped, path, checked>> => PagesUnderToken'
    BY DEF PagesUnderToken
  <2>2. stored' = None /\ Drop(stored) => {stored} \cup dropped \subseteq {stored', None} \cup dropped'
    BY DEF Drop
  <2>3. ASSUME NEW t \in Tabs, NEW p \in Pages, OpenUrl(t, p) \/ Navigate(t, p)
        PROVE  PagesUnderToken'
    BY <2>3, UnderEnter DEF OpenUrl, Navigate
  <2>4. ASSUME NEW t \in Tabs, OpenLogin(t) \/ Logout(t) PROVE PagesUnderToken'
    BY <2>0, <2>2, <2>4, UnderMount DEF OpenLogin, Logout
  <2>5. ASSUME NEW t \in Tabs, LoginEffect(t) PROVE PagesUnderToken'
    BY <2>0, <2>5, UnderMount, UnderEnter DEF LoginEffect
  <2>6. ASSUME NEW t \in Tabs, GrantLogin(t) PROVE PagesUnderToken'
    <3>1. Enter(t, "dashboard", stored', checked[t], calls[t] \ {Login})
      BY <2>6 DEF GrantLogin
    <3>2. {stored} \cup dropped \subseteq {stored', None} \cup dropped'
      BY <2>6 DEF GrantLogin, Drop
    <3>3. QED
      BY <3>1, <3>2, UnderEnter
  <2>7. ASSUME NEW t \in Tabs, NEW c, Unauthorized(t, c) PROVE PagesUnderToken'
    BY <2>0, <2>1, <2>2, <2>7, UnderMount DEF Unauthorized, Over
  <2>8. ASSUME NEW t \in Tabs, NEW c \in calls[t], RefuseCall(t, c) \/ EndCall(t, c)
        PROVE  PagesUnderToken'
    BY <2>1, <2>7, <2>8 DEF RefuseCall, EndCall, Over
  <2>9. ASSUME NEW t \in Tabs, RefuseLogin(t) \/ SubmitLogin(t) \/ Poll(t) PROVE PagesUnderToken'
    BY <2>1, <2>7, <2>9 DEF RefuseLogin, SubmitLogin, Poll
  <2>10. CASE (\E k \in Tokens : Die(k)) \/ AdminLeaves \/ UNCHANGED vars
    BY <2>1, <2>10 DEF Die, AdminLeaves, vars, session
  <2>11. QED
    BY <2>3, <2>4, <2>5, <2>6, <2>8, <2>9, <2>10 DEF Next, AdminActs, Proceed
<1>3. QED
  BY <1>1, <1>2, PanelTypeCorrect, PTL DEF Spec

=============================================================================
