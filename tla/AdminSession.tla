---------------------------- MODULE AdminSession ----------------------------
(***************************************************************************)
(* The session of the admin panel (services/apiClient.ts, pages/Login.tsx, *)
(* components/Layout, App.tsx).                                            *)
(*                                                                         *)
(* The tabs of a browser share one access token in localStorage.  Every    *)
(* request carries the token that is stored when it is sent; a 401 clears  *)
(* the storage and reloads the tab at /login, whichever token it was about.*)
(* A tab's route decides what it reads: the dashboard polls, other pages   *)
(* read when they are mounted or not at all.                               *)
(***************************************************************************)
EXTENDS Integers

CONSTANTS
  Tabs,        \* tabs of one browser
  Reading,     \* routes that read once, when mounted (clients, logs)
  Still,       \* routes that read nothing (integrations, rules, alerting)
  MaxTokens    \* bound on the logins that succeed

ASSUME AdminSessionAssumption ==
  /\ MaxTokens \in Nat
  /\ "dashboard" \notin Reading \cup Still
  /\ {"login", "mounting"} \cap (Reading \cup Still) = {}

VARIABLES
  stored,    \* admin_access_token in localStorage; 0 when there is none
  issued,    \* the tokens issued so far are 1..issued
  dead,      \* tokens the gateway rejects: expired or signed by a retired key
  dropped,   \* history: tokens logged out, cleared or overwritten
  path,      \* path[t]: the route a tab shows
  checked,   \* checked[t]: the token ProtectedRoute last asked /auth/me about
  loading,   \* loading[t]: the login button is disabled
  calls,     \* calls[t]: the requests a tab waits for
  acting     \* the admin has not left the tabs to themselves

session == <<stored, issued, dead, dropped, path, checked, loading, calls>>
vars == <<session, acting>>

None == 0
Tokens == 1..MaxTokens
Pages == {"dashboard"} \cup Reading \cup Still

\* /login before and after the effect that looks for a stored token.
AtLogin == {"mounting", "login"}

Get(k) == [kind |-> "get", token |-> k]
Login == [kind |-> "login", token |-> None]
Call == {Login} \cup {Get(k) : k \in {None} \cup Tokens}

TypeOK ==
  /\ issued \in 0..MaxTokens
  /\ stored \in 0..issued
  /\ dead \subseteq 1..issued
  /\ dropped \subseteq 1..issued
  /\ path \in [Tabs -> Pages \cup AtLogin]
  /\ checked \in [Tabs -> 0..issued]
  /\ loading \in [Tabs -> BOOLEAN]
  /\ calls \in [Tabs -> SUBSET Call]
  /\ acting \in BOOLEAN
  /\ \A t \in Tabs : loading[t] => path[t] = "login" /\ Login \in calls[t]

Init ==
  /\ stored = None
  /\ issued = 0
  /\ dead = {}
  /\ dropped = {}
  /\ path = [t \in Tabs |-> "login"]
  /\ checked = [t \in Tabs |-> None]
  /\ loading = [t \in Tabs |-> FALSE]
  /\ calls = [t \in Tabs |-> {}]
  /\ acting = TRUE

-----------------------------------------------------------------------------

\* The token a request carries: one remembered by the tab ...
AttachedCached(t, k) == IF checked[t] = None THEN k ELSE checked[t]

\* ... or, as the interceptor reads it, the stored one.
Attached(t, k) == k

\* What a tab sends when it shows page p: /auth/me when the token is not the
\* one ProtectedRoute saw before, and what the page itself reads.
Sent(t, p, k, seen) ==
  IF k # seen \/ p \notin Still THEN {Get(Attached(t, k))} ELSE {}

Mount(t, route, k, waiting) ==
  /\ path' = [path EXCEPT ![t] = route]
  /\ checked' = [checked EXCEPT ![t] = k]
  /\ loading' = [loading EXCEPT ![t] = FALSE]
  /\ calls' = [calls EXCEPT ![t] = waiting]

\* ProtectedRoute: tab t goes to page p while token k is stored, or to /login
\* when there is none.
Enter(t, p, k, seen, waiting) ==
  IF k = None THEN Mount(t, "mounting", None, waiting)
              ELSE Mount(t, p, k, waiting \cup Sent(t, p, k, seen))

\* Tokens that left the storage.
Drop(k) == dropped' = dropped \cup ({k} \ {None})

-----------------------------------------------------------------------------
(* What the admin does.                                                     *)

\* A URL is opened or reloaded: the tab forgets what it was waiting for.
OpenUrl(t, p) ==
  /\ Enter(t, p, stored, None, {})
  /\ UNCHANGED <<stored, issued, dead, dropped>>

OpenLogin(t) ==
  /\ Mount(t, "mounting", None, {})
  /\ UNCHANGED <<stored, issued, dead, dropped>>

\* A link of the sidebar, or the browser's back button: answers still come.
Navigate(t, p) ==
  /\ p # path[t]
  /\ Enter(t, p, stored, checked[t], calls[t])
  /\ UNCHANGED <<stored, issued, dead, dropped>>

Logout(t) ==
  /\ path[t] \in Pages
  /\ stored' = None
  /\ Drop(stored)
  /\ Mount(t, "mounting", None, calls[t])
  /\ UNCHANGED <<issued, dead>>

\* The form's button, which is disabled while its login is awaited.  A login
\* left behind by an earlier visit to the form is waited for first.
SubmitLogin(t) ==
  /\ path[t] = "login"
  /\ ~loading[t] /\ Login \notin calls[t]
  /\ issued < MaxTokens
  /\ loading' = [loading EXCEPT ![t] = TRUE]
  /\ calls' = [calls EXCEPT ![t] = @ \cup {Login}]
  /\ UNCHANGED <<stored, issued, dead, dropped, path, checked>>

-----------------------------------------------------------------------------
(* What the tab and the gateway do.                                         *)

\* The effect of /login: with a token stored it goes to the dashboard.
LoginEffect(t) ==
  /\ path[t] = "mounting"
  /\ IF stored = None THEN Mount(t, "login", None, calls[t])
                      ELSE Enter(t, "dashboard", stored, None, calls[t])
  /\ UNCHANGED <<stored, issued, dead, dropped>>

\* The interval of the dashboard.
Poll(t) ==
  /\ path[t] = "dashboard"
  /\ calls' = [calls EXCEPT ![t] = @ \cup {Get(Attached(t, stored))}]
  /\ UNCHANGED <<stored, issued, dead, dropped, path, checked, loading>>

\* A login is granted: the tab stores its token and goes to the dashboard.
GrantLogin(t) ==
  /\ Login \in calls[t]
  /\ issued < MaxTokens
  /\ issued' = issued + 1
  /\ stored' = issued + 1
  /\ Drop(stored)
  /\ Enter(t, "dashboard", issued + 1, checked[t], calls[t] \ {Login})
  /\ UNCHANGED dead

\* A handler without the finally clause.
OverLoading(t, c) ==
  /\ calls' = [calls EXCEPT ![t] = @ \ {c}]
  /\ UNCHANGED <<path, checked, loading>>

\* The wait for a call is over; so is that of the button, if it was a login.
Over(t, c) ==
  /\ calls' = [calls EXCEPT ![t] = @ \ {c}]
  /\ loading' = [loading EXCEPT ![t] = @ /\ c # Login]
  /\ UNCHANGED <<path, checked>>

\* The interceptor's reaction to a 401, forgetting the storage ...
UnauthorizedKeeps(t, c) ==
  IF path[t] \in AtLogin
  THEN Over(t, c) /\ UNCHANGED <<stored, dropped>>
  ELSE Mount(t, "mounting", None, {}) /\ UNCHANGED <<stored, dropped>>

\* ... or the reload ...
UnauthorizedStays(t, c) ==
  /\ Over(t, c)
  /\ IF path[t] \in AtLogin THEN UNCHANGED <<stored, dropped>> ELSE stored' = None /\ Drop(stored)

\* ... and as it is: nothing at /login; elsewhere the storage is cleared and
\* the tab reloaded, which ends its other requests.
Unauthorized(t, c) ==
  IF path[t] \in AtLogin
  THEN Over(t, c) /\ UNCHANGED <<stored, dropped>>
  ELSE stored' = None /\ Drop(stored) /\ Mount(t, "mounting", None, {})

\* A bearer call with a dead token, or none, is refused.
RefuseCall(t, c) ==
  /\ c \in calls[t]
  /\ c.kind = "get" /\ c.token \in dead \cup {None}
  /\ Unauthorized(t, c)
  /\ UNCHANGED <<issued, dead>>

\* So is a login with a wrong secret.
RefuseLogin(t) ==
  /\ Login \in calls[t]
  /\ Unauthorized(t, Login)
  /\ UNCHANGED <<issued, dead>>

\* Any other end of a request: an answer, an error of the gateway or of the
\* network.  It only ends the wait.
EndCall(t, c) ==
  /\ c \in calls[t]
  /\ Over(t, c)
  /\ UNCHANGED <<stored, issued, dead, dropped>>

\* A token expires, or its key is retired.
Die(k) ==
  /\ k \in 1..issued
  /\ dead' = dead \cup {k}
  /\ UNCHANGED <<stored, issued, dropped, path, checked, loading, calls>>

AdminActs ==
  \E t \in Tabs :
    \/ \E p \in Pages : OpenUrl(t, p) \/ Navigate(t, p)
    \/ OpenLogin(t) \/ Logout(t) \/ SubmitLogin(t)

AdminLeaves == acting /\ acting' = FALSE /\ UNCHANGED session

Proceed ==
  \/ \E t \in Tabs :
       \/ LoginEffect(t) \/ Poll(t) \/ GrantLogin(t) \/ RefuseLogin(t)
       \/ \E c \in calls[t] : RefuseCall(t, c) \/ EndCall(t, c)
  \/ \E k \in Tokens : Die(k)

Next ==
  \/ acting /\ AdminActs /\ UNCHANGED acting
  \/ AdminLeaves
  \/ Proceed /\ UNCHANGED acting

Spec == Init /\ [][Next]_vars

\* Effects run, the interval fires, and a call that carries a dead token is
\* judged by the gateway sooner or later, however often the network fails.
Fairness ==
  \A t \in Tabs :
    /\ WF_session(LoginEffect(t))
    /\ WF_session(Poll(t))
    /\ \A k \in {None} \cup Tokens : SF_session(RefuseCall(t, Get(k)))

FairSpec == Spec /\ Fairness

-----------------------------------------------------------------------------

\* A token that left the storage, by a logout in any tab, a 401 or another
\* login, is never stored nor sent again (apiClient.ts:10-16, Sidebar.tsx:24-28).
DroppedStaysDropped ==
  [][ /\ stored' \notin dropped'
      /\ \A t \in Tabs : \A c \in calls'[t] \ calls[t] : c.token \notin dropped ]_vars

Unusable == stored \in dead \cup {None}

\* A dashboard whose session is over does not go on showing itself: it ends at
\* /login, unless a tab logs in meanwhile (apiClient.ts:18-29).
DeadSessionEnds ==
  \A t \in Tabs : (path[t] = "dashboard" /\ Unusable) ~> (path[t] # "dashboard" \/ ~Unusable)

\* The guard of the pages sends to /login, /login with a token stored sends to
\* the dashboard, and a 401 reloads: left alone, the tabs come to rest
\* (MainLayout.tsx:10-28, Login.tsx:15-20, apiClient.ts:22-26).
RedirectsSettle == <>~acting => <>[][path' = path]_path

=============================================================================
