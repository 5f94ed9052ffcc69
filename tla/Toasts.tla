------------------------------- MODULE Toasts -------------------------------
(***************************************************************************)
(* The toasts of the panel (components/Toast/ToastContext.tsx).            *)
(*                                                                         *)
(* A toast's id is the time it was shown at, so two toasts of one          *)
(* millisecond share it; the timer of either removes every toast that has  *)
(* its id from the list.  The id is also the key by which React matches    *)
(* the elements on the screen with the list, and React expects keys to be  *)
(* unique.  Timers may fire late, and so may React render: several changes *)
(* of the list may be rendered at once.  Times are taken modulo Cycle,     *)
(* which no toast with a timer or an element lives to see.                 *)
(***************************************************************************)
EXTENDS Integers

CONSTANTS
  Life,      \* 3000 ms
  MaxLate,   \* bound on how late a timer fires and React renders
  MaxToasts  \* bound on the toasts shown

ASSUME ToastsAssumption ==
  Life \in Nat \ {0} /\ MaxLate \in Nat /\ MaxToasts \in Nat

VARIABLES
  now,      \* Date.now()
  shown,    \* toasts are numbered in the order they are shown
  toasts,   \* the list: by number
  timers,   \* the timers that are set, each for the toast it closes over
  screen,   \* the elements React has mounted for the list
  stuck     \* the toasts whose element React has lost track of

toastVars == <<now, shown, toasts, timers, screen, stuck>>

Cycle == Life + MaxLate + 1
Times == 0..Life + MaxLate

\* born is history: the time when the toast was shown.
Toast == [no : 1..MaxToasts, id : Times, born : Times]

ToastsTypeOK ==
  /\ now \in Times
  /\ shown \in 0..MaxToasts
  /\ toasts \subseteq Toast
  /\ timers \subseteq Toast
  /\ screen \subseteq Toast
  /\ stuck \subseteq 1..shown

ToastsInit ==
  /\ now = 0
  /\ shown = 0
  /\ toasts = {} /\ timers = {} /\ screen = {} /\ stuck = {}

Age(t) == (now - t.born) % Cycle

\* An id counted from the list, which a memoised callback sees as it was first.
NewIdCounted == 0

NewId == now

\* One timer for all toasts, set anew by each.
ScheduledAlone(t) == {t}

Scheduled(t) == timers \cup {t}

ShowToast ==
  LET t == [no |-> shown + 1, id |-> NewId, born |-> now]
  IN  /\ shown < MaxToasts
      /\ shown' = shown + 1
      /\ toasts' = toasts \cup {t}
      /\ timers' = Scheduled(t)
      /\ UNCHANGED <<now, screen, stuck>>

\* The list after the timer of t.
Remaining(t) == {u \in toasts : u.id # t.id}

FireTimer(n) ==
  \E t \in timers :
    /\ t.no = n
    /\ Age(t) >= Life
    /\ toasts' = Remaining(t)
    /\ timers' = timers \ {t}
    /\ UNCHANGED <<now, shown, screen, stuck>>

\* React matches elements and list from the front, up to the first element
\* whose toast is gone, ...
InPlace == {t \in screen : \A u \in screen : u.no <= t.no => u \in toasts}

\* ... removes the other elements if the list ends there, and otherwise puts
\* them into a map by key, where a later one replaces an earlier: the earlier
\* one is neither used again nor removed.
Orphaned ==
  {t \in screen \ InPlace : /\ toasts \ InPlace # {}
                            /\ \E u \in screen : u.no > t.no /\ u.id = t.id}

Render ==
  /\ screen # toasts
  /\ screen' = toasts
  /\ stuck' = stuck \cup {t.no : t \in Orphaned}
  /\ UNCHANGED <<now, shown, toasts, timers>>

\* Time passes; no timer and no removal from the screen is later than MaxLate.
Tick ==
  /\ \A t \in timers \cup screen : Age(t) < Life + MaxLate
  /\ now' = (now + 1) % Cycle
  /\ UNCHANGED <<shown, toasts, timers, screen, stuck>>

=============================================================================
