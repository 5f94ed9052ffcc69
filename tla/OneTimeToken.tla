---------------------------- MODULE OneTimeToken ----------------------------
(***************************************************************************)
(* What the replay guard of the gateway really promises about a refresh    *)
(* token (security/jti_store.py): as long as the record of its use stands, *)
(* the token buys one exchange, and further ones only within Grace seconds *)
(* of the first plus the delay of a Redis command, more than Grace seconds *)
(* apart.  Once the record is gone nothing is promised.  Redis, its keys,  *)
(* the requests and their interleaving are absent: JTIStore implements     *)
(* this, and AuthSession is built on it.                                   *)
(***************************************************************************)
EXTENDS Integers, FiniteSets

CONSTANTS
  Jtis,    \* identifiers of the refresh tokens
  Grace,   \* jti_replay_grace_period_seconds
  Delay    \* longest time from a request's clock sample to its last command

VARIABLES
  time,      \* seconds
  first,     \* first[j]: when token j was exchanged as a token never used
  retries,   \* retries[j]: when a retry of it was granted
  forgotten  \* the tokens whose record of use may be gone

tokenVars == <<time, first, retries, forgotten>>

Init ==
  /\ time = 0
  /\ first = [j \in Jtis |-> {}]
  /\ retries = [j \in Jtis |-> {}]
  /\ forgotten \in SUBSET Jtis

\* Time may pass at any moment; records end with it.
Pass(gone) ==
  /\ time' = time + 1
  /\ forgotten' = forgotten \cup gone
  /\ UNCHANGED <<first, retries>>

\* Records may be lost at any moment.
Forget(gone) ==
  /\ forgotten' = forgotten \cup gone
  /\ UNCHANGED <<time, first, retries>>

\* The one exchange every token is good for.
FirstUse(j) ==
  /\ first[j] = {} \/ j \in forgotten
  /\ first' = [first EXCEPT ![j] = @ \cup {time}]
  /\ UNCHANGED <<time, retries, forgotten>>

\* A retry granted at a given second: the window counts from the first use, and
\* the grant before it must be out of the way.
Grantable(j, second) ==
  /\ \E f \in first[j] : f <= second /\ second <= f + Grace + Delay
  /\ \A g \in retries[j] : second - g > Grace \/ g - second > Grace

\* The retry of a client that lost the answer; it may have been granted a
\* little before its request is let through.
Retry(j) ==
  \E second \in (time - Delay)..time :
    /\ second >= 0
    /\ Grantable(j, second) \/ j \in forgotten
    /\ retries' = [retries EXCEPT ![j] = @ \cup {second}]
    /\ UNCHANGED <<time, first, forgotten>>

Next ==
  \/ \E gone \in SUBSET Jtis : Pass(gone) \/ Forget(gone)
  \/ \E j \in Jtis : FirstUse(j) \/ Retry(j)

Spec == Init /\ [][Next]_tokenVars

-----------------------------------------------------------------------------

\* How often the window has room for a retry.
MostRetries == 1 + (Grace + Delay) \div (Grace + 1)

=============================================================================
