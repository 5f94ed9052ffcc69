------------------------------ MODULE JTIStore ------------------------------
(***************************************************************************)
(* The replay guard for refresh tokens: security/jti_store.py, called from *)
(* security/jwt_validator.py, on Redis as docker-compose.yml deploys it.   *)
(*                                                                         *)
(* A request samples its clock once, before its first Redis command, and   *)
(* then runs up to three commands: SET key now EX ttl NX GET, INCR of the  *)
(* grace counter and EXPIRE of that counter.  Each command is atomic;      *)
(* between two of them any other request runs, time passes, Redis loses a  *)
(* key (it keeps nothing on disk and evicts under memory pressure) or the  *)
(* request dies.                                                           *)
(***************************************************************************)
EXTENDS Integers, FiniteSets

CONSTANTS
  Jtis,        \* identifiers of the refresh tokens
  Requests,    \* calls of is_replay, in every worker process
  Jti,         \* Jti[r]: the token request r presents
  Exp,         \* Exp[j]: the token's exp claim
  Buffer,      \* jti_expiry_buffer_seconds
  Skew,        \* jwt_clock_skew_seconds, the decoder's leeway
  Grace,       \* jti_replay_grace_period_seconds
  MaxDelay,    \* longest time from a request's clock sample to its last command
  KeyLoss,     \* may Redis lose keys before they expire?
  MaxTime      \* bound on the clock

ASSUME JTIAssumption ==
  /\ Jti \in [Requests -> Jtis]
  /\ Exp \in [Jtis -> Nat]
  /\ Buffer \in Nat /\ Skew \in Nat /\ Grace \in Nat
  /\ MaxDelay \in Nat /\ MaxTime \in Nat
  /\ KeyLoss \in BOOLEAN

VARIABLES
  clock,   \* seconds: time.time() of the workers and Redis' own clock
  main,    \* main[j]: the key isag:jti:<j>, its value and when it expires
  grace,   \* grace[j]: when the counter isag:jti:grace:<j> expires
  pc,      \* pc[r]: the command request r sends next, or its verdict
  now,     \* now[r]: the clock sample of request r
  at,      \* at[r]: history, when Redis decided request r
  lost     \* lost[j]: history, has Redis lost a key of token j?

vars == <<clock, main, grace, pc, now, at, lost>>

\* Expiry of a key that exists but was given no TTL; 0 is the expiry of no key.
NoTTL == -1
Absent == [val |-> 0, exp |-> 0]

\* How a call of is_replay ends; "leak" is a call that died between INCR and
\* EXPIRE, "error" one that died before another command.
Admitted == {"first", "grace"}
Verdicts == Admitted \cup {"replay", "error", "leak"}
Waiting  == {"set", "incr", "expire"}

Live(expiry) == expiry = NoTTL \/ clock < expiry

TypeOK ==
  /\ clock \in Nat
  /\ main \in [Jtis -> [val : Nat, exp : Nat]]
  /\ grace \in [Jtis -> Nat \cup {NoTTL}]
  /\ pc \in [Requests -> {"new"} \cup Waiting \cup Verdicts]
  /\ now \in [Requests -> Nat]
  /\ at \in [Requests -> Nat]
  /\ lost \in [Jtis -> BOOLEAN]

Init ==
  /\ clock = 0
  /\ main = [j \in Jtis |-> Absent]
  /\ grace = [j \in Jtis |-> 0]
  /\ pc = [r \in Requests |-> "new"]
  /\ now = [r \in Requests |-> 0]
  /\ at = [r \in Requests |-> 0]
  /\ lost = [j \in Jtis |-> FALSE]

-----------------------------------------------------------------------------

\* The decoder accepts the token until exp + leeway; is_replay then samples
\* the clock.  No await lies between the two.
Validate(r) ==
  /\ pc[r] = "new"
  /\ clock < Exp[Jti[r]] + Skew
  /\ pc' = [pc EXCEPT ![r] = "set"]
  /\ now' = [now EXCEPT ![r] = clock]
  /\ UNCHANGED <<clock, main, grace, at, lost>>

\* Plausible slips in the TTL: the buffer forgotten, no TTL at all.
KeyExpiryNoBuffer(r) ==
  LET left == Exp[Jti[r]] - now[r] IN clock + (IF left > 1 THEN left ELSE 1)
KeyExpiryNone(r) == NoTTL
\* The token's end handed to EX, which counts from now.
KeyExpiryAbsolute(r) == clock + Exp[Jti[r]] + Buffer

\* SET ... EX ttl: ttl comes from the sampled clock, expiry from Redis' own.
KeyExpiry(r) ==
  LET left == Exp[Jti[r]] - now[r] + Buffer
  IN  clock + (IF left > 1 THEN left ELSE 1)

\* SET NX GET finds no key: the key is created and the request is allowed.
FirstUse(r) ==
  /\ pc[r] = "set"
  /\ ~Live(main[Jti[r]].exp)
  /\ main' = [main EXCEPT ![Jti[r]] = [val |-> now[r], exp |-> KeyExpiry(r)]]
  /\ pc' = [pc EXCEPT ![r] = "first"]
  /\ at' = [at EXCEPT ![r] = clock]
  /\ UNCHANGED <<clock, grace, now, lost>>

\* The window left to the counter alone.
TooLateNever(r) == FALSE

\* Both ends of the window are clock samples, not the seconds Redis ran in.
TooLate(r) == now[r] - main[Jti[r]].val > Grace

\* SET NX GET returns the first use's sample: beyond the grace period the
\* request is a replay, within it the grace counter decides.
ReadFirstUse(r) ==
  /\ pc[r] = "set"
  /\ Live(main[Jti[r]].exp)
  /\ pc' = [pc EXCEPT ![r] = IF TooLate(r) THEN "replay" ELSE "incr"]
  /\ UNCHANGED <<clock, main, grace, now, at, lost>>

\* A counter that admits every use within the grace period.
GraceFreeAlways(j) == TRUE

\* INCR returns 1 exactly when the counter does not exist.  Its value beyond 1
\* is never looked at again, so the model keeps only whether it exists.
GraceFree(j) == ~Live(grace[j])

IncrFirst(r) ==
  /\ pc[r] = "incr"
  /\ GraceFree(Jti[r])
  /\ grace' = [grace EXCEPT ![Jti[r]] = NoTTL]
  /\ pc' = [pc EXCEPT ![r] = "expire"]
  /\ at' = [at EXCEPT ![r] = clock]
  /\ UNCHANGED <<clock, main, now, lost>>

IncrAgain(r) ==
  /\ pc[r] = "incr"
  /\ ~GraceFree(Jti[r])
  /\ pc' = [pc EXCEPT ![r] = "replay"]
  /\ UNCHANGED <<clock, main, grace, now, at, lost>>

\* A TTL that ends with the window instead of after it.
GraceExpiryShort == clock + Grace
GraceExpiry == clock + Grace + 1

\* A counter that is given no TTL.
ExpireNever(r) ==
  /\ pc[r] = "expire"
  /\ pc' = [pc EXCEPT ![r] = "grace"]
  /\ UNCHANGED <<clock, main, grace, now, at, lost>>

\* EXPIRE (a no-op on a missing key), after which the request is allowed.
Expire(r) ==
  /\ pc[r] = "expire"
  /\ grace' = IF Live(grace[Jti[r]])
                THEN [grace EXCEPT ![Jti[r]] = GraceExpiry] ELSE grace
  /\ pc' = [pc EXCEPT ![r] = "grace"]
  /\ UNCHANGED <<clock, main, now, at, lost>>

\* The command a request waits for never runs: Redis refuses the connection,
\* the worker dies or the request is cancelled.  Nothing is rolled back, not
\* even a counter that was created and not yet given its TTL.
Abort(r) ==
  /\ pc[r] \in Waiting
  /\ pc' = [pc EXCEPT ![r] = IF pc[r] = "expire" THEN "leak" ELSE "error"]
  /\ UNCHANGED <<clock, main, grace, now, at, lost>>

\* allkeys-lru eviction; a restart without persistence loses both keys.
LoseMain(j) ==
  /\ KeyLoss
  /\ Live(main[j].exp)
  /\ main' = [main EXCEPT ![j] = Absent]
  /\ lost' = [lost EXCEPT ![j] = TRUE]
  /\ UNCHANGED <<clock, grace, pc, now, at>>

LoseGrace(j) ==
  /\ KeyLoss
  /\ Live(grace[j])
  /\ grace' = [grace EXCEPT ![j] = 0]
  /\ lost' = [lost EXCEPT ![j] = TRUE]
  /\ UNCHANGED <<clock, main, pc, now, at>>

\* Time passes, but no request waits longer than MaxDelay.
Tick ==
  /\ clock < MaxTime
  /\ \A r \in Requests : pc[r] \in Waiting => clock < now[r] + MaxDelay
  /\ clock' = clock + 1
  /\ UNCHANGED <<main, grace, pc, now, at, lost>>

Command(r) ==
  \/ FirstUse(r)
  \/ ReadFirstUse(r)
  \/ IncrFirst(r)
  \/ IncrAgain(r)
  \/ Expire(r)

Next ==
  \/ Tick
  \/ \E r \in Requests : Validate(r) \/ Command(r) \/ Abort(r)
  \/ \E j \in Jtis : LoseMain(j) \/ LoseGrace(j)

Spec == Init /\ [][Next]_vars

-----------------------------------------------------------------------------

\* The record of a token's use is gone, or may be: Redis lost a key of it, or
\* the token is past its end and the buffer.
Forgotten(j) == lost[j] \/ clock >= Exp[j] + Buffer

\* The requests with token j that were let through.
Users(j) == {r \in Requests : Jti[r] = j /\ pc[r] \in Admitted}

\* When they were, as originals (v = "first") or as retries (v = "grace").
Seconds(j, v) == {at[r] : r \in {q \in Users(j) : pc[q] = v}}

\* The store implements OneTimeToken.
Promise == INSTANCE OneTimeToken WITH
             Delay <- MaxDelay,
             time <- clock,
             first <- [j \in Jtis |-> Seconds(j, "first")],
             retries <- [j \in Jtis |-> Seconds(j, "grace")],
             forgotten <- {j \in Jtis : Forgotten(j)}

\* Until exp + buffer a token has one original use, however requests interleave
\* and however late their commands run (jti_store.py, SET NX with the token's
\* lifetime as TTL): two first uses need a lost key or an expired token.
OneFirstUse ==
  \A r, s \in Requests :
    (r # s /\ Jti[r] = Jti[s] /\ pc[r] = "first" /\ pc[s] = "first")
      => Forgotten(Jti[r])

\* Two grace uses of a token never fall within one grace period, even when the
\* counter's INCR and EXPIRE are interleaved with other requests or separated
\* by a crash (jti_store.py, phase 3).
GraceSpacing ==
  \A r, s \in Requests :
    (r # s /\ Jti[r] = Jti[s] /\ pc[r] = "grace" /\ pc[s] = "grace")
      => lost[Jti[r]] \/ at[r] - at[s] > Grace \/ at[s] - at[r] > Grace

\* A retry is let through at most Grace seconds after the first use, plus the
\* delay of its own commands: a window measured between two samples that may
\* both be stale (jti_store.py:73 and :96) is never longer than that.
RetryWithin ==
  \A r, s \in Requests :
    (Jti[r] = Jti[s] /\ pc[r] = "first" /\ pc[s] = "grace")
      => \/ Forgotten(Jti[r])
         \/ at[r] <= at[s] /\ at[s] - at[r] <= Grace + MaxDelay

\* How often one token lets a request through while its record stands: once,
\* and as often as slots Grace + 1 seconds apart fit the window and the delay of
\* a command.  That is twice if no command crosses a second, and three times for
\* any delay from one second to Grace + 1 (jti_store.py:105, the counter's TTL is
\* no longer than the window the samples are compared against).
BoundedUses ==
  \A j \in Jtis : Forgotten(j) \/ Cardinality(Users(j)) <= 1 + Promise!MostRetries

\* "At most 2 successful uses of a single JTI (original + 1 grace), even under
\* parallel request races" (jti_store.py:13-14): the docstring's invariant.  A
\* command that runs a second after its clock sample breaks it.
AtMostTwoUses == \A j \in Jtis : Cardinality(Users(j)) <= 2

\* A used token leaves Redis soon after its end: its key is due no later than
\* the buffer, or the leeway if that is longer, and the delay of the SET allow
\* (jti_store.py:74, EX counts from the command, not from the clock sample).
KeysDue ==
  \A j \in Jtis :
    main[j].exp <= Exp[j] + (IF Buffer > Skew THEN Buffer ELSE Skew) + MaxDelay

\* So does its grace counter, in time for Redis not to fill up with them
\* (jti_store.py:70-71 and :105-108): it is due Grace + 1 seconds after the
\* EXPIRE, unless a request is about to send that command or died before it.
\* The counter of such a request has no TTL and stays.
CountersDue ==
  \A j \in Jtis :
    \/ grace[j] # NoTTL /\ grace[j] <= Exp[j] + Skew + MaxDelay + Grace
    \/ \E r \in Requests : Jti[r] = j /\ pc[r] \in {"expire", "leak"}

\* The store keeps the promise for any delay and any loss of keys: each use it
\* lets through is one OneTimeToken allows in that state (jti_store.py:73-126).
KeepsPromise == Promise!Spec

=============================================================================
