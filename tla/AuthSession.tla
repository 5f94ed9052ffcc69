---------------------------- MODULE AuthSession -----------------------------
(***************************************************************************)
(* Sessions of API clients: POST /auth/token, POST /auth/refresh, bearer   *)
(* calls and the two admin calls that bear on sessions (api/auth.py,       *)
(* security/jwt_validator.py, api/admin.py).                               *)
(*                                                                         *)
(* Every successful login or refresh mints a pair of an access and a       *)
(* refresh token; pair p stands for both.  The handlers await Redis (the   *)
(* replay guard, by the promise JTIStore keeps for any delay of a command  *)
(* and any loss of keys) and then the database, and mint from what they    *)
(* read; between two awaits clients are revoked, secrets rotated, records  *)
(* of use lost, and time passes.  A rejected call changes nothing and is   *)
(* not a step, except a refresh that burns its token first.                *)
(***************************************************************************)
EXTENDS Integers, FiniteSets, Sequences

CONSTANTS
  Clients,      \* rows of gateway_clients
  Admins,       \* the clients whose roles include admin
  Ops,          \* calls of /auth/token and /auth/refresh in flight
  MaxPairs,     \* bound on the token pairs minted
  MaxCalls,     \* bound on the logins and refreshes begun
  MaxSecrets,   \* bound on the secrets a client is given
  MaxChanges,   \* bound on the admins' changes of rows
  AccessLife,   \* jwt_access_token_expire_minutes
  RefreshLife,  \* jwt_refresh_token_expire_days
  Skew,         \* jwt_clock_skew_seconds
  Grace,        \* jti_replay_grace_period_seconds
  Buffer,       \* jti_expiry_buffer_seconds
  GuardDelay,   \* longest time from a refresh's clock sample to its last command
  KeyLoss,      \* may Redis lose keys before they expire?
  MintDelay,    \* longest time from the database read to the minted pair
  MaxTime       \* bound on the clock

ASSUME SessionAssumption ==
  /\ Admins \subseteq Clients
  /\ {MaxPairs, MaxCalls, AccessLife, RefreshLife, Skew, Grace, Buffer, GuardDelay,
      MintDelay, MaxChanges, MaxTime} \subseteq Nat
  /\ KeyLoss \in BOOLEAN
  /\ MaxSecrets \in Nat \ {0}

VARIABLES
  time,       \* seconds
  active,     \* active[c]: is_active of the client's row
  secret,     \* secret[c]: which of its secrets the row's hash is of
  pair,       \* pair[p]: the p-th pair minted
  op,         \* op[o]: what a call in flight knows
  first,      \* first[t]: when the replay guard took token t for one never used
  retries,    \* retries[t]: when it granted a retry of it
  forgotten,  \* the tokens whose record of use may be gone
  revokedAt,  \* history: when the client's row last became inactive
  retiredAt,  \* history: when each secret stopped being the row's
  servedAt,   \* history: when a bearer call of the client, revoked, was accepted
  calls,      \* bound: the logins and refreshes so far
  changes     \* bound: the admins' changes so far

vars == <<time, active, secret, pair, op, first, retries, forgotten, revokedAt,
          retiredAt, servedAt, calls, changes>>

Pairs == 1..MaxPairs
Secrets == 1..MaxSecrets
Kinds == {"access", "refresh"}
Tokens == Pairs \X Kinds

Guard == INSTANCE OneTimeToken WITH Jtis <- Tokens, Delay <- GuardDelay

Minted == DOMAIN pair
\* parent: the pair whose refresh token was exchanged, 0 for a login.
\* root: the secret of the login the session began with.
PairOf == [sub : Clients, minted : Nat, parent : {0} \cup Pairs, root : Secrets]

Idle == [pc |-> "idle"]
OpState ==
  {Idle}
    \cup [pc : {"read"}, sub : Clients, parent : Pairs, root : Secrets]
    \cup [pc : {"mint"}, sub : Clients, parent : {0} \cup Pairs, root : Secrets, since : Nat]

\* Refresh tokens are what the guard records; it never sees an access token.
TypeOK ==
  /\ time \in 0..MaxTime
  /\ active \in [Clients -> BOOLEAN]
  /\ secret \in [Clients -> Secrets]
  /\ pair \in Seq(PairOf) /\ Minted \subseteq Pairs
  /\ op \in [Ops -> OpState]
  /\ first \in [Tokens -> SUBSET Nat] /\ retries \in [Tokens -> SUBSET Nat]
  /\ \A p \in Pairs : first[<<p, "access">>] = {} /\ retries[<<p, "access">>] = {}
  /\ forgotten \in SUBSET Tokens
  /\ revokedAt \in [Clients -> Nat]
  /\ retiredAt \in [Clients -> [Secrets -> Nat]]
  /\ servedAt \in [Clients -> {-1} \cup Nat]
  /\ calls \in 0..MaxCalls /\ changes \in 0..MaxChanges

Init ==
  /\ forgotten = {}
  /\ Guard!Init
  /\ active = [c \in Clients |-> TRUE]
  /\ secret = [c \in Clients |-> 1]
  /\ pair = <<>>
  /\ op = [o \in Ops |-> Idle]
  /\ revokedAt = [c \in Clients |-> 0]
  /\ retiredAt = [c \in Clients |-> [v \in Secrets |-> 0]]
  /\ servedAt = [c \in Clients |-> -1]
  /\ calls = 0 /\ changes = 0

-----------------------------------------------------------------------------

Expiry(p, kind) ==
  pair[p].minted + (IF kind = "access" THEN AccessLife ELSE RefreshLife)

\* Any token of the pair is taken for any purpose.
AcceptedAnyType(p, kind, expected, second) == second < Expiry(p, kind) + Skew

\* validate: signature, expiry with leeway, then the type the caller expects.
Accepted(p, kind, expected, second) ==
  /\ second < Expiry(p, kind) + Skew
  /\ kind = expected

Begin == calls < MaxCalls /\ calls' = calls + 1

\* A login that looks at the secret alone.
LoginReadInactive(o, c, v) ==
  /\ op[o].pc = "idle"
  /\ Begin
  /\ secret[c] = v
  /\ op' = [op EXCEPT ![o] =
       [pc |-> "mint", sub |-> c, parent |-> 0, root |-> v, since |-> time]]
  /\ UNCHANGED <<time, active, secret, pair, first, retries, forgotten, revokedAt,
                 retiredAt, servedAt, changes>>

\* A login that accepts any secret the client ever had.
LoginReadAnySecret(o, c, v) ==
  /\ op[o].pc = "idle"
  /\ Begin
  /\ active[c]
  /\ v <= secret[c]
  /\ op' = [op EXCEPT ![o] =
       [pc |-> "mint", sub |-> c, parent |-> 0, root |-> v, since |-> time]]
  /\ UNCHANGED <<time, active, secret, pair, first, retries, forgotten, revokedAt,
                 retiredAt, servedAt, changes>>

\* issue_token reads the client's row and checks it and the secret.
LoginRead(o, c, v) ==
  /\ op[o].pc = "idle"
  /\ Begin
  /\ active[c]
  /\ secret[c] = v
  /\ op' = [op EXCEPT ![o] =
       [pc |-> "mint", sub |-> c, parent |-> 0, root |-> v, since |-> time]]
  /\ UNCHANGED <<time, active, secret, pair, first, retries, forgotten, revokedAt,
                 retiredAt, servedAt, changes>>

\* The refresh token is in order at some second before its use is decided.
Presented(p, kind) ==
  \E sample \in pair[p].minted..time :
    time <= sample + GuardDelay /\ Accepted(p, kind, "refresh", sample)

\* A refresh that records the use and ignores what the guard answers.
RefreshValidateHeedless(o, p, kind) ==
  /\ op[o].pc = "idle"
  /\ Begin
  /\ Presented(p, kind)
  /\ first' = [first EXCEPT ![<<p, kind>>] = @ \cup {time}]
  /\ op' = [op EXCEPT ![o] =
       [pc |-> "read", sub |-> pair[p].sub, parent |-> p, root |-> pair[p].root]]
  /\ UNCHANGED <<time, active, secret, pair, retries, forgotten, revokedAt, retiredAt,
                 servedAt, changes>>

\* refresh_token validates first: the replay guard counts the use.
RefreshValidate(o, p, kind) ==
  /\ op[o].pc = "idle"
  /\ Begin
  /\ Presented(p, kind)
  /\ Guard!FirstUse(<<p, kind>>) \/ Guard!Retry(<<p, kind>>)
  /\ op' = [op EXCEPT ![o] =
       [pc |-> "read", sub |-> pair[p].sub, parent |-> p, root |-> pair[p].root]]
  /\ UNCHANGED <<active, secret, pair, revokedAt, retiredAt, servedAt, changes>>

\* A refresh that trusts the token and skips the row's status.
RefreshReadAny(o) ==
  /\ op[o].pc = "read"
  /\ op' = [op EXCEPT ![o] =
       [pc |-> "mint", sub |-> op[o].sub, parent |-> op[o].parent,
        root |-> op[o].root, since |-> time]]
  /\ UNCHANGED <<time, active, secret, pair, first, retries, forgotten, revokedAt,
                 retiredAt, servedAt, calls, changes>>

\* Then it reads the row.  For an inactive client the call ends in 401, and
\* the use the guard counted is not given back.
RefreshRead(o) ==
  /\ op[o].pc = "read"
  /\ op' = [op EXCEPT ![o] =
       IF active[op[o].sub]
         THEN [pc |-> "mint", sub |-> op[o].sub, parent |-> op[o].parent,
               root |-> op[o].root, since |-> time]
         ELSE Idle]
  /\ UNCHANGED <<time, active, secret, pair, first, retries, forgotten, revokedAt,
                 retiredAt, servedAt, calls, changes>>

\* Both handlers end by signing a pair for the client they read.
Mint(o) ==
  /\ op[o].pc = "mint"
  /\ Len(pair) < MaxPairs
  /\ pair' = Append(pair,
       [sub |-> op[o].sub, minted |-> time, parent |-> op[o].parent, root |-> op[o].root])
  /\ op' = [op EXCEPT ![o] = Idle]
  /\ UNCHANGED <<time, active, secret, first, retries, forgotten, revokedAt, retiredAt,
                 servedAt, calls, changes>>

\* A handler dies between two awaits; nothing is given back.
Abort(o) ==
  /\ op[o].pc # "idle"
  /\ op' = [op EXCEPT ![o] = Idle]
  /\ UNCHANGED <<time, active, secret, pair, first, retries, forgotten, revokedAt,
                 retiredAt, servedAt, calls, changes>>

-----------------------------------------------------------------------------

\* get_current_claims: a bearer call is judged by its token alone.
Bearer(p, kind) == Accepted(p, kind, "access", time)

\* The last bearer call accepted from each client that is revoked.
Serve(c) == servedAt' = IF active[c] THEN servedAt ELSE [servedAt EXCEPT ![c] = time]

\* Any call of an endpoint that needs a token (GET /auth/me, the proxy).
ApiCall(p, kind) ==
  /\ Bearer(p, kind)
  /\ Serve(pair[p].sub)
  /\ UNCHANGED <<time, active, secret, pair, op, first, retries, forgotten, revokedAt,
                 retiredAt, calls, changes>>

\* PATCH /admin/clients/{id}/status: the admin role is read from the token, so
\* an admin whose own row was revoked may still call it.
SetStatus(p, kind, c) ==
  /\ Bearer(p, kind)
  /\ pair[p].sub \in Admins
  /\ changes < MaxChanges
  /\ changes' = changes + 1
  /\ active' = [active EXCEPT ![c] = ~@]
  /\ revokedAt' = [revokedAt EXCEPT ![c] = IF active[c] THEN time ELSE 0]
  /\ servedAt' = [servedAt EXCEPT ![c] = -1]
  /\ UNCHANGED <<time, secret, pair, op, first, retries, forgotten, retiredAt, calls>>

\* POST /admin/clients/{id}/rotate-secret replaces the row's hash.
RotateSecret(p, kind, c) ==
  /\ Bearer(p, kind)
  /\ Serve(pair[p].sub)
  /\ pair[p].sub \in Admins
  /\ secret[c] < MaxSecrets
  /\ changes < MaxChanges
  /\ changes' = changes + 1
  /\ secret' = [secret EXCEPT ![c] = @ + 1]
  /\ retiredAt' = [retiredAt EXCEPT ![c][secret[c]] = time]
  /\ UNCHANGED <<time, active, pair, op, first, retries, forgotten, revokedAt, calls>>

\* Time passes, but no handler holds a row longer than MintDelay.
Tick ==
  /\ time < MaxTime
  /\ \A o \in Ops : op[o].pc = "mint" => time < op[o].since + MintDelay
  /\ Guard!Pass({})
  /\ UNCHANGED <<active, secret, pair, op, revokedAt, retiredAt, servedAt, calls, changes>>

\* Redis loses a record of use: it evicts, restarts empty, or the record is past
\* its TTL.
ForgetUse(p) ==
  /\ KeyLoss \/ time >= Expiry(p, "refresh") + Buffer
  /\ Guard!Forget({<<p, "refresh">>})
  /\ UNCHANGED <<active, secret, pair, op, revokedAt, retiredAt, servedAt, calls, changes>>

Next ==
  \/ Tick
  \/ \E p \in Minted : ForgetUse(p)
  \/ \E o \in Ops, c \in Clients, v \in Secrets : LoginRead(o, c, v)
  \/ \E o \in Ops, p \in Minted, k \in Kinds : RefreshValidate(o, p, k)
  \/ \E o \in Ops : RefreshRead(o) \/ Mint(o) \/ Abort(o)
  \/ \E p \in Minted, k \in Kinds : ApiCall(p, k)
  \/ \E p \in Minted, k \in Kinds, c \in Clients :
       RotateSecret(p, k, c) \/ SetStatus(p, k, c)

Spec == Init /\ [][Next]_vars

-----------------------------------------------------------------------------

Children(p) == {q \in Minted : pair[q].parent = p}

\* Revocation takes effect although bearer calls never look at the database:
\* a revoked client mints nothing later than a handler may hold its row, and
\* its calls stop within one access token's life (jwt_validator.py:185-191).
RevocationTakesEffect ==
  \A c \in Clients : ~active[c] =>
    /\ \A p \in Minted : pair[p].sub = c => pair[p].minted <= revokedAt[c] + MintDelay
    /\ servedAt[c] < revokedAt[c] + MintDelay + AccessLife + Skew

\* A secret that was rotated away opens no session (api/auth.py:134-142),
\* except for a login that had read the row before.
RetiredSecretOpensNothing ==
  \A p \in Minted :
    LET c == pair[p].sub  v == pair[p].root
    IN  pair[p].parent = 0 /\ v < secret[c] => pair[p].minted <= retiredAt[c][v] + MintDelay

\* While the record of its use stands, a pair begets at most as many pairs as its
\* refresh token has uses under late commands, and its access token begets none,
\* although a use is recorded three awaits before the pair is minted and refreshes
\* race, die and read the row in any order (api/auth.py:200-232).
ChildrenBounded ==
  \A p \in Minted : \/ <<p, "refresh">> \in forgotten
                    \/ Cardinality(Children(p)) <= 1 + Guard!MostRetries

=============================================================================
