# ISAG: a TLA+ model of the iiko Secure API Gateway

ISAG is a FastAPI gateway between API clients and the iiko cloud API. It issues
RS256 token pairs to registered clients, guards refresh tokens against replay
with Redis, proxies authenticated calls to iiko over a bounded connection pool,
and gives administrators a registry of clients, a global kill switch and a
React panel. This directory holds the specifications of its stateful parts, the
TLC configurations that check them and the TLAPS proofs about them.

Paths below are relative to `src/`; `app/` stands for `backend/app/` and `ui/`
for `frontend/src/`. `PROJECT.json` gives, for every definition that models
code, the lines it stands for.

## 1. The system

### Components, their state and operations

| Component | Code | State | Operations | Modelled in |
|---|---|---|---|---|
| Replay guard | `app/security/jti_store.py` | Redis keys `isag:jti:<j>` and `isag:jti:grace:<j>` with TTLs | `is_replay` | `JTIStore` (abstract: `OneTimeToken`) |
| Token issue and validation | `app/api/auth.py`, `app/security/jwt_validator.py` | none of its own: signed tokens, the replay guard, the client's row | `POST /auth/token`, `POST /auth/refresh`, bearer validation, `GET /auth/me` | `AuthSession` |
| Signing key store | `app/core/config.py` | key files and key ids, read once per process | look-up by `kid`, fall-back to the first key | not modelled |
| Client registry | `app/api/admin.py`, `app/models/client.py`, `app/db/engine.py` | table `gateway_clients`, and the unit of work of each session | create, status, rotate secret, rate limit, list, seed at start | `Registry` (abstract: `ClientTable`) |
| Kill switch | `app/api/admin.py`, `app/api/proxy.py` | Redis key `global_deny`, audit rows | activate, deactivate, read, check per proxied call | `KillSwitch` |
| Streaming proxy | `app/api/proxy.py`, `app/services/iiko_client.py` | upstream connection pool, an exit stack per response | forward, stream, close, give up | `KillSwitch` |
| Admin statistics, logs | `app/api/admin.py`, `app/models/audit.py` | audit rows, stamped before they commit | `GET /admin/stats`, `/admin/logs` | the rows in `AuditTrail`; the aggregates are not |
| RBAC | `app/security/rbac.py` | a constant table | subset test of permissions | not modelled |
| Rate limiter | `app/middleware/rate_limiter.py`, `app/main.py` | window counters, in Redis or per process | count, reject, reset with the window | not modelled |
| Audit and metrics | `app/security/audit.py`, `app/middleware/metrics.py`, `app/core/metrics.py` | audit rows, counters | one record per request | not modelled |
| Request guards | `app/middleware/size_validator.py`, `secure_headers.py`, `response_filter.py` | none | pass or reject | not modelled |
| Start-up, shutdown | `app/main.py`, `app/core/redis.py` | connection singletons | connect, create tables, seed, close | seeding in `Registry`; the rest is not |
| Configuration | `app/core/config.py` | settings | validation at start | as assumptions on constants |
| Dashboard | `ui/pages/Dashboard.tsx`, `ui/components/Dashboard/LiveEvents.tsx` | last statistics, view of the switch, feed of events | poll every 5 s, toggle the switch | `Dashboard` over `KillSwitch`; the feed in `AuditTrail` |
| Admin panel session | `ui/services/apiClient.ts`, `ui/pages/Login.tsx`, `ui/components/Layout/`, `ui/App.tsx` | a token in `localStorage`, a route per tab | log in, attach, clear on 401, log out, redirect | `AdminSession` |
| Client page | `ui/pages/ClientsPage.tsx` | list of rows as last read, invented rows, dialogues, credentials on display | toggle, create, rotate, limit, fetch | `ClientsPage` |
| Audit log page | `ui/pages/AuditLogs.tsx` | rows as read once, invented rows, a selected row | read, select, export | `AuditTrail` |
| Toasts | `ui/components/Toast/ToastContext.tsx` | a list of toasts, one timer each, and the elements React keeps for them | show, dismiss after 3 s, render | `Toasts`, composed in `AuditTrail` |
| Static pages, charts; deployment files | `ui/pages/*.tsx`, `docker-compose.yml`, `infrastructure/` | none | none | not modelled (Redis' settings are steps of the models) |

### How they interact

- `refresh_token` awaits `JWTValidator.validate`, which decodes the token and
  awaits `JTIStore.is_replay` (Redis); then it awaits the database for the
  client's row; then it signs a new pair. Every `await` lets other handlers run.
- Bearer calls are judged by the token alone: neither Redis nor the database is
  consulted. Revocation therefore reaches a client through `/auth/token` and
  `/auth/refresh` only.
- Admin calls are bearer calls with the admin role. They read a row, change it,
  and commit it with an audit row in one transaction; the kill switch writes
  Redis first and commits its audit row after.
- A proxied call reads `global_deny` once, takes one of the upstream client's
  connections, and hands the response to a generator that owns the connection.
- Several worker processes share Redis and the database, and nothing else.
- The panel's pages talk to the admin API only, through one axios instance: a
  request carries the token that `localStorage` holds when it is sent, and a 401
  to any of them, at any page but `/login`, clears the storage and reloads the
  tab. Tabs share the storage and nothing else.
- The dashboard polls; the client page fetches when it is opened and after its
  own changes; the log page reads once. Nothing is pushed to any of them.

### What is hard

Redis commands of racing requests interleave, a clock sample is used after the
await that follows it, keys expire on another clock than the one that computed
their TTL, a worker may die between two commands, and Redis keeps nothing on
disk and evicts under memory pressure. Two sessions hold copies of one row. A
lockdown races calls already past its check. Clients leave while a response is
being sent, or stay and stop reading it. In the panel, buttons stay enabled while their call is under way,
answers are shown in the order they arrive, handlers act on what they saw when
they were created, failures are shown as successes, and an answer to an old
request meets a new session. `PROJECT.json` ("hazards") lists each such place at its line, with
the properties that watch it or the reason none does yet.

### What makes each part correct

- Replay guard: while its record stands, a refresh token buys one exchange, and
  further ones only within the grace period of the first and apart from each
  other, however requests race and however late their commands run; its keys
  leave Redis again.
- Sessions: a revoked client stops minting and being served within a bounded
  time; a rotated secret opens no session; a pair of tokens begets few others.
- Registry: one row per `client_id`; no admin's update undoes another's; a secret
  that was shown was stored, and one that was replaced does not come back:
  overlapping calls look like atomic ones.
- Kill switch and proxy: nothing that arrived under a lockdown goes upstream;
  calls in flight that no peer holds drain; they end and return their connection.
- Dashboard: the page shows no lockdown that never was, and comes to show the
  switch as it is, whatever answers cross.
- Panel session: a token that was dropped is never used again; a session that is
  over ends at `/login`; redirects come to rest.
- Client page: a secret is shown under the client it opens, and once; a click does
  what its dialogue said; a page at rest tells the truth about the registry.
- Audit log, toasts: no committed action is missing from what is shown; a toast
  is not taken away before its time, and leaves if its id is its own.

## 2. The modules

```
OneTimeToken (what the replay guard promises)   ClientTable (what the registry promises)
   ^            ^                                  ^
   | implements | uses as Guard                    | implements
JTIStore      AuthSession        KillSwitch     Registry
                                     ^ extends
                                 Dashboard      AdminSession

ClientsPage   Toasts
                 ^ extends
              AuditTrail
```

A module `M` has its theorems in `MProofs` and its instances for TLC in `MCM`;
those of `Toasts` are in `AuditTrailProofs` and `MCAuditTrail`, the theorems of
`Dashboard` in `KillSwitchProofs`, those of `OneTimeToken` are `JTIStore`'s and those of `ClientTable` are `Registry`'s.

The `MC*` modules only name the sets that the configurations assign to
constants, and the symmetries. Operators whose comment calls them a slip, or
that describe code other than the gateway's (`GraceFreeAlways`,
`RefreshReadAny`, `CheckNothing`, `WrittenWhole`, ...), stand next to the
operator they distort. No specification uses them: they are put in its place to
see that the properties notice.

### OneTimeToken

What the replay guard promises of a token, and no more: when it was exchanged as
a token never used (`first`), when a retry was granted (`retries`), and which
tokens may have been `forgotten`. `FirstUse` needs a token without a first use, or
one that is forgotten; `Retry` a second in the window, which is the grace period
and the `Delay` of a command, and more than `Grace` away from every other retry.
`Pass` and `Forget` lose records. `MostRetries` is how many retries the window has
room for. It knows nothing of Redis or of requests.

The promise is not "at most two uses". The docstring says that, and the code does
not give it once a command runs in another second than its clock sample
(`jti_late`, section 3).

### JTIStore

`is_replay` command by command. A request `r` goes from `new` through `set`,
`incr` and `expire` to one of the verdicts `first`, `grace`, `replay`, `error`;
its program counter names the Redis command it sends next.

- `Validate` is the decoder's acceptance (PyJWT accepts while
  `now < exp + leeway`) with the clock sample that follows it without an await
  (`jti_store.py:73`).
- `FirstUse` and `ReadFirstUse` are the two results of `SET NX GET`; the TTL in
  `KeyExpiry` is computed from the sample and runs on Redis' clock
  (`max(1, exp - now + buffer)`).
- `IncrFirst`, `IncrAgain` and `Expire` are the grace counter's two commands.
  Only its existence is kept, since a value above one is never looked at again;
  `NoTTL` marks a counter whose EXPIRE was not sent.
- `Abort` ends a request at any await. `LoseMain` and `LoseGrace` are eviction
  (`allkeys-lru`) and restart (`--save "" --appendonly no`).
- `Tick` lets a second pass; `MaxDelay` bounds how long a request may wait
  between its sample and its last command. The code sets no such bound: every
  theorem is for any value of it, and its value enters what the properties say.
  The clocks of the workers and of Redis are one clock that does not go back; a
  skew between them shows as delay.

The malformed-value branch is unreachable, since only this code writes the keys.

### AuthSession

Every login or refresh mints a pair of an access and a refresh token; the model
keeps the pair with its client, its time, the pair it was exchanged for and the
secret its session began with. A call in flight is `idle`, has validated its
refresh token (`read`), or has read the row (`mint`).

The replay guard is used in its abstract form: `RefreshValidate` takes a step of
`OneTimeToken`, which `JTIStore` is proved to implement for any delay of a command
and any loss of keys. So a token may be exchanged more than twice here, as often
as the window has room, and anew once its record is lost (`ForgetUse`: an
eviction, a restart, or a TTL that ended). `Presented` lets the use be decided up
to `GuardDelay` after the token was decoded. `RefreshRead` re-reads the row and
drops the call when the client is inactive, without giving the use back.
`SetStatus` and `RotateSecret` are the admin calls, authorised by the caller's
token alone, so that a revoked admin's access token goes on working. `ApiCall` is
any other bearer call; `servedAt` records the last one accepted from a client
while its row is inactive.

A rejected call changes nothing and is no step, except a refresh that burnt its
token. `MintDelay` bounds the time from reading the row to signing: the code
awaits nothing in between, but the worker's thread may be busy (bcrypt blocks
it), and the sample of time that goes into `iat` and `exp` is taken at signing.

### KillSwitch

The key `global_deny`, the admin calls with their audit commit to come, and the
proxy calls through their stages: `arrived` (authorised, before the check),
`admitted` (past it, waiting for a connection), `sending`, `open` (response
headers received, generator not started), `streaming`, and `orphan` (the client
left and the generator is nobody's). The last four hold a connection.

`Check` is the one read of the key. `PoolTimeout` is httpx' pool timeout mapped
to 504. `EndStream` is every way the generator's `finally` runs;
`ClientLeaves` is the case in which it does not, because the response was
awaiting `send` and not the generator, and `Collect` is asyncio's finalization
of abandoned generators. `held[r]` says that a peer keeps the call waiting where no
timeout covers it: Redis does not answer the check, the client uploads
(`iiko_client.py:128`) or reads (`proxy.py:81`) no further and stays connected, or
the upstream's answer has no end, each of its reads within httpx' timeout.
`Hold` and `Release` are such a peer; a held call may still be left by its client.
`under[r]` is history: call `r` arrived under the
lockdown now in force; lifting the lockdown, or losing the key, clears it.
`lastRow` is what the newest audit row says of the switch.

### ClientTable

The registry as its admins may think of it: for each id the row it has, if any,
the secrets that were given to a row and those that were shown. Creating, setting
the status, setting the limit, rotating and showing are one step each; a new row
and a rotation take a secret that no row ever had, and a secret is shown once,
after it was given.

### Registry

The table as a set of rows, and each call's session: the row it will insert, or
the row it read (`seen`), its copy (`mine`) and the column it set. `Written` is
what SQLAlchemy's unit of work makes of it at commit: an UPDATE of the column
whose value differs from the one read, and no UPDATE when it does not. Secrets
are numbered in the order they are generated; a row's key is its first one.
`CreateConflict` is the unique index of `client_id` refusing the insert: the
call ends in 500, the seeding in `main.py` rolls back. The audit row rides in
the same transaction as the change, so it exists exactly when the change does,
and is left out. So is `last_used_at`, a column of its own that no decision
reads. There is no deletion in the API. `Table` maps this to `ClientTable`: the
rows under each id, the secrets that were stored, and those that were handed out.
The commit of a call is its one step there; a call that is refused, rolled back,
or commits a value it found already there, is none.

### Dashboard

The page beside the switch it shows: this module extends `KillSwitch`, and a
post of the page is one of its admin calls (`ArrivePost` is `Activate` or
`Deactivate`, `CommitPost` and `LosePost` are its two ends). `poll[p]` is a `fetchStats`
under way, with the answer to the read of the switch from the moment the server
gave it until it lands; several may be under way, since the interval fires every
5 s whatever is unanswered. `masked` is the read of the switch failing beside
statistics that succeed, which the code turns into "not active"
(`Dashboard.tsx:66`). The confirmation stays open until the answer, so that a
second click posts the negation of the view as it is by then. `seenOn` is
history. Proxy calls only read the switch; they are `KillSwitch`'s.

### AdminSession

`stored` is the token in `localStorage`, 0 for none; tokens are numbered in the
order they are issued. Each tab has a route, the token `ProtectedRoute` last
asked `/auth/me` about, the login button's `loading`, and the set of calls it
waits for, each with the token it was sent with. `"mounting"` is `/login` before
its effect has looked for a token. `Enter` is `ProtectedRoute`: it is the one
way into a page and sends what the route reads. `Navigate` keeps calls waiting,
`OpenUrl` and a 401 outside `/login` reload the tab and forget them. `Over` is the
end of a call, with the `finally` of the login handler. A React effect that runs
while its page stays is atomic with the render that caused it, except `/login`'s.

The gateway may end any call with an answer, an error of its own or of the
network (`EndCall`), and refuses those that carry a dead token (`RefuseCall`).
`acting` marks the time until the admin leaves the tabs to themselves.

### ClientsPage

`rows` is the registry, one whole call at a time: how calls interleave inside it
is `Registry`'s matter. `calls[s]` is a call of the page with its handler's
closure, from the click to the landing of the answer, and may be answered before
it is delivered or lost after it took effect. The dialogues are sets of at most
one member, each holding what it was opened with; `confirmRevoke` holds the status
to set (`!currentStatus`) and `editingRateLimit` a copy of the whole row. `Invented`
is the secret that a catch branch makes up. Other admins create and change rows
(`Elsewhere`), and leaving the page and opening it again (`Remount`) leaves its
calls behind, which are from then on someone else's.

`word` is history: what the status dialogue said when it opened. `trusted` is
history too: it is lost when a call failed (the page then believes its own copy),
when a fetch was sent while another was under way, and when another admin wrote.

### Toasts and AuditTrail

A toast's id is the millisecond it was shown at, and its timer removes every
toast with that id from the list. The id is also the key of the toast's element
(`ToastContext.tsx:36`). `Render` is React's reconciliation of the elements with
the list, as react-dom does it for keyed children: elements stay as long as the
list agrees from the front (`InPlace`), the rest are looked up by key, and of two
with one key the earlier is dropped from that look-up and never removed
(`Orphaned`), unless the list ends where the elements stopped agreeing. Such an
element is `stuck`. Several changes of the list may be rendered at once, and late:
`MaxLate` bounds timers and rendering. Times are taken modulo one more than the
longest life of a toast, so no toast with a timer or a tracked element is there
when its time comes round again, and the instance is finite.

`AuditTrail` adds the pages. Audit rows are numbered by timestamp, which is taken
when its INSERT is sent, before the commit, so that rows may be committed out of
order or not at all. `Newest(k)` is both queries, `ORDER BY timestamp DESC LIMIT
k`: 5 for the feed, 100 for the log. Opening a page unmounts the other; the
toasts outlive both. `before` is history: what was committed when the log page
was opened. A feed keeps what the last answer said; the log keeps its invented
rows until an answer with rows lands.

## 3. What is checked

| Run | Bounds | States | What it shows |
|---|---|---|---|
| `jti_delay` | 1 token, 4 requests, grace 1 s, delay 2 s, buffer 3 s over a leeway of 2 s, keys lost | 1,151,545 | `TypeOK`, `OneFirstUse`, `GraceSpacing`, `RetryWithin`, `BoundedUses`, `KeysDue`, `CountersDue`; the store implements `OneTimeToken` (`KeepsPromise`) |
| `jti_late` | 1 token, 3 requests, grace 2 s, delay 1 s, no loss | to the trace | `AtMostTwoUses` fails |
| `session_revoke` | admin and client, 1 call, 3 pairs, 2 changes, 2 s, delay 1 s | 288,569 | `TypeOK`, `RevocationTakesEffect`, `RetiredSecretOpensNothing` |
| `session_chain` | 1 client, 2 calls, 5 pairs, delay 1 s, records lost | 640,585 | `ChildrenBounded` |
| `killswitch` | 2 proxy calls on 1 connection, 2 admins, failing commits, lost key, peers that stall | 3,648 | `TypeOK`, `LockdownHolds`, `LockdownDrains`, `EveryCallEnds` |
| `registry` | 2 ids, 2 calls, 3 secrets, 2 limits | 360,396 | `TypeOK`, `UniqueIds`, `ShownSecretsWork`, `ColumnsKept`, `ReplacedStaysReplaced`; the calls implement `ClientTable` (`ActsAtomically`) |
| `registry_stale` | as `registry`, 1 secret | to the trace | `StatusAnswered` fails |
| `dashboard` | 2 polls, 2 admin calls, failing reads and commits, lost key | 126,708 | `DashboardTypeOK`, `NoInventedLockdown`; the page comes to show the switch (`ViewCatchesUp`) |
| `panel` | 2 tabs, 2 logins, the dashboard and a still page | 34,750 | `TypeOK`, `DroppedStaysDropped`; dead sessions end (`DeadSessionEnds`), redirects settle (`RedirectsSettle`) |
| `clients` | 1 client and 1 invented row, 2 calls, 2 secrets, another admin | 2,001,453 | `TypeOK`, `SecretUnderItsId`, `RestShowsRegistry`, `SentAsSaid`, `ShownOnce` |
| `clients_lost` | as `clients`, 1 secret | to the trace | `GeneratedStays` fails |
| `audit_page` | 2 rows, feed and log of 1, 2 polls, 3 toasts (3 rows and toasts together), timers and renders late by 1 | 128,733 | `TypeOK`, `NoActionMissing`, `NeverEarly`; toasts leave (`ToastsLeave`), actions show (`ActionsShow`) |

### Why the bounds are enough

- Replay guard. With grace 1 s and a delay of 2 s the bound of `BoundedUses` is
  three uses, which four requests reach and could exceed. The buffer is longer
  than the leeway, so that retries come after the token's end; grace is one
  second, the smallest at which "inside", "at the edge" and "outside" differ; the
  clock runs past every expiry. Tokens share nothing, so one is enough. `jti_late`
  has the default grace of 2 s and the smallest delay there is.
- Sessions. An admin, who may revoke itself or the client, and one session of
  each; three pairs are a login, and a chain of two refreshes or two logins.
  Lives are 1 and 2 seconds so that an access token ends before the refresh
  token of its pair. Two changes are a revocation and a reactivation, two
  revocations, or a revocation and a rotation. The tree of sessions needs one
  client, no admin and two calls; with grace 0 and delay 1 s a pair may have three
  children, and the fifth pair would be the fourth child.
- Kill switch. One connection for two calls makes the pool full; two admins can
  cross each other's writes; one held call beside one that is not shows who waits
  for whom. The state is finite without further bounds.
- Registry. Two calls on one row are every conflict of two commits; two ids show
  that rows do not mix; three secrets are two creations and a rotation, or a
  creation and two rotations.
- Dashboard. Two polls are what answers out of order need, two calls what a
  second click, or a click beside another admin, needs. `Requests` is empty:
  no proxied call writes what the page reads.
- Panel. Two tabs and two tokens are an old request meeting a new login, in the
  same tab or another's. `Reading` is empty: a page that reads once sends what
  the dashboard sends, only less often.
- Client page. Two calls overlap in every pair of kinds; one client and one
  invented row are a row the registry knows and one it does not; secrets can be
  shown under the wrong one of the two. One accepted limit beside the refused
  ones; two secrets are two rotations, or a creation and a rotation.
- Audit log. Two rows against a limit of one make the limit bite and let a later
  stamp commit first. Three toasts are two of one millisecond and a third beside
  them, which is what it takes for an element to be lost; `MaxEvents`
  bounds rows and toasts together, so that three toasts come without rows and two
  beside one. A life of one tick and a lateness
  of one let toasts be shown together or a tick apart, and be rendered together
  or not.

Requests (in `jti_delay`), calls (in `session_chain` and `registry`) and ids (in
`registry`) are only compared for equality, so permuting them is sound; none of
these runs checks liveness.

### Deadlock

`killswitch`, `dashboard`, `clients` and `audit_page` check deadlock too. The
instances of `JTIStore`, `AuthSession` and `Registry` stop when their clock, or
their supply of pairs or secrets, is exhausted, and the panel stops when its
admin has left both tabs on pages that send nothing: they do not check it.

### Fairness

- `KillSwitch!FairSpec`: a handler that runs is scheduled; the wait for a
  connection ends in one or in the pool timeout; the upstream's answer and each
  read of it end or time out (`iiko_request_timeout_seconds`), unless a peer holds
  the call (`held`); the event loop finalizes abandoned generators. Nothing obliges
  a peer to let go of a call, clients or admins to call, an upstream to answer, or
  a lockdown to last.
- `Dashboard!DashboardFairSpec`: the interval fires while the page is open, and
  browser and gateway end every request, in an answer or an error. Nothing obliges
  reads to succeed: `ViewCatchesUp` assumes that they do from some time on.
- `AdminSession!FairSpec`: the effect of `/login` runs and the interval fires. A
  call that carries a dead token is refused, with strong fairness: each poll may
  end in an error of the network instead, but polls go on for ever, and not all
  of them do.
- `AuditTrail!FairSpec`: as the dashboard's, and time passes, timers fire and React
  renders.

### Where the code and what is said of it differ

Three are runs whose counterexample TLC prints; `PROJECT.json` quotes the lines.

- `jti_late`. "At most 2 successful uses of a single JTI", says
  `app/security/jti_store.py:13-14`, and 56-62 again. The grace window is judged by
  a clock sampled before the awaits (73), the counter's TTL runs on Redis' clock
  from EXPIRE on (108): an INCR that runs after the counter expired is a third use.
  First use at 10.0 s, a retry at 10.1 s whose counter expires at 13.1 s, a request
  that samples at 12.9 s and whose INCR runs at 13.2 s. `BoundedUses` is what
  remains true.
- `registry_stale`. An activation computed from a row read before a concurrent
  revocation writes nothing, and is answered and logged as an activation.
- `clients_lost`. "Copy the Client ID and Secret now", says the page over a secret
  that its own second, refused creation has just replaced by an invented one; the
  generated secret is lost.

Others were met while reading and follow from one or two lines each; no run is
spent on them:

- `jti_store.py:70-71` says the counter "is short-lived". A worker that dies between
  INCR (105) and EXPIRE (108) leaves it without a TTL: the one case `CountersDue`
  excuses.
- `ClientsPage.tsx:394` says that after a rotation "any services using the old
  secret will fail". `refresh_token` never looks at the secret
  (`app/api/auth.py:205-208`): a session opened with the old one goes on.
- `Dashboard.tsx:215` says that the switch will "immediately terminate all external
  proxying". `global_deny` is read once, before forwarding (`app/api/proxy.py:144`):
  calls past it, and responses that stream, go on.
- `Dashboard.tsx:214-215` says "This action is logged". Redis is written before the
  audit row is committed (`app/api/admin.py:243-256`), and stays when that fails.
- `Dashboard.tsx:102` says "Failed to toggle kill switch" in that same case, when
  the switch was toggled.
- `Dashboard.tsx:69` says "Always use real data from the backend". A failed read of
  the switch was turned into "not active" three lines above.
- `README.md:97` has the dashboard's feed show `RATE_LIMIT_EXCEEDED`. No audit row
  with that action is ever written; the feed reads admin actions only.
- `AuditLogs.tsx:251` says "Trace exported to SIEM". Nothing is sent.
- `ClientsPage.tsx:79`: a failed limit change puts back the row as it was when
  the dialogue opened, undoing on the page a status change made since.
- `ClientsPage.tsx:116, 120`: a rotation shows the `client_id`; one that failed shows
  the row's UUID in its place, beside the invented secret.
- `Login.tsx:39` speaks of "insufficient permissions". Any registered client logs in;
  it is the admin endpoints that refuse it.
- `ToastContext.tsx:28` says "3-second auto-dismiss". Two toasts of one millisecond
  have one key; rendered beside a third, one of their elements can be lost to React
  and stays on the screen until the tab is reloaded (`stuck`, reached in
  `audit_page`). Two actions that show a toast in one millisecond are rare: two
  answers that land together.
- `apiClient.ts:21` clears the token "if unauthorized", whichever token was
  refused: a late answer to an old one ends a fresh login.

## 4. What is proved

TLAPS checks these for every value of the constants that satisfies the
assumption named in each module (natural numbers, finite sets of proxy calls,
`Jti` a function to the tokens, limits that are positive, names of routes and of
invented rows that differ from real ones; none restricts the number of requests,
clients, calls, tabs, polls or toasts).

| Theorem | Statement | Extra hypothesis |
|---|---|---|
| `JTIStoreProofs!TypeCorrect` | `Spec => [](TypeOK /\ SampleInv)` | none |
| `JTIStoreProofs!FirstUseUnique` | `Spec => []OneFirstUse` | none: any delay, any loss |
| `JTIStoreProofs!GraceUsesApart` | `Spec => []GraceSpacing` | none |
| `JTIStoreProofs!RetriesInTime` | `Spec => []RetryWithin` | none |
| `JTIStoreProofs!RecordsDue` | `Spec => []KeysDue` | none |
| `JTIStoreProofs!GraceCountersDue` | `Spec => []CountersDue` | none |
| `JTIStoreProofs!UsesBounded` | `Spec => []BoundedUses` | none |
| `JTIStoreProofs!StoreKeepsPromise` | `Spec => KeepsPromise`: the store implements `OneTimeToken` | none |
| `AuthSessionProofs!SessionTypeCorrect` | `Spec => []TypeOK` | none |
| `AuthSessionProofs!RevocationSafe` | `Spec => []RevocationTakesEffect` | none |
| `AuthSessionProofs!RetiredSecretsSafe` | `Spec => []RetiredSecretOpensNothing` | none |
| `AuthSessionProofs!ChildrenFew` | `Spec => []ChildrenBounded` | none |
| `KillSwitchProofs!SwitchTypeCorrect` | `Spec => []TypeOK`, the pool's bound included | none |
| `KillSwitchProofs!LockdownSafe` | `Spec => []LockdownHolds` | none |
| `RegistryProofs!IdsUnique` | `Spec => []UniqueIds` | none |
| `RegistryProofs!SecretsStored` | `Spec => []ShownSecretsWork` | none |
| `RegistryProofs!NoLostUpdate` | `Spec => ColumnsKept` | none |
| `RegistryProofs!RegistryTypeCorrect` | `Spec => []TypeOK` | none |
| `RegistryProofs!ReplacedForGood` | `Spec => ReplacedStaysReplaced` | none |
| `RegistryProofs!CallsAreAtomic` | `Spec => ActsAtomically`: the registry implements `ClientTable` | none |
| `KillSwitchProofs!DashboardTypeCorrect` | `DashboardSpec => []DashboardTypeOK` | none |
| `KillSwitchProofs!NoLockdownInvented` | `DashboardSpec => []NoInventedLockdown` | none |
| `AdminSessionProofs!PanelTypeCorrect` | `Spec => []TypeOK` | none |
| `AdminSessionProofs!DroppedTokensStayDropped` | `Spec => DroppedStaysDropped` | none |
| `AdminSessionProofs!PagesGuarded` | `Spec => []PagesUnderToken` | none |
| `ClientsPageProofs!PageTypeCorrect` | `Spec => []TypeOK` | none |
| `ClientsPageProofs!SecretsUnderIds` | `Spec => []SecretUnderItsId` | none |
| `ClientsPageProofs!SecretsShownOnce` | `Spec => ShownOnce` | none |
| `ClientsPageProofs!StatusSentAsSaid` | `Spec => SentAsSaid` | none |
| `ClientsPageProofs!RestIsTrue` | `Spec => []RestShowsRegistry` | none |
| `AuditTrailProofs!AuditTypeCorrect` | `Spec => []TypeOK` | none |
| `AuditTrailProofs!NoneMissing` | `Spec => []NoActionMissing` | none |
| `AuditTrailProofs!NoToastForgotten` | every toast of the list has its timer, and those of one id are of one age | none |
| `AuditTrailProofs!NeverTakenEarly` | `Spec => NeverEarly` | none |

### The arguments

Replay guard. `SampleInv` bounds the age of a waiting request's sample.
`RecordInv` says that a recorded first use outlives the token by the buffer,
even when its SET ran late (the TTL then starts later): with it, a second first
use finds the key live unless it was lost or the token's end plus the buffer has
passed. `SlotInv` carries the grace counter: once a slot is taken the counter has
no TTL yet, or expires more than `Grace` after the slot was taken, so that no
other slot is handed out meanwhile and two uses are apart.

The rest is said of a token while it is `Intact`: nothing of it was lost and its
end plus the buffer has not come. `WitnessInv` gives its record a first use that
wrote it, no earlier than the record says; `LatenessInv` says that whoever passed
the window check sampled its clock at most `Grace` after that first use.
`RetryWithin` follows, since a sample is at most `MaxDelay` old when the slot is
taken. `UsesBounded` is a count on top of it: grace uses are more than `Grace`
apart and all lie within `Grace + MaxDelay` of the first use, and
`Spacing!Packing` says how many such numbers there are. The bound is exact in
the smallest case: TLC finds the third use at a delay of one second (`jti_late`).

The refinement maps the decisive Redis command of an admitted request to the
abstract use, EXPIRE to the retry it completes, a loss to `Forget`, and everything
else to a stutter. It has no hypothesis, because the promise is no more than the
code gives: the retry's window contains the delay, and forgotten tokens are free.

`GraceCountersDue` is inductive beside the types: only `IncrFirst` leaves a
counter without a TTL, and only the death of the request that ran it leaves it so.

Sessions. `RevocationInv` says that a call about to mint read its row no longer
than `MintDelay` ago and, if the client has been revoked meanwhile, no later than
the revocation; so what it mints is in time, and what it minted bounds the bearer
calls that follow. `RetiredInv` says the same of the secret a login was given.
`UsesInv` says of each token whose record stands that its uses follow the guard,
so that there are few (`WindowBound`, from the same `Packing`). `ChildrenInv`
charges each child of a pair, minted or still in flight, to one of those uses: a
refresh is charged when it starts, minting moves it from the calls to the
children, and dying only wastes it (`Fits`).

Kill switch. `LockdownHolds` is inductive beside the type invariant: a call that
arrived under the lockdown finds the key at its check, and lifting the lockdown
frees it. The bound of the pool follows from the cardinality of the holders
growing by one, and only below the bound.

Registry. `RegistryInv` adds to the two properties that the sessions hold
well-formed rows, that every secret in a row is stored, and that a secret about to
be shown is (`Sound`): a rotation's secret is new, so the ORM cannot take it for the
one it read and skip the UPDATE (`CommitShape`). `WrittenKeeps`
says what a commit can change in a row, from which `ColumnsKept` follows step by
step. `TypeInv` adds to the types that no call holds a secret that was not
generated. `SecretInv` is where the secrets are: a call that carries a new one
(`Carrying`) is alone with it, and until its commit no row ever had it. Hence what
a commit stores is new, although the row it writes was read long before
(`ReplacedForGood`), and each commit is a creation or a change of `ClientTable`:
`CreateIsAtomic`, `UpdateIsAtomic` and `ShowIsAtomic` are the three ways a step
maps to one, and every other step maps to a stutter (`CallsAreAtomic`).

Dashboard. `PageStepsTheSwitch` maps each step of the page to an admin's step of
`KillSwitch` or to none, so that the switch's theorems hold under the page;
`DashboardTypeCorrect` takes its half from `SwitchTypeCorrect` that way. For
`NoInventedLockdown`, `Evidence` says that every answer under way that says "on",
and every post that asked for it and succeeded, has seen the switch on since the
page was opened.

Panel. `DroppedStaysDropped` needs that the stored token was never dropped
(`StoredAlive`): a new token is larger than any issued, and every call that is
added carries the stored one. `PagesUnderToken` is inductive by itself: a page is
entered under the stored token, and the storage forgets no token without dropping
it. With the first theorem, a tab left behind by another's logout shows its page,
but nothing will be sent with what it showed it under.

Client page. `SecretsFor` says of each call that holds a secret what
`SecretUnderItsId` says of the one on display; owners are only appended. For
`ShownOnce`, `OnePlace` says that no two answers bring the same secret and none
brings the one on display; a new secret is in no answer yet because `SecretsFor`
keeps all of them among the owners.
`SentAsSaid` needs that an open status dialogue still is what `word` recorded
(`WordKept`). `Truth` is the inductive form of `RestShowsRegistry`: as long as the
page can be trusted, either it shows the registry, or a change or a fetch that
will repair it is under way, and the fetch, once answered, brings the registry.

Audit trail. `Extremes` (a finite set of numbers has a least and a greatest
member) comes from the well-foundedness of strict inclusion; from it,
`NewestAreFew` and `NewestAreEnough`: the newest `k` of a finite set are at most
`k`, and whoever is left out has `k` newer ones among them. `LogsComplete` then
says of the answer under way what `NoActionMissing` says of the page; the rows
committed before the page was opened are still in the table when it is answered.
`TimersTrue` says that a timer carries the id of its toast, which is the time it
was shown: toasts that share an id are of one age, so that a timer takes none of
them early, and none is in the list without its own timer (`NoToastForgotten`).

### Only model-checked

The liveness properties (`LockdownDrains`, `EveryCallEnds`, `ViewCatchesUp`,
`DeadSessionEnds`, `RedirectsSettle`, `ToastsLeave`, `ActionsShow`), which are out
of the prover's reach. Every other property of a passing run is a theorem. TLC
checked the one that is a theorem only (`PagesUnderToken`) on the instance of
`panel` before it was proved.

## 5. What is left out

- Cryptography: a signature verifies or the call is rejected, and a secret
  matches its own hash only. Tokens are not forged.
- A wall clock that is set back, on a worker or in the browser.
- Selection of the key by `kid` and keys that differ between workers.
- Header filtering, response headers, request sizes: stateless.
- The rate limiter: the windows are the limits library's; the gateway's own part
  is the choice of a key.
- Audit and metrics middleware: they record what happened, and no decision reads
  what they record.
- Permissions: the role table is constant; only the admin role is modelled,
  where sessions depend on it.
- The aggregates of `/admin/stats`: they read and change nothing.
- In the panel: search boxes, presets and the clipboard; static pages (alerting,
  security rules, integrations) and charts, which show constants; what a reload
  of a tab does to its toasts.
- Wording, styling, Prometheus and Grafana files.

## 6. Plan

What could be added next, in this order:

1. `RateLimiter`: fixed windows with per-process or shared storage, the key that
   changes from address to user once a token was verified.
2. `Pipeline`: the middleware stack as one path per request, one audit record per
   request, background writes that may be lost, counters in and out of step.
3. `KeyRotation`: key files and ids across restarts of workers, the fall-back for
   tokens without a `kid`.
4. `Startup`: connect, create tables, seed, serve.
