------------------------------ MODULE Registry ------------------------------
(***************************************************************************)
(* The table gateway_clients and the admin calls that change it            *)
(* (api/admin.py, models/client.py, and the seeding of main.py).           *)
(*                                                                         *)
(* A call reads, in one await, and commits, in another; between the two    *)
(* other calls commit.  The session remembers the row it read, and its     *)
(* commit updates only the columns whose value differs from what it read.  *)
(* The audit row is part of the same commit, so a change is logged exactly *)
(* when it is made, and the model leaves it out.                           *)
(***************************************************************************)
EXTENDS Integers, FiniteSets

CONSTANTS
  Ids,          \* client_id values
  Ops,          \* admin calls (and start-ups) in flight
  Limits,       \* values of rate_limit
  MaxSecrets    \* bound on the secrets generated

ASSUME RegistryAssumption == MaxSecrets \in Nat

VARIABLES
  rows,     \* the committed rows
  op,       \* op[o]: what a call in flight knows
  issued,   \* how many secrets were generated so far
  stored,   \* history: the secrets some commit put in a row
  handed    \* history: the secrets shown to an admin

vars == <<rows, op, issued, stored, handed>>

Secrets == 1..MaxSecrets

\* A row's key is the first secret it was given: like id, it never changes.
Row == [key : Secrets, id : Ids, is_active : BOOLEAN, rate_limit : Limits,
        hashed_secret : Secrets]
\* The columns calls update, and their values.
Column == [is_active |-> BOOLEAN, rate_limit |-> Limits, hashed_secret |-> Secrets]
Columns == DOMAIN Column

Idle == [pc |-> "idle"]

\* The session of a call: the row it will insert; the row it read and what it
\* made of it; the secret, or the status asked for and left, to answer with.
IsOp(p) ==
  \/ p.pc = "idle"
  \/ p.pc = "insert" /\ p.mine \in Row
  \/ p.pc = "update" /\ p.seen \in Row /\ p.mine \in Row /\ p.col \in Columns
  \/ p.pc = "show" /\ p.secret \in Secrets
  \/ p.pc = "reload" /\ p.asked \in BOOLEAN /\ p.left \in BOOLEAN

TypeOK ==
  /\ rows \subseteq Row
  /\ \A o \in Ops : IsOp(op[o])
  /\ issued \in 0..MaxSecrets
  /\ stored \subseteq 1..issued
  /\ handed \subseteq 1..issued

Init ==
  /\ rows = {}
  /\ op = [o \in Ops |-> Idle]
  /\ issued = 0
  /\ stored = {}
  /\ handed = {}

Become(o, p) == op' = [op EXCEPT ![o] = p]

-----------------------------------------------------------------------------

\* create_client, and seed_demo_client of every process that starts, look for
\* the id and go on when there is none.
CreateRead(o, id, limit) ==
  /\ op[o].pc = "idle"
  /\ ~\E x \in rows : x.id = id
  /\ issued < MaxSecrets
  /\ issued' = issued + 1
  /\ Become(o, [pc |-> "insert", mine |->
       [key |-> issued + 1, id |-> id, is_active |-> TRUE, rate_limit |-> limit,
        hashed_secret |-> issued + 1]])
  /\ UNCHANGED <<rows, stored, handed>>

\* The insert of a call that trusts what it read.
CreateCommitBlind(o) ==
  /\ op[o].pc = "insert"
  /\ rows' = rows \cup {op[o].mine}
  /\ stored' = stored \cup {op[o].mine.hashed_secret}
  /\ Become(o, [pc |-> "show", secret |-> op[o].mine.hashed_secret])
  /\ UNCHANGED <<issued, handed>>

\* The commit inserts the row ...
CreateCommit(o) ==
  /\ op[o].pc = "insert"
  /\ ~\E x \in rows : x.id = op[o].mine.id
  /\ rows' = rows \cup {op[o].mine}
  /\ stored' = stored \cup {op[o].mine.hashed_secret}
  /\ Become(o, [pc |-> "show", secret |-> op[o].mine.hashed_secret])
  /\ UNCHANGED <<issued, handed>>

\* A conflict that is swallowed: the admin is shown the secret anyway.
CreateConflictShown(o) ==
  /\ op[o].pc = "insert"
  /\ \E x \in rows : x.id = op[o].mine.id
  /\ Become(o, [pc |-> "show", secret |-> op[o].mine.hashed_secret])
  /\ UNCHANGED <<rows, issued, stored, handed>>

\* ... or breaks on the unique index of client_id: nothing is stored and the
\* call ends in 500 (the seeding rolls back).
CreateConflict(o) ==
  /\ op[o].pc = "insert"
  /\ \E x \in rows : x.id = op[o].mine.id
  /\ Become(o, Idle)
  /\ UNCHANGED <<rows, issued, stored, handed>>

-----------------------------------------------------------------------------

\* A call reads row x and changes one column of its copy.
Edit(o, x, col, v) ==
  /\ op[o].pc = "idle"
  /\ Become(o, [pc |-> "update", seen |-> x, mine |-> [x EXCEPT ![col] = v], col |-> col])
  /\ UNCHANGED <<rows, stored, handed>>

SetStatus(o, x, b) == Edit(o, x, "is_active", b) /\ UNCHANGED issued

SetRateLimit(o, x, n) == Edit(o, x, "rate_limit", n) /\ UNCHANGED issued

\* A rotation that sets a secret another call may be given too.
RotateSecretShared(o, x) ==
  /\ issued < MaxSecrets
  /\ UNCHANGED issued
  /\ Edit(o, x, "hashed_secret", issued + 1)

\* rotate_client_secret generates the secret it sets.
RotateSecret(o, x) ==
  /\ issued < MaxSecrets
  /\ issued' = issued + 1
  /\ Edit(o, x, "hashed_secret", issued + 1)

\* What the commit makes of row x: all of the call's copy ...
WrittenWhole(p, x) == p.mine

\* ... or nothing, when the column is the secret and its change goes unnoticed ...
WrittenNoRotation(p, x) ==
  IF p.col = "hashed_secret" THEN x ELSE [x EXCEPT ![p.col] = p.mine[p.col]]

\* ... or, as SQLAlchemy does, the changed column in the row as it is now, and
\* nothing when the new value is the one that was read.
Written(p, x) ==
  IF p.mine[p.col] = p.seen[p.col] THEN x ELSE [x EXCEPT ![p.col] = p.mine[p.col]]

\* The commit, after which a rotation shows the secret and a status change
\* reads the row again.
UpdateCommit(o) ==
  LET p == op[o]
  IN  /\ p.pc = "update"
      /\ \E x \in rows :
           /\ x.key = p.seen.key
           /\ rows' = (rows \ {x}) \cup {Written(p, x)}
           /\ stored' = stored \cup {Written(p, x).hashed_secret}
           /\ Become(o, CASE p.col = "hashed_secret" ->
                              [pc |-> "show", secret |-> p.mine.hashed_secret]
                          [] p.col = "is_active" ->
                              [pc |-> "reload", asked |-> p.mine.is_active,
                               left |-> Written(p, x).is_active]
                          [] p.col = "rate_limit" -> Idle)
      /\ UNCHANGED <<issued, handed>>

\* The answer reaches the admin: the secret is shown this one time.
Show(o) ==
  /\ op[o].pc = "show"
  /\ handed' = handed \cup {op[o].secret}
  /\ Become(o, Idle)
  /\ UNCHANGED <<rows, issued, stored>>

\* The answer to a status change is the row, read again.
Reload(o) ==
  /\ op[o].pc = "reload"
  /\ Become(o, Idle)
  /\ UNCHANGED <<rows, issued, stored, handed>>

\* A call dies at an await: before its commit nothing is stored, after it the
\* answer is lost.
Abort(o) ==
  /\ op[o].pc # "idle"
  /\ Become(o, Idle)
  /\ UNCHANGED <<rows, issued, stored, handed>>

Next ==
  \E o \in Ops :
    \/ \E id \in Ids, limit \in Limits : CreateRead(o, id, limit)
    \/ CreateCommit(o) \/ CreateConflict(o) \/ UpdateCommit(o)
    \/ \E x \in rows :
         \/ RotateSecret(o, x)
         \/ \E b \in BOOLEAN : SetStatus(o, x, b)
         \/ \E n \in Limits : SetRateLimit(o, x, n)
    \/ Show(o) \/ Reload(o) \/ Abort(o)

Spec == Init /\ [][Next]_vars

-----------------------------------------------------------------------------

\* However creations and start-ups race between their check and their insert,
\* a client_id names one row (admin.py:70-72; get_client_by_id would raise).
UniqueIds == \A x, y \in rows : x.id = y.id => x = y

\* A secret that was shown to an admin had become the secret of a row: a call
\* that answers with it has written it, and not only set it in its own copy,
\* whatever the others committed meanwhile (admin.py:100-108, 168-188).
ShownSecretsWork == handed \subseteq stored

\* No update is lost to another call's: a row keeps every column but the one a
\* committing call was asked to change, so that a rotation or a new rate limit
\* never undoes a revocation committed meanwhile (admin.py:111-222).
ColumnsKept ==
  [][ \A x \in rows : \E y \in rows' :
        /\ y.key = x.key /\ y.id = x.id
        /\ \A col \in Columns : y[col] = x[col] \/
             \E o \in Ops : /\ op[o].pc = "update" /\ op'[o].pc # "update"
                            /\ op[o].seen.key = x.key
                            /\ op[o].col = col /\ op[o].mine[col] = y[col] ]_vars

\* A secret that was replaced never comes back: no commit puts a secret that a
\* row has had before into any row that does not hold it, although calls in
\* flight still carry the row as they read it (admin.py:121-139, 157-177).
ReplacedStaysReplaced ==
  [][ \A y \in rows' : y.hashed_secret \in stored =>
        \E x \in rows : x.key = y.key /\ x.hashed_secret = y.hashed_secret ]_vars

\* The table as the promise sees it: the rows under each id.
Table == INSTANCE ClientTable WITH
           table <- [id \in Ids |-> {x \in rows : x.id = id}],
           spent <- stored,
           shown <- handed

\* Seen from outside, the overlapping calls are atomic: each one changes one
\* column of one row in a single step, or has no effect at all, and shows its
\* secret once, after it was stored (admin.py:60-222).
ActsAtomically == Table!Spec

\* A status change that is reported as done was done: the commit left the row
\* with the status asked for (ClientsPage.tsx:57-58).
StatusAnswered == \A o \in Ops : op[o].pc = "reload" => op[o].left = op[o].asked

=============================================================================
