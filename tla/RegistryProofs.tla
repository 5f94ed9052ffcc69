--------------------------- MODULE RegistryProofs ---------------------------
(***************************************************************************)
(* What holds of the client table for any number of clients and of admin   *)
(* calls in flight.                                                        *)
(***************************************************************************)
EXTENDS Registry, TLAPS

\* A commit keeps the identity of the row it updates, and a column other than
\* the one the call was asked to change.
LEMMA WrittenKeeps ==
  ASSUME NEW p, NEW x \in Row, p.mine \in Row, p.col \in Columns
  PROVE  /\ Written(p, x) \in Row
         /\ Written(p, x).key = x.key
         /\ Written(p, x).id = x.id
         /\ \A col \in Columns : col # p.col => Written(p, x)[col] = x[col]
<1>1. CASE p.col = "is_active"
  BY <1>1 DEF Written, Row, Columns, Column
<1>2. CASE p.col = "rate_limit"
  BY <1>2 DEF Written, Row, Columns, Column
<1>3. CASE p.col = "hashed_secret"
  BY <1>3 DEF Written, Row, Columns, Column
<1>4. QED
  BY <1>1, <1>2, <1>3 DEF Columns, Column

\* What a call in flight may carry: a well-formed copy of a row with a secret
\* that was generated, which for a rotation is not the one that was read, or a
\* secret to show, which is stored.
Sound(p, n, st) ==
  /\ p.pc = "insert" => p.mine \in Row /\ p.mine.hashed_secret \in 1..n
  /\ p.pc = "update" => /\ p.mine \in Row /\ p.mine.hashed_secret \in 1..n
                        /\ p.col \in Columns
  /\ p.pc = "update" /\ p.col = "hashed_secret" =>
       p.mine.hashed_secret # p.seen.hashed_secret
  /\ p.pc = "show" => p.secret \in st

\* The secrets of the rows are stored ones, and those were generated.
RegistryInv ==
  /\ rows \subseteq Row
  /\ issued \in Nat
  /\ stored \subseteq 1..issued
  /\ \A x \in rows : x.hashed_secret \in stored
  /\ DOMAIN op = Ops
  /\ \A o \in Ops : Sound(op[o], issued, stored)
  /\ UniqueIds
  /\ ShownSecretsWork

\* The empty table satisfies the invariant.
LEMMA RegistryInit == Init => RegistryInv
BY DEF Init, RegistryInv, Sound, Idle, UniqueIds, ShownSecretsWork

\* A step of one call that puts nothing else into its knowledge, and no secret
\* into the table that is not stored then, keeps the invariant.
LEMMA SoundKept ==
  ASSUME RegistryInv, NEW o \in Ops, NEW p, Become(o, p), Sound(p, issued', stored'),
         issued' \in Nat, issued <= issued', stored \subseteq stored',
         stored' \subseteq 1..issued', rows' \subseteq Row,
         \A x \in rows' : x.hashed_secret \in stored',
         UniqueIds', ShownSecretsWork'
  PROVE  RegistryInv'
<1>1. op'[o] = p /\ DOMAIN op' = Ops /\ \A s \in Ops \ {o} : op'[s] = op[s]
  BY DEF Become, RegistryInv
<1>2. ASSUME NEW s \in Ops PROVE Sound(op'[s], issued', stored')
  <2>1. CASE s = o
    BY <1>1, <2>1 DEF Sound
  <2>2. CASE s # o
    <3>1. 1..issued \subseteq 1..issued'
      BY DEF RegistryInv
    <3>2. op'[s] = op[s] /\ Sound(op[s], issued, stored)
      BY <1>1, <2>2 DEF RegistryInv
    <3>3. QED
      BY <3>1, <3>2 DEF Sound
  <2>3. QED
    BY <2>1, <2>2
<1>3. QED
  BY <1>1, <1>2 DEF RegistryInv

\* Reading a row for an update leaves a well-formed copy of it.
LEMMA EditKeeps ==
  ASSUME RegistryInv, NEW o \in Ops, NEW x \in rows, NEW col \in Columns,
         NEW v \in Column[col], Edit(o, x, col, v),
         issued' \in Nat, issued <= issued',
         col = "hashed_secret" => v = issued + 1 /\ issued' = issued + 1
  PROVE  RegistryInv'
<1> DEFINE y == [x EXCEPT ![col] = v]
           p == [pc |-> "update", seen |-> x, mine |-> y, col |-> col]
<1>1. x \in Row /\ x.hashed_secret \in 1..issued /\ issued \in Nat
  BY DEF RegistryInv
<1>2. y \in Row /\ y.hashed_secret = IF col = "hashed_secret" THEN v ELSE x.hashed_secret
  <2>1. CASE col = "is_active"
    BY <1>1, <2>1 DEF Row, Column
  <2>2. CASE col = "rate_limit"
    BY <1>1, <2>2 DEF Row, Column
  <2>3. CASE col = "hashed_secret"
    BY <1>1, <2>3 DEF Row, Column
  <2>4. QED
    BY <2>1, <2>2, <2>3 DEF Columns, Column
<1>3. Become(o, p) /\ UNCHANGED <<rows, stored, handed>>
  BY DEF Edit
<1>4. p.pc = "update" /\ p.seen = x /\ p.mine = y /\ p.col = col
  OBVIOUS
<1> HIDE DEF p, y
<1>5. Sound(p, issued', stored')
  <2>1. y.hashed_secret \in 1..issued'
    BY <1>1, <1>2
  <2>2. col = "hashed_secret" => y.hashed_secret # x.hashed_secret
    BY <1>1, <1>2
  <2>3. QED
    BY <1>2, <1>4, <2>1, <2>2 DEF Sound
<1>6. stored' \subseteq 1..issued'
  BY <1>3 DEF RegistryInv
<1>7. /\ rows' \subseteq Row /\ \A z \in rows' : z.hashed_secret \in stored'
      /\ UniqueIds' /\ ShownSecretsWork'
  BY <1>3 DEF RegistryInv, UniqueIds, ShownSecretsWork
<1>8. QED
  BY <1>3, <1>5, <1>6, <1>7, SoundKept

\* What a commit does: it writes its copy into the row it read, as that row is
\* now, and the call has nothing left to write.  A rotation stores its secret,
\* which differs from the one it read; another call stores none.
LEMMA CommitShape ==
  ASSUME RegistryInv, NEW o \in Ops, UpdateCommit(o)
  PROVE  /\ op[o].pc = "update" /\ op[o].mine \in Row /\ op[o].col \in Columns
         /\ op[o].mine.hashed_secret \in 1..issued
         /\ \E x \in rows : /\ x.key = op[o].seen.key
                            /\ rows' = (rows \ {x}) \cup {Written(op[o], x)}
         /\ op[o].col = "hashed_secret" => stored' = stored \cup {op[o].mine.hashed_secret}
         /\ op[o].col # "hashed_secret" => stored' = stored
         /\ UNCHANGED <<issued, handed>>
         /\ op'[o].pc \notin {"insert", "update"}
         /\ op'[o].pc = "show" =>
              op[o].col = "hashed_secret" /\ op'[o].secret = op[o].mine.hashed_secret
         /\ DOMAIN op' = Ops /\ \A s \in Ops \ {o} : op'[s] = op[s]
<1> DEFINE p == op[o]
<1>1. /\ p.pc = "update" /\ p.mine \in Row /\ p.mine.hashed_secret \in 1..issued
      /\ p.col \in Columns
      /\ p.col = "hashed_secret" => p.mine.hashed_secret # p.seen.hashed_secret
  BY DEF UpdateCommit, RegistryInv, Sound
<1>2. PICK x \in rows :
        /\ x.key = p.seen.key
        /\ rows' = (rows \ {x}) \cup {Written(p, x)}
        /\ op' = [op EXCEPT ![o] =
              CASE p.col = "hashed_secret" -> [pc |-> "show", secret |-> p.mine.hashed_secret]
                [] p.col = "is_active" ->
                     [pc |-> "reload", asked |-> p.mine.is_active,
                      left |-> Written(p, x).is_active]
                [] p.col = "rate_limit" -> Idle]
        /\ stored' = stored \cup {Written(p, x).hashed_secret}
        /\ UNCHANGED <<issued, handed>>
  BY DEF UpdateCommit, Become
<1> DEFINE q == op'[o]
<1>3. /\ q.pc \notin {"insert", "update"}
      /\ q.pc = "show" => p.col = "hashed_secret" /\ q.secret = p.mine.hashed_secret
  <2>1. q = CASE p.col = "hashed_secret" -> [pc |-> "show", secret |-> p.mine.hashed_secret]
              [] p.col = "is_active" ->
                   [pc |-> "reload", asked |-> p.mine.is_active,
                    left |-> Written(p, x).is_active]
              [] p.col = "rate_limit" -> Idle
    BY <1>2 DEF RegistryInv
  <2>2. CASE p.col = "hashed_secret"
    BY <1>2, <2>1, <2>2
  <2>3. CASE p.col = "is_active"
    BY <2>1, <2>3
  <2>4. CASE p.col = "rate_limit"
    BY <2>1, <2>4 DEF Idle
  <2>5. QED
    BY <1>1, <2>2, <2>3, <2>4 DEF Columns, Column
<1>4. DOMAIN op' = Ops /\ \A s \in Ops \ {o} : op'[s] = op[s]
  BY <1>2 DEF RegistryInv
<1>5. x \in Row /\ x.hashed_secret \in stored
  BY DEF RegistryInv
<1>6. p.col = "hashed_secret" => Written(p, x).hashed_secret = p.mine.hashed_secret
  BY <1>1, <1>5 DEF Written, Row
<1>7. p.col # "hashed_secret" => Written(p, x).hashed_secret = x.hashed_secret
  BY <1>1, <1>5, WrittenKeeps DEF Columns, Column
<1>8. /\ p.col = "hashed_secret" => stored' = stored \cup {p.mine.hashed_secret}
      /\ p.col # "hashed_secret" => stored' = stored
  BY <1>2, <1>5, <1>6, <1>7
<1>9. QED
  BY <1>1, <1>2, <1>3, <1>4, <1>8

\* Every step keeps it; the two commits are the ones that change rows.
LEMMA RegistryStep == RegistryInv /\ [Next]_vars => RegistryInv'
<1> SUFFICES ASSUME RegistryInv, [Next]_vars PROVE RegistryInv'
  OBVIOUS
<1>0. /\ rows \subseteq Row /\ issued \in Nat /\ stored \subseteq 1..issued
      /\ \A x \in rows : x.hashed_secret \in stored
      /\ UniqueIds /\ ShownSecretsWork
  BY DEF RegistryInv
<1>1. ASSUME NEW o \in Ops, NEW id \in Ids, NEW limit \in Limits, CreateRead(o, id, limit)
      PROVE  RegistryInv'
  <2> DEFINE x == [key |-> issued + 1, id |-> id, is_active |-> TRUE, rate_limit |-> limit,
                   hashed_secret |-> issued + 1]
             p == [pc |-> "insert", mine |-> x]
  <2>1. x \in Row /\ x.hashed_secret = issued + 1
    BY <1>0, <1>1, RegistryAssumption DEF CreateRead, Row, Secrets
  <2>2. Become(o, p) /\ UNCHANGED <<rows, stored, handed>> /\ issued' = issued + 1
    BY <1>1 DEF CreateRead
  <2>3. p.pc = "insert" /\ p.mine = x
    OBVIOUS
  <2> HIDE DEF p, x
  <2>4. Sound(p, issued', stored')
    BY <1>0, <2>1, <2>2, <2>3 DEF Sound
  <2>5. stored' \subseteq 1..issued'
    BY <1>0, <2>2
  <2>6. UniqueIds' /\ ShownSecretsWork'
    BY <1>0, <2>2 DEF UniqueIds, ShownSecretsWork
  <2>7. QED
    BY <1>0, <2>2, <2>4, <2>5, <2>6, SoundKept
<1>2. ASSUME NEW o \in Ops, CreateCommit(o) PROVE RegistryInv'
  <2> DEFINE x == op[o].mine
             p == [pc |-> "show", secret |-> x.hashed_secret]
  <2>1. /\ x \in Row /\ x.hashed_secret \in 1..issued
        /\ ~\E y \in rows : y.id = x.id
        /\ rows' = rows \cup {x}
        /\ stored' = stored \cup {x.hashed_secret}
        /\ Become(o, p) /\ UNCHANGED <<issued, handed>>
    BY <1>2 DEF CreateCommit, RegistryInv, Sound
  <2>2. p.pc = "show" /\ p.secret = x.hashed_secret
    OBVIOUS
  <2> HIDE DEF p, x
  <2>3. Sound(p, issued', stored')
    BY <2>1, <2>2 DEF Sound
  <2>4. UniqueIds' /\ ShownSecretsWork'
    BY <1>0, <2>1 DEF UniqueIds, ShownSecretsWork
  <2>5. /\ issued' = issued /\ stored \subseteq stored' /\ stored' \subseteq 1..issued'
        /\ rows' \subseteq Row /\ \A z \in rows' : z.hashed_secret \in stored'
    BY <1>0, <2>1
  <2>6. QED
    BY <1>0, <2>1, <2>3, <2>4, <2>5, SoundKept
<1>3. ASSUME NEW o \in Ops, UpdateCommit(o) PROVE RegistryInv'
  <2> DEFINE p == op[o]
             q == op'[o]
  <2>1. /\ p.mine \in Row /\ p.col \in Columns /\ p.mine.hashed_secret \in 1..issued
        /\ p.col = "hashed_secret" => stored' = stored \cup {p.mine.hashed_secret}
        /\ p.col # "hashed_secret" => stored' = stored
        /\ UNCHANGED <<issued, handed>>
    BY <1>3, CommitShape
  <2>2. PICK x \in rows : /\ rows' = (rows \ {x}) \cup {Written(p, x)}
                          /\ stored' = stored \cup {Written(p, x).hashed_secret}
    BY <1>3 DEF UpdateCommit
  <2>3. Written(p, x) \in Row /\ Written(p, x).id = x.id
    BY <1>0, <2>1, WrittenKeeps
  <2>4. Become(o, q)
    BY <1>3 DEF UpdateCommit, Become, RegistryInv
  <2>5. Sound(q, issued', stored')
    BY <1>3, <2>1, CommitShape DEF Sound
  <2>6. /\ stored \subseteq stored' /\ stored' \subseteq 1..issued'
        /\ rows' \subseteq Row /\ \A z \in rows' : z.hashed_secret \in stored'
    BY <1>0, <2>1, <2>2, <2>3
  <2>7. UniqueIds' /\ ShownSecretsWork'
    BY <1>0, <2>1, <2>2, <2>3, <2>6 DEF UniqueIds, ShownSecretsWork
  <2>8. QED
    BY <1>0, <2>1, <2>4, <2>5, <2>6, <2>7, SoundKept
<1>4. ASSUME NEW o \in Ops, NEW x \in rows, NEW b \in BOOLEAN, SetStatus(o, x, b)
      PROVE  RegistryInv'
  BY <1>0, <1>4, EditKeeps DEF SetStatus, Columns, Column
<1>5. ASSUME NEW o \in Ops, NEW x \in rows, NEW n \in Limits, SetRateLimit(o, x, n)
      PROVE  RegistryInv'
  BY <1>0, <1>5, EditKeeps DEF SetRateLimit, Columns, Column
<1>6. ASSUME NEW o \in Ops, NEW x \in rows, RotateSecret(o, x) PROVE RegistryInv'
  <2>1. "hashed_secret" \in Columns
    BY DEF Columns, Column
  <2>2. issued + 1 \in Column["hashed_secret"]
    BY <1>0, <1>6, RegistryAssumption DEF RotateSecret, Column, Secrets
  <2>3. QED
    BY <1>0, <1>6, <2>1, <2>2, EditKeeps DEF RotateSecret
<1>7. ASSUME NEW o \in Ops, Become(o, Idle), UNCHANGED <<rows, issued, stored>>,
             handed' \subseteq stored
      PROVE  RegistryInv'
  <2>1. Sound(Idle, issued', stored')
    BY DEF Sound, Idle
  <2>2. UniqueIds' /\ ShownSecretsWork'
    BY <1>0, <1>7 DEF UniqueIds, ShownSecretsWork
  <2>3. QED
    BY <1>0, <1>7, <2>1, <2>2, SoundKept
<1>8. ASSUME NEW o \in Ops, CreateConflict(o) \/ Show(o) \/ Reload(o) \/ Abort(o)
      PROVE  RegistryInv'
  BY <1>0, <1>7, <1>8 DEF CreateConflict, Show, Reload, Abort, RegistryInv, Sound,
                          ShownSecretsWork
<1>9. CASE UNCHANGED vars
  BY <1>9 DEF vars, RegistryInv, Sound, UniqueIds, ShownSecretsWork
<1>10. QED
  BY <1>1, <1>2, <1>3, <1>4, <1>5, <1>6, <1>8, <1>9 DEF Next

\* A client_id names one row, however creations race between their check and
\* their insert.
THEOREM IdsUnique == Spec => []UniqueIds
<1>1. RegistryInv => UniqueIds
  BY DEF RegistryInv
<1>2. QED
  BY <1>1, RegistryInit, RegistryStep, PTL DEF Spec

\* A secret an admin was shown had become the secret of a row, however many
\* calls overlap and whatever they carry.
THEOREM SecretsStored == Spec => []ShownSecretsWork
<1>1. RegistryInv => ShownSecretsWork
  BY DEF RegistryInv
<1>2. QED
  BY <1>1, RegistryInit, RegistryStep, PTL DEF Spec

-----------------------------------------------------------------------------

\* The body of ColumnsKept: what a step may do to a row.
KeepsColumns ==
  \A x \in rows : \E y \in rows' :
    /\ y.key = x.key /\ y.id = x.id
    /\ \A col \in Columns : y[col] = x[col] \/
         \E o \in Ops : /\ op[o].pc = "update" /\ op'[o].pc # "update"
                        /\ op[o].seen.key = x.key
                        /\ op[o].col = col /\ op[o].mine[col] = y[col]

\* A commit changes the one column its call was asked to change.
LEMMA CommitKeepsColumns ==
  ASSUME RegistryInv, NEW o \in Ops, UpdateCommit(o)
  PROVE  KeepsColumns
<1> DEFINE p == op[o]
<1>1. p.pc = "update" /\ p.mine \in Row /\ p.col \in Columns /\ op'[o].pc # "update"
  BY CommitShape
<1>2. PICK x \in rows : /\ x.key = p.seen.key
                        /\ rows' = (rows \ {x}) \cup {Written(p, x)}
  BY CommitShape
<1>3. ASSUME NEW z \in rows, z # x
      PROVE  z \in rows'
  BY <1>2, <1>3
<1> DEFINE y == Written(p, x)
<1>4. x \in Row
  BY DEF RegistryInv
<1>5. y \in rows' /\ y.key = x.key /\ y.id = x.id
  BY <1>1, <1>2, <1>4, WrittenKeeps
<1>6. ASSUME NEW col \in Columns, y[col] # x[col]
      PROVE  p.col = col /\ p.mine[col] = y[col]
  <2>1. p.col = col
    BY <1>1, <1>4, <1>6, WrittenKeeps
  <2>2. y # x
    BY <1>6
  <2>3. y = [x EXCEPT ![p.col] = p.mine[p.col]]
    BY <2>2 DEF Written
  <2>4. p.col \in DOMAIN x
    BY <1>1, <1>4 DEF Row, Columns, Column
  <2>5. QED
    BY <2>1, <2>3, <2>4
<1> HIDE DEF y
<1>7. QED
  BY <1>1, <1>2, <1>3, <1>5, <1>6 DEF KeepsColumns

\* No other step takes a row away or changes it.
LEMMA StepKeepsColumns == RegistryInv /\ [Next]_vars => [KeepsColumns]_vars
<1> SUFFICES ASSUME RegistryInv, Next PROVE KeepsColumns
  OBVIOUS
<1>1. ASSUME rows \subseteq rows' PROVE KeepsColumns
  BY <1>1 DEF KeepsColumns
<1>2. ASSUME NEW o \in Ops, UpdateCommit(o) PROVE KeepsColumns
  BY <1>2, CommitKeepsColumns
<1>3. ASSUME ~\E o \in Ops : UpdateCommit(o) PROVE rows \subseteq rows'
  BY <1>3 DEF Next, CreateRead, CreateCommit, CreateConflict, SetStatus, SetRateLimit,
              RotateSecret, Edit, Show, Reload, Abort
<1>4. QED
  BY <1>1, <1>2, <1>3

\* No update is lost: a step changes a row in the one column of a call that
\* commits, whatever that call read and however many others run.
THEOREM NoLostUpdate == Spec => ColumnsKept
<1>1. RegistryInv /\ [Next]_vars => [KeepsColumns]_vars
  BY StepKeepsColumns
<1>2. Spec => [][KeepsColumns]_vars
  BY <1>1, RegistryInit, RegistryStep, PTL DEF Spec
<1>3. QED
  BY <1>2 DEF ColumnsKept, KeepsColumns

-----------------------------------------------------------------------------

\* Calls hold no secret that was not generated.
Held(p, n) ==
  /\ p.pc \in {"insert", "update"} => p.mine.hashed_secret \in 1..n
  /\ p.pc = "show" => p.secret \in 1..n

TypeInv == TypeOK /\ \A o \in Ops : Held(op[o], issued)

\* A step that changes one call's knowledge, and the table and histories within
\* their types, keeps the types.
LEMMA TypeKept ==
  ASSUME RegistryInv, TypeInv, NEW o \in Ops,
         \A s \in Ops \ {o} : op'[s] = op[s],
         IsOp(op'[o]), Held(op'[o], issued'), rows' \subseteq Row,
         issued' \in issued..MaxSecrets,
         stored' \subseteq 1..issued', handed' \subseteq 1..issued'
  PROVE  TypeInv'
<1>1. issued \in 0..MaxSecrets
  BY DEF TypeInv, TypeOK
<1>2. ASSUME NEW s \in Ops PROVE IsOp(op'[s]) /\ Held(op'[s], issued')
  <2>1. CASE s = o
    BY <2>1
  <2>2. CASE s # o
    BY <1>1, <2>2, RegistryAssumption DEF TypeInv, TypeOK, IsOp, Held
  <2>3. QED
    BY <2>1, <2>2
<1>3. QED
  BY <1>1, <1>2, RegistryAssumption DEF TypeInv, TypeOK

\* The step of a call changes what that call knows, and nobody else.
LEMMA Becomes ==
  ASSUME RegistryInv, NEW o \in Ops
  PROVE  \A p : Become(o, p) => op'[o] = p /\ \A s \in Ops \ {o} : op'[s] = op[s]
BY DEF Become, RegistryInv

\* Every step keeps the types.
LEMMA TypeStep == RegistryInv /\ TypeInv /\ [Next]_vars => TypeInv'
<1> SUFFICES ASSUME RegistryInv, TypeInv, [Next]_vars PROVE TypeInv'
  OBVIOUS
<1> USE RegistryAssumption
<1>1. /\ issued \in 0..MaxSecrets /\ rows \subseteq Row
      /\ stored \subseteq 1..issued /\ handed \subseteq 1..issued
      /\ \A x \in rows : x.hashed_secret \in 1..issued
      /\ \A o \in Ops : IsOp(op[o]) /\ Held(op[o], issued)
  BY DEF TypeInv, TypeOK, RegistryInv
<1>2. ASSUME NEW o \in Ops, NEW id \in Ids, NEW limit \in Limits, CreateRead(o, id, limit)
      PROVE  TypeInv'
  <2> DEFINE x == [key |-> issued + 1, id |-> id, is_active |-> TRUE, rate_limit |-> limit,
                   hashed_secret |-> issued + 1]
             p == [pc |-> "insert", mine |-> x]
  <2>1. issued' = issued + 1 /\ issued' \in issued..MaxSecrets /\ issued' \in Secrets
    BY <1>1, <1>2 DEF CreateRead, Secrets
  <2>2. x \in Row /\ x.hashed_secret \in 1..issued'
    BY <1>1, <2>1 DEF Row
  <2>3. Become(o, p) /\ UNCHANGED <<rows, stored, handed>>
    BY <1>2 DEF CreateRead
  <2> HIDE DEF x
  <2>4. IsOp(p) /\ Held(p, issued')
    BY <2>2 DEF IsOp, Held
  <2> HIDE DEF p
  <2>5. stored' \subseteq 1..issued' /\ handed' \subseteq 1..issued'
    BY <1>1, <2>1, <2>3
  <2>6. QED
    BY <1>1, <2>1, <2>3, <2>4, <2>5, Becomes, TypeKept
<1>3. ASSUME NEW o \in Ops, CreateCommit(o) PROVE TypeInv'
  <2> DEFINE p == [pc |-> "show", secret |-> op[o].mine.hashed_secret]
  <2>1. op[o].pc = "insert" /\ op[o].mine \in Row
    BY <1>3 DEF CreateCommit, RegistryInv, Sound
  <2>2. op[o].mine.hashed_secret \in 1..issued
    BY <1>1, <2>1 DEF Held
  <2>3. /\ Become(o, p) /\ rows' = rows \cup {op[o].mine}
        /\ stored' = stored \cup {op[o].mine.hashed_secret} /\ UNCHANGED <<issued, handed>>
    BY <1>3 DEF CreateCommit
  <2>4. IsOp(p) /\ Held(p, issued')
    BY <1>1, <2>2, <2>3 DEF IsOp, Held, Secrets
  <2> HIDE DEF p
  <2>5. issued' \in issued..MaxSecrets
    BY <1>1, <2>3
  <2>6. rows' \subseteq Row /\ stored' \subseteq 1..issued' /\ handed' \subseteq 1..issued'
    BY <1>1, <2>1, <2>2, <2>3
  <2>7. QED
    BY <2>3, <2>4, <2>5, <2>6, Becomes, TypeKept
<1>4. ASSUME NEW o \in Ops, NEW x \in rows, NEW col \in Columns, NEW v \in Column[col],
             Edit(o, x, col, v), issued' \in issued..MaxSecrets,
             col = "hashed_secret" => v \in 1..issued'
      PROVE  TypeInv'
  <2> DEFINE y == [x EXCEPT ![col] = v]
             p == [pc |-> "update", seen |-> x, mine |-> y, col |-> col]
  <2>1. x \in Row /\ x.hashed_secret \in 1..issued'
    BY <1>1, <1>4
  <2>2. y \in Row /\ y.hashed_secret \in 1..issued'
    <3>1. CASE col = "is_active"
      BY <1>4, <2>1, <3>1 DEF Row, Column
    <3>2. CASE col = "rate_limit"
      BY <1>4, <2>1, <3>2 DEF Row, Column
    <3>3. CASE col = "hashed_secret"
      BY <1>4, <2>1, <3>3 DEF Row, Column
    <3>4. QED
      BY <3>1, <3>2, <3>3 DEF Columns, Column
  <2>3. Become(o, p) /\ UNCHANGED <<rows, stored, handed>>
    BY <1>4 DEF Edit
  <2> HIDE DEF y
  <2>4. IsOp(p) /\ Held(p, issued')
    BY <2>1, <2>2 DEF IsOp, Held
  <2> HIDE DEF p
  <2>5. stored' \subseteq 1..issued' /\ handed' \subseteq 1..issued'
    BY <1>1, <1>4, <2>3
  <2>6. QED
    BY <1>1, <1>4, <2>3, <2>4, <2>5, Becomes, TypeKept
<1>5. ASSUME NEW o \in Ops, NEW x \in rows, NEW b \in BOOLEAN, SetStatus(o, x, b)
      PROVE  TypeInv'
  <2>1. "is_active" \in Columns /\ b \in Column["is_active"]
    BY DEF Columns, Column
  <2>2. Edit(o, x, "is_active", b) /\ issued' \in issued..MaxSecrets
    BY <1>1, <1>5 DEF SetStatus
  <2>3. QED
    BY <1>4, <2>1, <2>2
<1>6. ASSUME NEW o \in Ops, NEW x \in rows, NEW n \in Limits, SetRateLimit(o, x, n)
      PROVE  TypeInv'
  <2>1. "rate_limit" \in Columns /\ n \in Column["rate_limit"]
    BY DEF Columns, Column
  <2>2. Edit(o, x, "rate_limit", n) /\ issued' \in issued..MaxSecrets
    BY <1>1, <1>6 DEF SetRateLimit
  <2>3. QED
    BY <1>4, <2>1, <2>2
<1>7. ASSUME NEW o \in Ops, NEW x \in rows, RotateSecret(o, x) PROVE TypeInv'
  <2>1. issued' = issued + 1 /\ issued' \in issued..MaxSecrets /\ issued + 1 \in 1..issued'
    BY <1>1, <1>7 DEF RotateSecret
  <2>2. "hashed_secret" \in Columns /\ issued + 1 \in Column["hashed_secret"]
    BY <1>1, <2>1 DEF Columns, Column, Secrets
  <2>3. Edit(o, x, "hashed_secret", issued + 1)
    BY <1>7 DEF RotateSecret
  <2>4. QED
    BY <1>4, <2>1, <2>2, <2>3
<1>8. ASSUME NEW o \in Ops, UpdateCommit(o) PROVE TypeInv'
  <2>1. /\ op[o].pc = "update" /\ op[o].mine \in Row /\ op[o].col \in Columns
        /\ op[o].mine.hashed_secret \in 1..issued
    BY <1>1, <1>8, CommitShape DEF Held
  <2>2. PICK x \in rows :
          /\ rows' = (rows \ {x}) \cup {Written(op[o], x)}
          /\ Become(o, CASE op[o].col = "hashed_secret" ->
                              [pc |-> "show", secret |-> op[o].mine.hashed_secret]
                          [] op[o].col = "is_active" ->
                              [pc |-> "reload", asked |-> op[o].mine.is_active,
                               left |-> Written(op[o], x).is_active]
                          [] op[o].col = "rate_limit" -> Idle)
    BY <1>8 DEF UpdateCommit
  <2>3. /\ stored' \subseteq stored \cup {op[o].mine.hashed_secret}
        /\ UNCHANGED <<issued, handed>>
    BY <1>8, CommitShape
  <2>4. Written(op[o], x) \in Row
    BY <1>1, <2>1, WrittenKeeps
  <2>5. issued' \in issued..MaxSecrets /\ rows' \subseteq Row
        /\ stored' \subseteq 1..issued' /\ handed' \subseteq 1..issued'
    BY <1>1, <2>1, <2>2, <2>3, <2>4
  <2>6. CASE op[o].col = "hashed_secret"
    <3> DEFINE p == [pc |-> "show", secret |-> op[o].mine.hashed_secret]
    <3>1. Become(o, p)
      BY <2>2, <2>6
    <3>2. IsOp(p) /\ Held(p, issued')
      BY <1>1, <2>1, <2>3 DEF IsOp, Held, Secrets
    <3> HIDE DEF p
    <3>3. QED
      BY <2>5, <3>1, <3>2, Becomes, TypeKept
  <2>7. CASE op[o].col = "is_active"
    <3> DEFINE p == [pc |-> "reload", asked |-> op[o].mine.is_active,
                     left |-> Written(op[o], x).is_active]
    <3>1. Become(o, p)
      BY <2>2, <2>7
    <3>2. IsOp(p) /\ Held(p, issued')
      BY <2>1, <2>4 DEF IsOp, Held, Row
    <3> HIDE DEF p
    <3>3. QED
      BY <2>5, <3>1, <3>2, Becomes, TypeKept
  <2>8. CASE op[o].col = "rate_limit"
    <3>1. Become(o, Idle)
      BY <2>2, <2>8
    <3>2. IsOp(Idle) /\ Held(Idle, issued')
      BY DEF IsOp, Held, Idle
    <3>3. QED
      BY <2>5, <3>1, <3>2, Becomes, TypeKept
  <2>9. QED
    BY <2>1, <2>6, <2>7, <2>8 DEF Columns, Column
<1>9. ASSUME NEW o \in Ops, Become(o, Idle), handed' \subseteq stored,
             UNCHANGED <<rows, issued, stored>>
      PROVE  TypeInv'
  <2>1. IsOp(Idle) /\ Held(Idle, issued')
    BY DEF IsOp, Held, Idle
  <2>2. issued' \in issued..MaxSecrets /\ rows' \subseteq Row
        /\ stored' \subseteq 1..issued' /\ handed' \subseteq 1..issued'
    BY <1>1, <1>9
  <2>3. QED
    BY <1>9, <2>1, <2>2, Becomes, TypeKept
<1>10. ASSUME NEW o \in Ops, CreateConflict(o) \/ Show(o) \/ Reload(o) \/ Abort(o)
       PROVE  TypeInv'
  <2>1. Become(o, Idle) /\ handed' \subseteq stored /\ UNCHANGED <<rows, issued, stored>>
    BY <1>10 DEF CreateConflict, Show, Reload, Abort, RegistryInv, Sound,
                 ShownSecretsWork
  <2>2. QED
    BY <1>9, <2>1
<1>11. CASE UNCHANGED vars
  BY <1>11 DEF vars, TypeInv, TypeOK, IsOp, Held
<1>12. QED
  BY <1>2, <1>3, <1>5, <1>6, <1>7, <1>8, <1>10, <1>11 DEF Next

\* The table and the calls keep their shape, and every secret stored or shown
\* is one that was generated.
THEOREM RegistryTypeCorrect == Spec => []TypeOK
<1>1. Init => TypeInv
  BY RegistryAssumption DEF Init, TypeInv, TypeOK, IsOp, Held, Idle
<1>2. TypeInv => TypeOK
  BY DEF TypeInv
<1>3. QED
  BY <1>1, <1>2, RegistryInit, RegistryStep, TypeStep, PTL DEF Spec

-----------------------------------------------------------------------------

\* A call carries a secret that it generated from then on until the admin has
\* been shown it.
Carrying(p) == p.pc \in {"insert", "show"} \/ (p.pc = "update" /\ p.col = "hashed_secret")
Carried(p) == IF p.pc = "show" THEN p.secret ELSE p.mine.hashed_secret

\* It was not shown yet, nor stored before the commit; what else a call writes
\* to the table is a copy of what was stored.
Carries(p) ==
  /\ Carrying(p) => Carried(p) \notin handed
  /\ Carrying(p) /\ p.pc # "show" => Carried(p) \notin stored
  /\ p.pc = "insert" => p.mine.key = p.mine.hashed_secret /\ p.mine.is_active
  /\ p.pc = "update" => p.seen.hashed_secret \in stored
  /\ p.pc = "update" /\ p.col # "hashed_secret" => p.mine.hashed_secret \in stored

\* And no two calls carry the same one.
SecretInv ==
  /\ \A o \in Ops : Carries(op[o])
  /\ \A o, s \in Ops :
       o # s /\ Carrying(op[o]) /\ Carrying(op[s]) => Carried(op[o]) # Carried(op[s])

\* A carried secret was generated.
LEMMA CarriedGenerated ==
  ASSUME TypeInv, NEW o \in Ops, Carrying(op[o])
  PROVE  Carried(op[o]) \in 1..issued
BY DEF TypeInv, Held, Carrying, Carried

\* A call that stores or shows nothing but the secret it carries, and goes on
\* with that one, a new one or none, leaves the others' secrets alone.
LEMMA SecretsKept ==
  ASSUME TypeInv, SecretInv, NEW o \in Ops, \A s \in Ops \ {o} : op'[s] = op[s],
         stored \subseteq stored', handed \subseteq handed',
         \A c \in (stored' \ stored) \cup (handed' \ handed) :
           Carrying(op[o]) /\ c = Carried(op[o]),
         Carrying(op'[o]) => \/ Carrying(op[o]) /\ Carried(op'[o]) = Carried(op[o])
                             \/ Carried(op'[o]) = issued + 1,
         Carries(op[o])'
  PROVE  SecretInv'
<1>1. issued \in Nat
  BY RegistryAssumption DEF TypeInv, TypeOK
<1>2. ASSUME NEW s \in Ops \ {o} PROVE Carries(op[s])'
  <2>1. Carries(op[s]) /\ op'[s] = op[s]
    BY <1>2 DEF SecretInv
  <2>2. ASSUME Carrying(op[s])
        PROVE  Carried(op[s]) \notin (stored' \ stored) \cup (handed' \ handed)
    BY <2>2 DEF SecretInv
  <2>3. QED
    BY <2>1, <2>2 DEF Carries, Carrying, Carried
<1>3. ASSUME NEW s \in Ops \ {o}, Carrying(op[s]), Carrying(op'[o])
      PROVE  Carried(op[s]) # Carried(op'[o])
  <2>1. Carried(op[s]) # issued + 1
    BY <1>1, <1>3, CarriedGenerated
  <2>2. Carrying(op[o]) => Carried(op[s]) # Carried(op[o])
    BY <1>3 DEF SecretInv
  <2>3. QED
    BY <1>3, <2>1, <2>2
<1>4. \A s \in Ops : Carries(op[s])'
  BY <1>2
<1>5. ASSUME NEW s \in Ops, NEW t \in Ops, s # t, Carrying(op'[s]), Carrying(op'[t])
      PROVE  Carried(op'[s]) # Carried(op'[t])
  <2>1. CASE s = o
    BY <1>3, <1>5, <2>1
  <2>2. CASE t = o
    BY <1>3, <1>5, <2>2
  <2>3. CASE s # o /\ t # o
    BY <1>5, <2>3 DEF SecretInv
  <2>4. QED
    BY <2>1, <2>2, <2>3
<1>6. \A s, t \in Ops :
        (s # t /\ Carrying(op[s]) /\ Carrying(op[t]) => Carried(op[s]) # Carried(op[t]))'
  BY <1>5 DEF Carrying, Carried
<1>7. QED
  BY <1>4, <1>6 DEF SecretInv

\* Every step keeps the carried secrets secret and apart.
LEMMA SecretStep == RegistryInv /\ TypeInv /\ SecretInv /\ [Next]_vars => SecretInv'
<1> SUFFICES ASSUME RegistryInv, TypeInv, SecretInv, [Next]_vars PROVE SecretInv'
  OBVIOUS
<1>1. /\ issued \in Nat /\ stored \subseteq 1..issued /\ handed \subseteq 1..issued
      /\ \A x \in rows : x.hashed_secret \in stored
      /\ \A o \in Ops : Carries(op[o])
  BY RegistryAssumption DEF TypeInv, TypeOK, RegistryInv, SecretInv
<1>1a. issued + 1 \notin stored /\ issued + 1 \notin handed
  BY <1>1
<1>2. ASSUME NEW o \in Ops, NEW id \in Ids, NEW limit \in Limits, CreateRead(o, id, limit)
      PROVE  SecretInv'
  <2> DEFINE x == [key |-> issued + 1, id |-> id, is_active |-> TRUE, rate_limit |-> limit,
                   hashed_secret |-> issued + 1]
             p == [pc |-> "insert", mine |-> x]
  <2>1. Become(o, p) /\ UNCHANGED <<rows, stored, handed>>
    BY <1>2 DEF CreateRead
  <2>2. /\ p.pc = "insert" /\ p.mine.hashed_secret = issued + 1
        /\ p.mine.key = issued + 1 /\ p.mine.is_active
    OBVIOUS
  <2> HIDE DEF p, x
  <2>3. op'[o] = p /\ \A s \in Ops \ {o} : op'[s] = op[s]
    BY <2>1, Becomes
  <2>4. Carrying(p) /\ Carried(p) = issued + 1
    BY <2>2 DEF Carrying, Carried
  <2>5. Carries(op[o])'
    BY <1>1a, <2>1, <2>2, <2>3 DEF Carries, Carrying, Carried
  <2>6. QED
    BY <2>1, <2>3, <2>4, <2>5, SecretsKept
<1>3. ASSUME NEW o \in Ops, CreateCommit(o) PROVE SecretInv'
  <2> DEFINE p == [pc |-> "show", secret |-> op[o].mine.hashed_secret]
  <2>1. /\ Become(o, p) /\ stored' = stored \cup {op[o].mine.hashed_secret}
        /\ UNCHANGED handed /\ op[o].pc = "insert"
    BY <1>3 DEF CreateCommit
  <2>2. p.pc = "show" /\ p.secret = op[o].mine.hashed_secret
    OBVIOUS
  <2> HIDE DEF p
  <2>3. op'[o] = p /\ \A s \in Ops \ {o} : op'[s] = op[s]
    BY <2>1, Becomes
  <2>4. /\ Carrying(op[o]) /\ Carried(op[o]) = op[o].mine.hashed_secret
        /\ Carried(p) = op[o].mine.hashed_secret
    BY <2>1, <2>2 DEF Carrying, Carried
  <2>5. Carries(op[o])'
    BY <1>1, <2>1, <2>2, <2>3, <2>4 DEF Carries, Carrying, Carried
  <2>6. QED
    BY <2>1, <2>3, <2>4, <2>5, SecretsKept
<1>4. ASSUME NEW o \in Ops, NEW x \in rows, NEW col \in Columns, NEW v,
             Edit(o, x, col, v), col = "hashed_secret" => v = issued + 1
      PROVE  SecretInv'
  <2> DEFINE y == [x EXCEPT ![col] = v]
             p == [pc |-> "update", seen |-> x, mine |-> y, col |-> col]
  <2>1. Become(o, p) /\ UNCHANGED <<rows, stored, handed>>
    BY <1>4 DEF Edit
  <2>2. x \in Row
    BY DEF RegistryInv
  <2>3. y.hashed_secret = IF col = "hashed_secret" THEN issued + 1 ELSE x.hashed_secret
    BY <1>4, <2>2 DEF Row, Columns, Column
  <2>4. p.pc = "update" /\ p.seen = x /\ p.mine = y /\ p.col = col
    OBVIOUS
  <2> HIDE DEF p, y
  <2>5. op'[o] = p /\ \A s \in Ops \ {o} : op'[s] = op[s]
    BY <2>1, Becomes
  <2>6. Carrying(p) => Carried(p) = issued + 1
    BY <2>3, <2>4 DEF Carrying, Carried
  <2>7. Carries(op[o])'
    BY <1>1, <1>1a, <2>1, <2>3, <2>4, <2>5 DEF Carries, Carrying, Carried
  <2>8. QED
    BY <2>1, <2>5, <2>6, <2>7, SecretsKept
<1>5. ASSUME NEW o \in Ops, NEW x \in rows, NEW b \in BOOLEAN, SetStatus(o, x, b)
      PROVE  SecretInv'
  BY <1>4, <1>5 DEF SetStatus, Columns, Column
<1>6. ASSUME NEW o \in Ops, NEW x \in rows, NEW n \in Limits, SetRateLimit(o, x, n)
      PROVE  SecretInv'
  BY <1>4, <1>6 DEF SetRateLimit, Columns, Column
<1>7. ASSUME NEW o \in Ops, NEW x \in rows, RotateSecret(o, x) PROVE SecretInv'
  BY <1>4, <1>7 DEF RotateSecret, Columns, Column
<1>8. ASSUME NEW o \in Ops, UpdateCommit(o) PROVE SecretInv'
  <2>1. /\ op[o].pc = "update" /\ op[o].col \in Columns
        /\ op[o].col = "hashed_secret" => stored' = stored \cup {op[o].mine.hashed_secret}
        /\ op[o].col # "hashed_secret" => stored' = stored
        /\ UNCHANGED handed
        /\ op'[o].pc \notin {"insert", "update"}
        /\ op'[o].pc = "show" =>
             op[o].col = "hashed_secret" /\ op'[o].secret = op[o].mine.hashed_secret
        /\ \A s \in Ops \ {o} : op'[s] = op[s]
    BY <1>8, CommitShape
  <2>2. op[o].col = "hashed_secret" =>
          Carrying(op[o]) /\ Carried(op[o]) = op[o].mine.hashed_secret
    BY <2>1 DEF Carrying, Carried
  <2>4. Carrying(op'[o]) => Carrying(op[o]) /\ Carried(op'[o]) = Carried(op[o])
    BY <2>1, <2>2 DEF Carrying, Carried
  <2>5. Carries(op[o])'
    BY <1>1, <2>1, <2>2 DEF Carries, Carrying, Carried
  <2>6. \A c \in (stored' \ stored) \cup (handed' \ handed) :
          Carrying(op[o]) /\ c = Carried(op[o])
    BY <2>1, <2>2
  <2>7. QED
    BY <2>1, <2>4, <2>5, <2>6, SecretsKept
<1>9. ASSUME NEW o \in Ops, Become(o, Idle), UNCHANGED stored, handed \subseteq handed',
             \A c \in handed' \ handed : op[o].pc = "show" /\ c = op[o].secret
      PROVE  SecretInv'
  <2>1. op'[o] = Idle /\ \A s \in Ops \ {o} : op'[s] = op[s]
    BY <1>9, Becomes
  <2>2. ~Carrying(Idle) /\ Idle.pc = "idle"
    BY DEF Carrying, Idle
  <2>3. Carries(op[o])'
    BY <2>1, <2>2 DEF Carries, Carrying
  <2>4. \A c \in (stored' \ stored) \cup (handed' \ handed) :
          Carrying(op[o]) /\ c = Carried(op[o])
    BY <1>9 DEF Carrying, Carried
  <2>5. QED
    BY <1>9, <2>1, <2>2, <2>3, <2>4, SecretsKept
<1>10. ASSUME NEW o \in Ops, CreateConflict(o) \/ Show(o) \/ Reload(o) \/ Abort(o)
       PROVE  SecretInv'
  BY <1>9, <1>10 DEF CreateConflict, Show, Reload, Abort
<1>11. CASE UNCHANGED vars
  BY <1>11 DEF vars, SecretInv, Carries, Carrying, Carried
<1>12. QED
  BY <1>2, <1>3, <1>5, <1>6, <1>7, <1>8, <1>10, <1>11 DEF Next

\* The calls' secrets are apart at all times.
LEMMA SecretsHold == Spec => [](RegistryInv /\ TypeInv /\ SecretInv)
<1>1. Init => TypeInv /\ SecretInv
  BY RegistryAssumption DEF Init, TypeInv, TypeOK, IsOp, Held, Idle, SecretInv,
     Carries, Carrying
<1>2. QED
  BY <1>1, RegistryInit, RegistryStep, TypeStep, SecretStep, PTL DEF Spec

-----------------------------------------------------------------------------

\* What a commit writes: the row unchanged, or its one column, which for a
\* rotation is a secret no row has had and otherwise leaves the secret alone.
LEMMA CommitWrites ==
  ASSUME RegistryInv, SecretInv, NEW o \in Ops, UpdateCommit(o)
  PROVE  \E x \in rows :
           /\ rows' = (rows \ {x}) \cup {Written(op[o], x)}
           /\ UNCHANGED handed
           /\ \/ Written(op[o], x) = x /\ stored' = stored
              \/ \E col \in Columns, v \in Column[op[o].col] :
                   /\ col = op[o].col /\ Written(op[o], x) = [x EXCEPT ![col] = v]
                   /\ col = "hashed_secret" => v \notin stored /\ stored' = stored \cup {v}
                   /\ col # "hashed_secret" => stored' = stored
<1> DEFINE p == op[o]
<1>1. /\ p.pc = "update" /\ p.mine \in Row /\ p.col \in Columns
      /\ p.col = "hashed_secret" => stored' = stored \cup {p.mine.hashed_secret}
      /\ p.col # "hashed_secret" => stored' = stored
      /\ UNCHANGED handed
  BY CommitShape
<1>2. PICK x \in rows : rows' = (rows \ {x}) \cup {Written(p, x)}
  BY CommitShape
<1>3. Carries(p)
  BY DEF SecretInv
<1>4. p.mine[p.col] \in Column[p.col]
  BY <1>1 DEF Row, Columns, Column
<1>6. p.col = "hashed_secret" =>
        /\ p.mine[p.col] \notin stored /\ p.mine[p.col] # p.seen[p.col]
        /\ stored' = stored \cup {p.mine[p.col]}
  BY <1>1, <1>3 DEF Carries, Carrying, Carried
<1>7. CASE p.mine[p.col] = p.seen[p.col]
  BY <1>1, <1>2, <1>6, <1>7 DEF Written
<1>8. CASE p.mine[p.col] # p.seen[p.col]
  <2>1. Written(p, x) = [x EXCEPT ![p.col] = p.mine[p.col]]
    BY <1>8 DEF Written
  <2>2. QED
    BY <1>1, <1>2, <1>4, <1>6, <2>1
<1>9. QED
  BY <1>7, <1>8

\* The body of ReplacedStaysReplaced.
NoSecretReturns ==
  \A y \in rows' : y.hashed_secret \in stored =>
    \E x \in rows : x.key = y.key /\ x.hashed_secret = y.hashed_secret

\* Only the two commits write rows, and what they write is new or was there.
LEMMA StepReturnsNoSecret ==
  RegistryInv /\ SecretInv /\ [Next]_vars => [NoSecretReturns]_vars
<1> SUFFICES ASSUME RegistryInv, SecretInv, Next PROVE NoSecretReturns
  OBVIOUS
<1>1. ASSUME NEW o \in Ops, CreateCommit(o) PROVE NoSecretReturns
  <2>1. op[o].mine.hashed_secret \notin stored /\ rows' = rows \cup {op[o].mine}
    BY <1>1 DEF CreateCommit, SecretInv, Carries, Carrying, Carried
  <2>2. QED
    BY <2>1 DEF NoSecretReturns
<1>2. ASSUME NEW o \in Ops, UpdateCommit(o) PROVE NoSecretReturns
  <2>1. PICK x \in rows :
          /\ rows' = (rows \ {x}) \cup {Written(op[o], x)}
          /\ \/ Written(op[o], x) = x
             \/ \E col \in Columns, v \in Column[op[o].col] :
                  /\ Written(op[o], x) = [x EXCEPT ![col] = v]
                  /\ col = "hashed_secret" => v \notin stored
    BY <1>2, CommitWrites
  <2>2. x \in Row
    BY DEF RegistryInv
  <2>3. LET y == Written(op[o], x)
        IN  y.hashed_secret \in stored => y.key = x.key /\ y.hashed_secret = x.hashed_secret
    BY <2>1, <2>2 DEF Row, Columns, Column
  <2>4. QED
    BY <2>1, <2>3 DEF NoSecretReturns
<1>3. ASSUME ~\E o \in Ops : CreateCommit(o) \/ UpdateCommit(o)
      PROVE  rows' = rows
  BY <1>3 DEF Next, CreateRead, CreateConflict, SetStatus, SetRateLimit,
              RotateSecret, Edit, Show, Reload, Abort
<1>4. QED
  BY <1>1, <1>2, <1>3 DEF NoSecretReturns

\* A replaced secret opens its client, or any other, never again: no commit of
\* a call that still carries an old row brings it back.
THEOREM ReplacedForGood == Spec => ReplacedStaysReplaced
<1>1. RegistryInv /\ TypeInv /\ SecretInv /\ [Next]_vars => [NoSecretReturns]_vars
  BY StepReturnsNoSecret
<1>2. Spec => [][NoSecretReturns]_vars
  BY <1>1, SecretsHold, PTL DEF Spec
<1>3. QED
  BY <1>2 DEF ReplacedStaysReplaced, NoSecretReturns

-----------------------------------------------------------------------------

\* The rows under an id.
RowsOf(id) == {x \in rows : x.id = id}

\* A creation's commit takes a free id and gives it a row.
LEMMA CreateIsAtomic ==
  ASSUME RegistryInv, TypeInv, SecretInv, NEW o \in Ops, CreateCommit(o)
  PROVE  Table!Next
<1>0. PICK x : x = op[o].mine
  OBVIOUS
<1>1. /\ op[o].pc = "insert" /\ x \in Row /\ ~\E y \in rows : y.id = x.id
      /\ rows' = rows \cup {x} /\ stored' = stored \cup {x.hashed_secret}
      /\ UNCHANGED handed
  BY <1>0 DEF CreateCommit, RegistryInv, Sound
<1>2. x.hashed_secret \notin stored /\ x.key = x.hashed_secret /\ x.is_active
  BY <1>0, <1>1 DEF SecretInv, Carries, Carrying, Carried
<1>3. /\ x.id \in Ids /\ x.rate_limit \in Limits /\ x.hashed_secret \in Secrets
      /\ x = [key |-> x.hashed_secret, id |-> x.id, is_active |-> TRUE,
              rate_limit |-> x.rate_limit, hashed_secret |-> x.hashed_secret]
  BY <1>1, <1>2 DEF Row
<1>4. RowsOf(x.id) = {} /\ RowsOf(x.id)' = {x}
  BY <1>1 DEF RowsOf
<1>5. \A id \in Ids \ {x.id} : RowsOf(id)' = RowsOf(id)
  BY <1>1 DEF RowsOf
<1>6. [id \in Ids |-> RowsOf(id)]' = [[id \in Ids |-> RowsOf(id)] EXCEPT ![x.id] = {x}]
  BY <1>3, <1>4, <1>5
<1>7. Table!Create(x.id, x.rate_limit)
  BY <1>1, <1>2, <1>3, <1>4, <1>6 DEF Table!Create, RowsOf
<1>8. QED
  BY <1>3, <1>7 DEF Table!Next

\* Any other commit changes one column of the one row of a client, as that row
\* is at the commit, or nothing.
LEMMA UpdateIsAtomic ==
  ASSUME RegistryInv, TypeInv, SecretInv, NEW o \in Ops, UpdateCommit(o)
  PROVE  Table!Next \/ UNCHANGED Table!tableVars
<1>1. PICK x \in rows :
        /\ rows' = (rows \ {x}) \cup {Written(op[o], x)}
        /\ UNCHANGED handed
        /\ \/ Written(op[o], x) = x /\ stored' = stored
           \/ \E col \in Columns, v \in Column[op[o].col] :
                /\ col = op[o].col /\ Written(op[o], x) = [x EXCEPT ![col] = v]
                /\ col = "hashed_secret" => v \notin stored /\ stored' = stored \cup {v}
                /\ col # "hashed_secret" => stored' = stored
  BY CommitWrites
<1>2. x \in Row /\ x.id \in Ids
  BY DEF RegistryInv, Row
<1>3. CASE Written(op[o], x) = x /\ stored' = stored
  <2>1. rows' = rows
    BY <1>1, <1>3
  <2>2. QED
    BY <1>1, <1>3, <2>1 DEF Table!tableVars
<1>4. ASSUME NEW col \in Columns, NEW v \in Column[col],
             Written(op[o], x) = [x EXCEPT ![col] = v],
             col = "hashed_secret" => v \notin stored /\ stored' = stored \cup {v},
             col # "hashed_secret" => stored' = stored
      PROVE  Table!Next
  <2> DEFINE y == [x EXCEPT ![col] = v]
  <2>1. y.id = x.id
    BY <1>2 DEF Row, Columns, Column
  <2>2. RowsOf(x.id) = {x}
    BY DEF RowsOf, RegistryInv, UniqueIds
  <2>3. rows' = (rows \ {x}) \cup {y}
    BY <1>1, <1>4
  <2> HIDE DEF y
  <2>4. RowsOf(x.id)' = {y} /\ \A id \in Ids \ {x.id} : RowsOf(id)' = RowsOf(id)
    BY <2>1, <2>2, <2>3 DEF RowsOf
  <2>5. [id \in Ids |-> RowsOf(id)]' = [[id \in Ids |-> RowsOf(id)] EXCEPT ![x.id] = {y}]
    BY <1>2, <2>4
  <2>6. [id \in Ids |-> RowsOf(id)][x.id] = {x}
    BY <1>2, <2>2
  <2>7. Table!Change(x.id, col, v)
    BY <2>5, <2>6 DEF Table!Change, RowsOf, y
  <2>8. CASE col = "is_active"
    BY <1>1, <1>2, <1>4, <2>7, <2>8 DEF Table!Next, Table!SetStatus, Column
  <2>9. CASE col = "rate_limit"
    BY <1>1, <1>2, <1>4, <2>7, <2>9 DEF Table!Next, Table!SetRateLimit, Column
  <2>10. CASE col = "hashed_secret"
    BY <1>1, <1>2, <1>4, <2>7, <2>10 DEF Table!Next, Table!Rotate, Column
  <2>11. QED
    BY <2>8, <2>9, <2>10 DEF Columns, Column
<1>5. QED
  BY <1>1, <1>3, <1>4

\* The answer shows a secret that was stored and not shown before.
LEMMA ShowIsAtomic ==
  ASSUME RegistryInv, SecretInv, NEW o \in Ops, Show(o)
  PROVE  Table!Next
<1>1. /\ op[o].secret \in stored \ handed /\ handed' = handed \cup {op[o].secret}
      /\ UNCHANGED <<rows, stored>>
  BY DEF Show, RegistryInv, Sound, SecretInv, Carries, Carrying, Carried
<1>2. QED
  BY <1>1 DEF Table!Next, Table!Show

\* Overlapping calls are atomic: seen through the table, the secrets stored and
\* the secrets shown, every step of a call is one write of one column, one
\* showing of a secret, or nothing.
THEOREM CallsAreAtomic == Spec => ActsAtomically
<1>1. Init => Table!Init
  BY DEF Init, Table!Init
<1>2. RegistryInv /\ TypeInv /\ SecretInv /\ [Next]_vars => [Table!Next]_Table!tableVars
  <2> SUFFICES ASSUME RegistryInv, TypeInv, SecretInv, [Next]_vars
               PROVE  Table!Next \/ UNCHANGED Table!tableVars
    OBVIOUS
  <2>1. ASSUME NEW o \in Ops, CreateCommit(o) PROVE Table!Next
    BY <2>1, CreateIsAtomic
  <2>2. ASSUME NEW o \in Ops, UpdateCommit(o)
        PROVE  Table!Next \/ UNCHANGED Table!tableVars
    BY <2>2, UpdateIsAtomic
  <2>3. ASSUME NEW o \in Ops, Show(o) PROVE Table!Next
    BY <2>3, ShowIsAtomic
  <2>4. ASSUME UNCHANGED <<rows, stored, handed>> PROVE UNCHANGED Table!tableVars
    BY <2>4 DEF Table!tableVars
  <2>5. ASSUME ~\E o \in Ops : CreateCommit(o) \/ UpdateCommit(o) \/ Show(o)
        PROVE  UNCHANGED <<rows, stored, handed>>
    BY <2>5 DEF Next, vars, CreateRead, CreateConflict, SetStatus, SetRateLimit,
                RotateSecret, Edit, Reload, Abort
  <2>6. QED
    BY <2>1, <2>2, <2>3, <2>4, <2>5
<1>3. QED
  BY <1>1, <1>2, SecretsHold, PTL DEF Spec, ActsAtomically, Table!Spec

=============================================================================
