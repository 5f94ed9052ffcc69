------------------------- MODULE AuthSessionProofs -------------------------
(***************************************************************************)
(* What holds of the sessions for any number of clients, admins, calls in  *)
(* flight and token pairs, and any lives, leeway and grace period.         *)
(***************************************************************************)
EXTENDS AuthSession, Spacing, FiniteSetTheorems, TLAPS

\* What the type invariant says of a call, by its stage.
LEMMA OpShape ==
  ASSUME TypeOK, NEW o \in Ops
  PROVE  /\ op[o].pc \in {"idle", "read", "mint"}
         /\ op[o].pc = "read" =>
              op[o].sub \in Clients /\ op[o].parent \in Pairs /\ op[o].root \in Secrets
         /\ op[o].pc = "mint" =>
              /\ op[o].sub \in Clients /\ op[o].parent \in {0} \cup Pairs
              /\ op[o].root \in Secrets /\ op[o].since \in Nat
<1>1. op[o] \in OpState
  BY DEF TypeOK
<1>2. QED
  BY <1>1 DEF OpState, Idle

\* What it says of a pair.
LEMMA PairShape ==
  ASSUME TypeOK, NEW p \in Minted
  PROVE  /\ p \in Pairs
         /\ pair[p].sub \in Clients /\ pair[p].minted \in Nat
         /\ pair[p].parent \in {0} \cup Pairs /\ pair[p].root \in Secrets
<1>1. p \in Pairs /\ pair[p] \in PairOf
  BY DEF TypeOK, Minted
<1>2. QED
  BY <1>1 DEF PairOf

\* Minting adds one pair at the end, of the client and root of the call.
LEMMA MintShape ==
  ASSUME TypeOK, NEW o \in Ops, Mint(o)
  PROVE  /\ Minted' = Minted \cup {Len(pair) + 1}
         /\ Len(pair) + 1 \in Pairs \ Minted
         /\ \A p \in Minted : pair'[p] = pair[p]
         /\ pair'[Len(pair) + 1] = [sub |-> op[o].sub, minted |-> time,
                                    parent |-> op[o].parent, root |-> op[o].root]
         /\ pair' \in Seq(PairOf)
<1> DEFINE q == [sub |-> op[o].sub, minted |-> time, parent |-> op[o].parent,
                 root |-> op[o].root]
<1>1. q \in PairOf
  BY OpShape DEF Mint, PairOf, TypeOK
<1>2. pair \in Seq(PairOf) /\ pair' = Append(pair, q) /\ Len(pair) < MaxPairs
  BY DEF TypeOK, Mint
<1> HIDE DEF q
<1>3. /\ pair' \in Seq(PairOf) /\ Len(pair) \in Nat /\ Minted = 1..Len(pair)
      /\ Minted' = 1..(Len(pair) + 1)
      /\ \A p \in 1..Len(pair) : pair'[p] = pair[p]
      /\ pair'[Len(pair) + 1] = q
  BY <1>1, <1>2 DEF Minted
<1>4. Len(pair) + 1 \in Pairs \ Minted
  BY <1>2, <1>3, SessionAssumption DEF Pairs
<1>5. Minted' = Minted \cup {Len(pair) + 1}
  BY <1>3
<1>6. QED
  BY <1>3, <1>4, <1>5 DEF q

\* The count of calls keeps its bound.
LEMMA BeginShape ==
  ASSUME TypeOK, Begin
  PROVE  calls' \in 0..MaxCalls
<1>1. calls \in 0..MaxCalls /\ MaxCalls \in Nat
  BY SessionAssumption DEF TypeOK
<1>2. QED
  BY <1>1 DEF Begin

\* A use the replay guard admits is recorded once, as a first use or a retry.
LEMMA GuardUse ==
  ASSUME TypeOK, NEW t \in Tokens, Guard!FirstUse(t) \/ Guard!Retry(t)
  PROVE  /\ UNCHANGED <<time, forgotten>>
         /\ \/ /\ first[t] = {} \/ t \in forgotten
               /\ first' = [first EXCEPT ![t] = first[t] \cup {time}]
               /\ retries' = retries
            \/ \E second \in Nat :
                 /\ Guard!Grantable(t, second) \/ t \in forgotten
                 /\ retries' = [retries EXCEPT ![t] = retries[t] \cup {second}]
                 /\ first' = first
<1>1. time \in Nat /\ GuardDelay \in Nat
  BY SessionAssumption DEF TypeOK
<1>2. CASE Guard!FirstUse(t)
  BY <1>2 DEF Guard!FirstUse
<1>3. CASE Guard!Retry(t)
  <2>1. /\ UNCHANGED <<time, first, forgotten>>
        /\ \E second \in (time - GuardDelay)..time :
             /\ second >= 0
             /\ Guard!Grantable(t, second) \/ t \in forgotten
             /\ retries' = [retries EXCEPT ![t] = retries[t] \cup {second}]
    BY <1>3 DEF Guard!Retry
  <2>2. PICK second \in (time - GuardDelay)..time :
          /\ second >= 0
          /\ Guard!Grantable(t, second) \/ t \in forgotten
          /\ retries' = [retries EXCEPT ![t] = retries[t] \cup {second}]
    BY <2>1
  <2>3. second \in Nat
    BY <1>1, <2>2
  <2>4. QED
    BY <2>1, <2>2, <2>3
<1>4. QED
  BY <1>2, <1>3

\* What the guard has recorded keeps its shape.
LEMMA GuardShape ==
  ASSUME TypeOK, NEW p \in Pairs,
         Guard!FirstUse(<<p, "refresh">>) \/ Guard!Retry(<<p, "refresh">>)
  PROVE  /\ first' \in [Tokens -> SUBSET Nat] /\ retries' \in [Tokens -> SUBSET Nat]
         /\ \A q \in Pairs : first'[<<q, "access">>] = {} /\ retries'[<<q, "access">>] = {}
         /\ UNCHANGED <<time, forgotten>>
<1> DEFINE t == <<p, "refresh">>
<1>1. t \in Tokens /\ \A q \in Pairs : <<q, "access">> \in Tokens /\ <<q, "access">> # t
  BY DEF Tokens, Kinds
<1>2. /\ first \in [Tokens -> SUBSET Nat] /\ retries \in [Tokens -> SUBSET Nat]
      /\ \A q \in Pairs : first[<<q, "access">>] = {} /\ retries[<<q, "access">>] = {}
      /\ time \in Nat
  BY DEF TypeOK
<1>3. /\ UNCHANGED <<time, forgotten>>
      /\ \/ first' = [first EXCEPT ![t] = first[t] \cup {time}] /\ retries' = retries
         \/ \E second \in Nat :
              retries' = [retries EXCEPT ![t] = retries[t] \cup {second}] /\ first' = first
  BY <1>1, GuardUse
<1> HIDE DEF t
<1>4. CASE first' = [first EXCEPT ![t] = first[t] \cup {time}] /\ retries' = retries
  BY <1>1, <1>2, <1>3, <1>4
<1>5. ASSUME NEW second \in Nat,
             retries' = [retries EXCEPT ![t] = retries[t] \cup {second}], first' = first
      PROVE  /\ first' \in [Tokens -> SUBSET Nat] /\ retries' \in [Tokens -> SUBSET Nat]
             /\ \A q \in Pairs : first'[<<q, "access">>] = {} /\ retries'[<<q, "access">>] = {}
  BY <1>1, <1>2, <1>5
<1>6. QED
  BY <1>3, <1>4, <1>5

\* The state keeps its shape, and the replay guard never records an access token
\* (jwt_validator.py:162-166 checks the type before the guard is asked).
THEOREM SessionTypeCorrect == Spec => []TypeOK
<1>1. Init => TypeOK
  <2> SUFFICES ASSUME Init PROVE TypeOK
    OBVIOUS
  <2>1. /\ time = 0 /\ first = [t \in Tokens |-> {}] /\ retries = [t \in Tokens |-> {}]
        /\ forgotten = {} /\ \A p \in Pairs : <<p, "access">> \in Tokens
    BY DEF Init, Guard!Init, Tokens, Kinds
  <2>2. pair \in Seq(PairOf) /\ Minted = {}
    BY DEF Init, Minted
  <2>3. QED
    BY <2>1, <2>2, SessionAssumption DEF Init, TypeOK, OpState, Idle, Secrets
<1>2. TypeOK /\ [Next]_vars => TypeOK'
  <2> SUFFICES ASSUME TypeOK, [Next]_vars PROVE TypeOK'
    OBVIOUS
  <2>1. CASE Tick
    BY <2>1, SessionAssumption DEF Tick, Guard!Pass, TypeOK, Minted
  <2>2. ASSUME NEW o \in Ops, NEW c \in Clients, NEW v \in Secrets, LoginRead(o, c, v)
        PROVE  TypeOK'
    <3>1. calls' \in 0..MaxCalls
      BY <2>2, BeginShape DEF LoginRead
    <3>2. QED
      BY <2>2, <3>1 DEF LoginRead, TypeOK, Minted, OpState
  <2>3. ASSUME NEW o \in Ops, NEW p \in Minted, NEW k \in Kinds, RefreshValidate(o, p, k)
        PROVE  TypeOK'
    <3>1. op' \in [Ops -> OpState]
      BY <2>3, PairShape DEF RefreshValidate, TypeOK, OpState
    <3>2. k = "refresh" /\ p \in Pairs
      BY <2>3, PairShape DEF RefreshValidate, Presented, Accepted
    <3>3. Guard!FirstUse(<<p, "refresh">>) \/ Guard!Retry(<<p, "refresh">>)
      BY <2>3, <3>2 DEF RefreshValidate
    <3>4. /\ first' \in [Tokens -> SUBSET Nat] /\ retries' \in [Tokens -> SUBSET Nat]
          /\ \A q \in Pairs : first'[<<q, "access">>] = {} /\ retries'[<<q, "access">>] = {}
          /\ UNCHANGED <<time, forgotten>>
      BY <3>2, <3>3, GuardShape
    <3>5. calls' \in 0..MaxCalls
      BY <2>3, BeginShape DEF RefreshValidate
    <3>6. /\ UNCHANGED <<active, secret, pair, revokedAt, retiredAt, servedAt, changes>>
      BY <2>3 DEF RefreshValidate
    <3>7. QED
      BY <3>1, <3>4, <3>5, <3>6 DEF TypeOK, Minted
  <2>4. ASSUME NEW o \in Ops, RefreshRead(o) PROVE TypeOK'
    <3>1. op' \in [Ops -> OpState]
      <4>1. /\ op[o].sub \in Clients /\ op[o].parent \in Pairs /\ op[o].root \in Secrets
            /\ time \in Nat
        <5>1. op[o].pc = "read"
          BY <2>4 DEF RefreshRead
        <5>2. time \in Nat
          BY DEF TypeOK
        <5>3. QED
          BY <5>1, <5>2, OpShape
      <4> DEFINE m == [pc |-> "mint", sub |-> op[o].sub, parent |-> op[o].parent,
                       root |-> op[o].root, since |-> time]
      <4>2. m \in OpState /\ Idle \in OpState
        BY <4>1 DEF OpState
      <4>3. op' = [op EXCEPT ![o] = IF active[op[o].sub] THEN m ELSE Idle]
        BY <2>4 DEF RefreshRead
      <4> HIDE DEF m
      <4>4. QED
        BY <4>2, <4>3 DEF TypeOK
    <3>2. QED
      BY <2>4, <3>1 DEF RefreshRead, TypeOK, Minted
  <2>5. ASSUME NEW o \in Ops, Mint(o) PROVE TypeOK'
    <3>1. op' \in [Ops -> OpState]
      BY <2>5 DEF Mint, TypeOK, OpState
    <3>2. pair' \in Seq(PairOf) /\ Minted' \subseteq Pairs
      BY <2>5, MintShape DEF TypeOK
    <3>3. QED
      BY <2>5, <3>1, <3>2 DEF Mint, TypeOK
  <2>6. ASSUME NEW o \in Ops, Abort(o) PROVE TypeOK'
    BY <2>6 DEF Abort, TypeOK, Minted, OpState
  <2>7. ASSUME NEW p \in Minted, NEW k \in Kinds, ApiCall(p, k) PROVE TypeOK'
    BY <2>7, PairShape DEF ApiCall, Serve, TypeOK, Minted
  <2>8. ASSUME NEW p \in Minted, NEW k \in Kinds, NEW c \in Clients, SetStatus(p, k, c)
        PROVE  TypeOK'
    <3>1. /\ time \in Nat /\ changes' \in 0..MaxChanges
      <4>1. changes < MaxChanges /\ changes' = changes + 1
        BY <2>8 DEF SetStatus
      <4>2. time \in Nat /\ changes \in 0..MaxChanges
        BY SessionAssumption DEF TypeOK
      <4>3. QED
        BY <4>1, <4>2, SessionAssumption
    <3>2. active' \in [Clients -> BOOLEAN]
      BY <2>8 DEF SetStatus, TypeOK
    <3>3. revokedAt' \in [Clients -> Nat]
      BY <2>8, <3>1 DEF SetStatus, TypeOK
    <3>4. servedAt' \in [Clients -> {-1} \cup Nat]
      BY <2>8 DEF SetStatus, TypeOK
    <3>5. QED
      BY <2>8, <3>1, <3>2, <3>3, <3>4 DEF SetStatus, TypeOK, Minted
  <2>9. ASSUME NEW p \in Minted, NEW k \in Kinds, NEW c \in Clients, RotateSecret(p, k, c)
        PROVE  TypeOK'
    <3>0. secret[c] + 1 \in Secrets
      <4>1. secret[c] \in 1..MaxSecrets
        BY DEF TypeOK, Secrets
      <4>2. secret[c] < MaxSecrets
        BY <2>9 DEF RotateSecret
      <4>3. QED
        BY <4>1, <4>2, SessionAssumption DEF Secrets
    <3>1. /\ time \in Nat /\ changes' \in 0..MaxChanges
      <4>1. changes < MaxChanges /\ changes' = changes + 1
        BY <2>9 DEF RotateSecret
      <4>2. time \in Nat /\ changes \in 0..MaxChanges
        BY SessionAssumption DEF TypeOK
      <4>3. QED
        BY <4>1, <4>2, SessionAssumption
    <3>2. secret' \in [Clients -> Secrets]
      BY <2>9, <3>0 DEF RotateSecret, TypeOK
    <3>3. retiredAt' \in [Clients -> [Secrets -> Nat]]
      BY <2>9, <3>1 DEF RotateSecret, TypeOK
    <3>4. servedAt' \in [Clients -> {-1} \cup Nat]
      BY <2>9, <3>1 DEF RotateSecret, Serve, TypeOK
    <3>5. QED
      BY <2>9, <3>1, <3>2, <3>3, <3>4 DEF RotateSecret, TypeOK, Minted
  <2>10. ASSUME NEW p \in Minted, ForgetUse(p) PROVE TypeOK'
    <3>1. <<p, "refresh">> \in Tokens
      BY PairShape DEF Tokens, Kinds
    <3>2. /\ UNCHANGED <<time, active, secret, pair, op, first, retries, revokedAt, retiredAt,
                         servedAt, calls, changes>>
          /\ forgotten' = forgotten \cup {<<p, "refresh">>}
      BY <2>10 DEF ForgetUse, Guard!Forget
    <3>3. QED
      BY <3>1, <3>2 DEF TypeOK, Minted
  <2>11. CASE UNCHANGED vars
    BY <2>11 DEF vars, TypeOK, Minted
  <2>12. QED
    BY <2>1, <2>2, <2>3, <2>4, <2>5, <2>6, <2>7, <2>8, <2>9, <2>10, <2>11 DEF Next
<1>3. QED
  BY <1>1, <1>2, PTL DEF Spec

-----------------------------------------------------------------------------

\* A call about to mint read its row no longer than MintDelay ago, and while
\* the row was active; what was minted for a client since inactive was minted
\* within that delay.
RevocationInv ==
  /\ time \in Nat
  /\ \A o \in Ops : op[o].pc = "mint" =>
       /\ op[o].since <= time /\ time <= op[o].since + MintDelay
       /\ ~active[op[o].sub] => op[o].since <= revokedAt[op[o].sub]
  /\ \A p \in Minted : pair[p].minted <= time
  /\ RevocationTakesEffect

\* Every step keeps RevocationInv; minting and bearer calls are the ones that use
\* the bounds, and revoking a client the one that starts them.
LEMMA RevocationStep ==
  ASSUME TypeOK, RevocationInv, [Next]_vars
  PROVE  RevocationInv'
<1> USE SessionAssumption
<1>1. CASE Tick
  <2>1. time' = time + 1 /\ UNCHANGED <<active, pair, op, revokedAt, servedAt>>
    BY <1>1 DEF Tick, Guard!Pass
  <2>2. ASSUME NEW o \in Ops, op[o].pc = "mint" PROVE time < op[o].since + MintDelay
    BY <1>1, <2>2 DEF Tick
  <2>3. QED
    BY <2>1, <2>2, OpShape, PairShape DEF RevocationInv, RevocationTakesEffect, Minted
<1>2. ASSUME NEW o \in Ops, NEW c \in Clients, NEW v \in Secrets, LoginRead(o, c, v)
      PROVE  RevocationInv'
  BY <1>2 DEF LoginRead, TypeOK, RevocationInv, RevocationTakesEffect, Minted
<1>3. ASSUME NEW o \in Ops, NEW p \in Minted, NEW k \in Kinds, RefreshValidate(o, p, k)
      PROVE  RevocationInv'
  <2>1. time' = time
    BY <1>3 DEF RefreshValidate, Guard!FirstUse, Guard!Retry
  <2>2. QED
    BY <1>3, <2>1 DEF RefreshValidate, TypeOK, RevocationInv, RevocationTakesEffect, Minted
<1>4. ASSUME NEW o \in Ops, RefreshRead(o) PROVE RevocationInv'
  <2>1. op \in [Ops -> OpState] /\ MintDelay \in Nat
    BY DEF TypeOK
  <2>2. QED
    BY <1>4, <2>1 DEF RefreshRead, Idle, RevocationInv, RevocationTakesEffect, Minted
<1>5. ASSUME NEW o \in Ops, Mint(o) PROVE RevocationInv'
  <2>1. /\ op[o].pc = "mint" /\ op' = [op EXCEPT ![o] = Idle]
        /\ UNCHANGED <<time, active, revokedAt, servedAt>>
    BY <1>5 DEF Mint
  <2>2. \A s \in Ops : op'[s].pc = "mint" => op'[s] = op[s]
    BY <2>1 DEF Idle, TypeOK
  <2>3. ASSUME NEW p \in Minted'
        PROVE  \/ p \in Minted /\ pair'[p] = pair[p]
               \/ pair'[p].sub = op[o].sub /\ pair'[p].minted = time
    <3>1. \/ p \in Minted /\ pair'[p] = pair[p]
          \/ pair'[p] = [sub |-> op[o].sub, minted |-> time,
                         parent |-> op[o].parent, root |-> op[o].root]
      BY <1>5, <2>3, MintShape
    <3>2. QED
      BY <3>1
  <2>4. \A p \in Minted' : pair'[p].minted <= time
    BY <2>3 DEF RevocationInv
  <2>5. ASSUME NEW c \in Clients, ~active[c], NEW p \in Minted', pair'[p].sub = c
        PROVE  pair'[p].minted <= revokedAt[c] + MintDelay
    <3>1. CASE p \in Minted /\ pair'[p] = pair[p]
      BY <2>5, <3>1 DEF RevocationInv, RevocationTakesEffect
    <3>2. CASE pair'[p].sub = op[o].sub /\ pair'[p].minted = time
      <4>1. op[o].since <= revokedAt[c] /\ time <= op[o].since + MintDelay
        BY <2>1, <2>5, <3>2 DEF RevocationInv
      <4>2. op[o].since \in Nat /\ revokedAt[c] \in Nat /\ time \in Nat
        <5>1. op[o].since \in Nat
          BY <2>1, OpShape
        <5>2. revokedAt[c] \in Nat /\ time \in Nat
          BY DEF TypeOK, RevocationInv
        <5>3. QED
          BY <5>1, <5>2
      <4>3. QED
        BY <3>2, <4>1, <4>2
    <3>3. QED
      BY <2>3, <2>5, <3>1, <3>2
  <2>6. QED
    BY <2>1, <2>2, <2>4, <2>5 DEF RevocationInv, RevocationTakesEffect
<1>6. ASSUME NEW o \in Ops, Abort(o) PROVE RevocationInv'
  BY <1>6 DEF Abort, Idle, TypeOK, RevocationInv, RevocationTakesEffect, Minted
<1>7. ASSUME NEW p \in Minted, NEW k \in Kinds, Bearer(p, k), Serve(pair[p].sub),
             UNCHANGED <<time, active, pair, op, revokedAt>>
      PROVE  RevocationInv'
  <2> DEFINE c == pair[p].sub
  <2>1. c \in Clients /\ pair[p].minted \in Nat
    BY PairShape
  <2>2. time < pair[p].minted + AccessLife + Skew
    BY <1>7, <2>1 DEF Bearer, Accepted, Expiry
  <2>3. ~active[c] => time < revokedAt[c] + MintDelay + AccessLife + Skew
    <3>1. ~active[c] => pair[p].minted <= revokedAt[c] + MintDelay
      BY <2>1 DEF RevocationInv, RevocationTakesEffect
    <3>2. time \in Nat /\ revokedAt[c] \in Nat
      BY <2>1 DEF TypeOK
    <3>3. QED
      BY <2>1, <2>2, <3>1, <3>2
  <2>4. servedAt' = IF active[c] THEN servedAt ELSE [servedAt EXCEPT ![c] = time]
    BY <1>7 DEF Serve
  <2> HIDE DEF c
  <2>5. ASSUME NEW d \in Clients, ~active[d]
        PROVE  servedAt'[d] < revokedAt[d] + MintDelay + AccessLife + Skew
    BY <2>1, <2>3, <2>4, <2>5 DEF TypeOK, RevocationInv, RevocationTakesEffect
  <2>6. QED
    BY <1>7, <2>5 DEF RevocationInv, RevocationTakesEffect, Minted
<1>8. ASSUME NEW p \in Minted, NEW k \in Kinds, NEW c \in Clients, SetStatus(p, k, c)
      PROVE  RevocationInv'
  <2>1. /\ active' = [active EXCEPT ![c] = ~active[c]]
        /\ revokedAt' = [revokedAt EXCEPT ![c] = IF active[c] THEN time ELSE 0]
        /\ servedAt' = [servedAt EXCEPT ![c] = -1]
        /\ UNCHANGED <<time, pair, op>>
    BY <1>8 DEF SetStatus
  <2>2. ASSUME NEW o \in Ops, op[o].pc = "mint", ~active'[op[o].sub]
        PROVE  op[o].since <= revokedAt'[op[o].sub]
    BY <2>1, <2>2, OpShape DEF TypeOK, RevocationInv
  <2>3. ASSUME NEW d \in Clients, ~active'[d]
        PROVE  /\ \A q \in Minted : pair[q].sub = d => pair[q].minted <= revokedAt'[d] + MintDelay
               /\ servedAt'[d] < revokedAt'[d] + MintDelay + AccessLife + Skew
    <3>1. CASE d = c
      <4>1. active[c] /\ revokedAt'[c] = time /\ servedAt'[c] = -1
        BY <2>1, <2>3, <3>1 DEF TypeOK
      <4>2. \A q \in Minted : pair[q].minted \in Nat /\ pair[q].minted <= time
        BY PairShape DEF RevocationInv
      <4>3. time \in Nat
        BY DEF RevocationInv
      <4>4. QED
        BY <3>1, <4>1, <4>2, <4>3
    <3>2. CASE d # c
      BY <2>1, <2>3, <3>2 DEF TypeOK, RevocationInv, RevocationTakesEffect
    <3>3. QED
      BY <3>1, <3>2
  <2>4. QED
    BY <2>1, <2>2, <2>3 DEF RevocationInv, RevocationTakesEffect, Minted
<1>9. ASSUME NEW p \in Minted, ForgetUse(p) PROVE RevocationInv'
  BY <1>9 DEF ForgetUse, Guard!Forget, RevocationInv, RevocationTakesEffect, Minted
<1>10. CASE UNCHANGED vars
  BY <1>10 DEF vars, RevocationInv, RevocationTakesEffect, Minted
<1>11. QED
  BY <1>1, <1>2, <1>3, <1>4, <1>5, <1>6, <1>7, <1>8, <1>9, <1>10 DEF Next, ApiCall, RotateSecret

\* Revocation reaches a client within the time a handler holds its row and one
\* access token lives, for any settings.
THEOREM RevocationSafe == Spec => []RevocationTakesEffect
<1>1. Init => RevocationInv
  BY DEF Init, Guard!Init, Idle, RevocationInv, RevocationTakesEffect, Minted
<1>2. TypeOK /\ RevocationInv /\ [Next]_vars => RevocationInv'
  BY RevocationStep
<1>3. RevocationInv => RevocationTakesEffect
  BY DEF RevocationInv
<1>4. QED
  BY <1>1, <1>2, <1>3, SessionTypeCorrect, PTL DEF Spec

-----------------------------------------------------------------------------

\* A login about to mint was given the row's secret, or one that was retired
\* after the row was read; the same holds of what logins minted.
RetiredInv ==
  /\ \A o \in Ops : op[o].pc = "mint" /\ op[o].parent = 0 =>
       /\ op[o].root <= secret[op[o].sub]
       /\ op[o].root < secret[op[o].sub] => op[o].since <= retiredAt[op[o].sub][op[o].root]
  /\ \A p \in Minted : pair[p].parent = 0 => pair[p].root <= secret[pair[p].sub]
  /\ RetiredSecretOpensNothing

\* Every step keeps RetiredInv; rotating a secret is the one that retires it.
LEMMA RetiredStep ==
  ASSUME TypeOK, RevocationInv, RetiredInv, [Next]_vars
  PROVE  RetiredInv'
<1> USE SessionAssumption
<1>1. CASE Tick
  BY <1>1 DEF Tick, RetiredInv, RetiredSecretOpensNothing, Minted
<1>2. ASSUME NEW o \in Ops, NEW c \in Clients, NEW v \in Secrets, LoginRead(o, c, v)
      PROVE  RetiredInv'
  <2>1. secret[c] \in Nat
    BY DEF TypeOK, Secrets
  <2>2. QED
    BY <1>2, <2>1 DEF LoginRead, TypeOK, RetiredInv, RetiredSecretOpensNothing, Minted
<1>3. ASSUME NEW o \in Ops, NEW p \in Minted, NEW k \in Kinds, RefreshValidate(o, p, k)
      PROVE  RetiredInv'
  BY <1>3 DEF RefreshValidate, TypeOK, RetiredInv, RetiredSecretOpensNothing, Minted
<1>4. ASSUME NEW o \in Ops, RefreshRead(o) PROVE RetiredInv'
  <2>1. op[o].parent # 0
    BY <1>4, OpShape DEF RefreshRead, Pairs
  <2>2. QED
    BY <1>4, <2>1 DEF RefreshRead, Idle, TypeOK, RetiredInv, RetiredSecretOpensNothing, Minted
<1>5. ASSUME NEW o \in Ops, Mint(o) PROVE RetiredInv'
  <2>1. /\ op[o].pc = "mint" /\ op' = [op EXCEPT ![o] = Idle]
        /\ UNCHANGED <<time, secret, retiredAt>>
    BY <1>5 DEF Mint
  <2>2. \A s \in Ops : op'[s].pc = "mint" => op'[s] = op[s]
    BY <2>1 DEF Idle, TypeOK
  <2>3. ASSUME NEW p \in Minted'
        PROVE  \/ p \in Minted /\ pair'[p] = pair[p]
               \/ pair'[p] = [sub |-> op[o].sub, minted |-> time,
                              parent |-> op[o].parent, root |-> op[o].root]
    BY <1>5, <2>3, MintShape
  <2>4. ASSUME NEW p \in Minted', pair'[p].parent = 0
        PROVE  /\ pair'[p].root <= secret[pair'[p].sub]
               /\ pair'[p].root < secret[pair'[p].sub] =>
                    pair'[p].minted <= retiredAt[pair'[p].sub][pair'[p].root] + MintDelay
    <3>1. CASE p \in Minted /\ pair'[p] = pair[p]
      BY <2>4, <3>1 DEF RetiredInv, RetiredSecretOpensNothing
    <3>2. CASE pair'[p] = [sub |-> op[o].sub, minted |-> time,
                           parent |-> op[o].parent, root |-> op[o].root]
      <4>1. /\ pair'[p].sub = op[o].sub /\ pair'[p].minted = time
            /\ pair'[p].root = op[o].root /\ op[o].parent = 0
        BY <2>4, <3>2
      <4>2. /\ op[o].root <= secret[op[o].sub]
            /\ op[o].root < secret[op[o].sub] => op[o].since <= retiredAt[op[o].sub][op[o].root]
        BY <2>1, <4>1 DEF RetiredInv
      <4>3. time <= op[o].since + MintDelay
        BY <2>1 DEF RevocationInv
      <4>4. op[o].since \in Nat /\ retiredAt[op[o].sub][op[o].root] \in Nat /\ time \in Nat
        <5>1. op[o].since \in Nat /\ op[o].sub \in Clients /\ op[o].root \in Secrets
          BY <2>1, OpShape
        <5>2. retiredAt \in [Clients -> [Secrets -> Nat]] /\ time \in Nat
          BY DEF TypeOK, RevocationInv
        <5>3. QED
          BY <5>1, <5>2
      <4>5. QED
        BY <4>1, <4>2, <4>3, <4>4
    <3>3. QED
      BY <2>3, <2>4, <3>1, <3>2
  <2>5. QED
    BY <2>1, <2>2, <2>4 DEF RetiredInv, RetiredSecretOpensNothing
<1>6. ASSUME NEW o \in Ops, Abort(o) PROVE RetiredInv'
  BY <1>6 DEF Abort, Idle, TypeOK, RetiredInv, RetiredSecretOpensNothing, Minted
<1>7. ASSUME NEW p \in Minted, NEW k \in Kinds, ApiCall(p, k) PROVE RetiredInv'
  BY <1>7 DEF ApiCall, RetiredInv, RetiredSecretOpensNothing, Minted
<1>8. ASSUME NEW p \in Minted, NEW k \in Kinds, NEW c \in Clients, SetStatus(p, k, c)
      PROVE  RetiredInv'
  BY <1>8 DEF SetStatus, RetiredInv, RetiredSecretOpensNothing, Minted
<1>9. ASSUME NEW p \in Minted, NEW k \in Kinds, NEW c \in Clients, RotateSecret(p, k, c)
      PROVE  RetiredInv'
  <2>1. /\ secret' = [secret EXCEPT ![c] = secret[c] + 1]
        /\ retiredAt' = [retiredAt EXCEPT ![c][secret[c]] = time]
        /\ UNCHANGED <<time, pair, op>>
    BY <1>9 DEF RotateSecret
  <2>2. /\ secret \in [Clients -> Nat] /\ secret[c] \in Secrets
        /\ retiredAt \in [Clients -> [Secrets -> Nat]] /\ time \in Nat
    <3>1. secret \in [Clients -> Secrets] /\ retiredAt \in [Clients -> [Secrets -> Nat]]
      BY DEF TypeOK
    <3>2. Secrets \subseteq Nat /\ time \in Nat
      BY DEF Secrets, RevocationInv
    <3>3. QED
      BY <3>1, <3>2
  <2>3. ASSUME NEW d \in Clients, NEW v \in Secrets, v <= secret[d], NEW n \in Nat, n <= time,
               NEW m \in Nat, v < secret[d] => n <= retiredAt[d][v] + m
        PROVE  /\ v <= secret'[d]
               /\ v < secret'[d] => n <= retiredAt'[d][v] + m
    <3>1. v \in Nat
      BY DEF Secrets
    <3>2. CASE d # c
      BY <2>1, <2>2, <2>3, <3>2
    <3>3. CASE d = c /\ v = secret[c]
      BY <2>1, <2>2, <2>3, <3>1, <3>3
    <3>4. CASE d = c /\ v # secret[c]
      BY <2>1, <2>2, <2>3, <3>1, <3>4
    <3>5. QED
      BY <3>2, <3>3, <3>4
  <2>4. ASSUME NEW o \in Ops, op[o].pc = "mint", op[o].parent = 0
        PROVE  /\ op[o].root <= secret'[op[o].sub]
               /\ op[o].root < secret'[op[o].sub] =>
                    op[o].since <= retiredAt'[op[o].sub][op[o].root]
    <3>1. /\ op[o].sub \in Clients /\ op[o].root \in Secrets /\ op[o].since \in Nat
          /\ retiredAt[op[o].sub][op[o].root] \in Nat
      BY <2>2, <2>4, OpShape
    <3>2. /\ op[o].root <= secret[op[o].sub] /\ op[o].since <= time
          /\ op[o].root < secret[op[o].sub] =>
               op[o].since <= retiredAt[op[o].sub][op[o].root] + 0
      BY <2>4, <3>1 DEF RetiredInv, RevocationInv
    <3>3. /\ op[o].root <= secret'[op[o].sub]
          /\ op[o].root < secret'[op[o].sub] =>
               op[o].since <= retiredAt'[op[o].sub][op[o].root] + 0
      BY <2>3, <3>1, <3>2
    <3>4. retiredAt'[op[o].sub][op[o].root] \in Nat
      BY <2>1, <2>2, <3>1
    <3>5. QED
      BY <3>3, <3>4
  <2>5. ASSUME NEW q \in Minted, pair[q].parent = 0
        PROVE  /\ pair[q].root <= secret'[pair[q].sub]
               /\ pair[q].root < secret'[pair[q].sub] =>
                    pair[q].minted <= retiredAt'[pair[q].sub][pair[q].root] + MintDelay
    <3>1. /\ pair[q].sub \in Clients /\ pair[q].root \in Secrets /\ pair[q].minted \in Nat
      BY PairShape
    <3>2. /\ pair[q].root <= secret[pair[q].sub] /\ pair[q].minted <= time
          /\ pair[q].root < secret[pair[q].sub] =>
               pair[q].minted <= retiredAt[pair[q].sub][pair[q].root] + MintDelay
      BY <2>5 DEF RetiredInv, RetiredSecretOpensNothing, RevocationInv
    <3>3. QED
      BY <2>3, <3>1, <3>2
  <2>6. QED
    BY <2>1, <2>4, <2>5 DEF RetiredInv, RetiredSecretOpensNothing, Minted
<1>10. ASSUME NEW p \in Minted, ForgetUse(p) PROVE RetiredInv'
  BY <1>10 DEF ForgetUse, RetiredInv, RetiredSecretOpensNothing, Minted
<1>11. CASE UNCHANGED vars
  BY <1>11 DEF vars, RetiredInv, RetiredSecretOpensNothing, Minted
<1>12. QED
  BY <1>1, <1>2, <1>3, <1>4, <1>5, <1>6, <1>7, <1>8, <1>9, <1>10, <1>11 DEF Next

\* A secret that was rotated away opens no session, for any settings, but for
\* logins that had read the row.
THEOREM RetiredSecretsSafe == Spec => []RetiredSecretOpensNothing
<1>1. Init => RevocationInv /\ RetiredInv
  BY DEF Init, Guard!Init, Idle, RevocationInv, RevocationTakesEffect, RetiredInv,
         RetiredSecretOpensNothing, Minted
<1>2. TypeOK /\ RevocationInv /\ RetiredInv /\ [Next]_vars => RevocationInv' /\ RetiredInv'
  BY RevocationStep, RetiredStep
<1>3. RetiredInv => RetiredSecretOpensNothing
  BY DEF RetiredInv
<1>4. QED
  BY <1>1, <1>2, <1>3, SessionTypeCorrect, PTL DEF Spec

-----------------------------------------------------------------------------

\* The sizes of two finite sets fit a bound n.
Fits(S, T, n) ==
  /\ IsFiniteSet(S) /\ IsFiniteSet(T)
  /\ Cardinality(S) + Cardinality(T) <= n

\* A smaller second set fits as well.
LEMMA FitsSubset ==
  ASSUME NEW S, NEW T, NEW n \in Nat, Fits(S, T, n), NEW U \in SUBSET T
  PROVE  Fits(S, U, n)
<1>1. IsFiniteSet(S) /\ IsFiniteSet(T)
  BY DEF Fits
<1>2. IsFiniteSet(U) /\ Cardinality(U) <= Cardinality(T)
  BY <1>1, FS_Subset
<1>3. Cardinality(S) \in Nat /\ Cardinality(T) \in Nat /\ Cardinality(U) \in Nat
  BY <1>1, <1>2, FS_CardinalityType
<1>4. QED
  BY <1>1, <1>2, <1>3 DEF Fits

\* One more element needs one more of the bound.
LEMMA FitsAdd ==
  ASSUME NEW S, NEW T, NEW n \in Nat, Fits(S, T, n), NEW x
  PROVE  Fits(S, T \cup {x}, n + 1)
<1>1. IsFiniteSet(S) /\ IsFiniteSet(T)
  BY DEF Fits
<1>2. Cardinality(S) \in Nat /\ Cardinality(T) \in Nat
  BY <1>1, FS_CardinalityType
<1>3. /\ IsFiniteSet(T \cup {x})
      /\ Cardinality(T \cup {x}) = Cardinality(T) \/ Cardinality(T \cup {x}) = Cardinality(T) + 1
  BY <1>1, FS_AddElement
<1>4. QED
  BY <1>1, <1>2, <1>3 DEF Fits

\* Moving an element from the second set to the first changes nothing.
LEMMA FitsMove ==
  ASSUME NEW S, NEW T, NEW n \in Nat, Fits(S, T, n), NEW x \in T, NEW y
  PROVE  Fits(S \cup {y}, T \ {x}, n)
<1>1. IsFiniteSet(S) /\ IsFiniteSet(T)
  BY DEF Fits
<1>2. Cardinality(S) \in Nat /\ Cardinality(T) \in Nat
  BY <1>1, FS_CardinalityType
<1>3. /\ IsFiniteSet(S \cup {y})
      /\ Cardinality(S \cup {y}) = Cardinality(S) \/ Cardinality(S \cup {y}) = Cardinality(S) + 1
  BY <1>1, FS_AddElement
<1>4. IsFiniteSet(T \ {x}) /\ Cardinality(T \ {x}) = Cardinality(T) - 1
  BY <1>1, FS_RemoveElement
<1>5. QED
  BY <1>1, <1>2, <1>3, <1>4 DEF Fits

\* The exchanges of pair p's refresh token on record.
Uses(p) == Cardinality(first[<<p, "refresh">>]) + Cardinality(retries[<<p, "refresh">>])

\* The seconds F of first uses and R of retries of one token follow the guard.
Window(F, R) ==
  /\ \A f, g \in F : f = g
  /\ \A s \in R : \E f \in F : f <= s /\ s <= f + (Grace + GuardDelay)
  /\ \A r, s \in R : r # s => r - s > Grace \/ s - r > Grace

\* Such seconds are few: one first use, and retries more than Grace apart.
LEMMA WindowBound ==
  ASSUME NEW F \in SUBSET Nat, NEW R \in SUBSET Nat, Window(F, R)
  PROVE  /\ IsFiniteSet(F) /\ IsFiniteSet(R)
         /\ Cardinality(F) \in Nat /\ Cardinality(R) \in Nat
         /\ Cardinality(F) + Cardinality(R) <= 1 + Guard!MostRetries
<1>1. Grace \in Nat /\ GuardDelay \in Nat /\ Grace + GuardDelay \in Nat /\ Grace + 1 \in Nat \ {0}
  BY SessionAssumption
<1>2. (Grace + GuardDelay) \div (Grace + 1) \in Nat
  BY <1>1, DivMonotone
<1>3. CASE F = {}
  <2>1. R = {}
    BY <1>3 DEF Window
  <2>2. QED
    BY <1>2, <1>3, <2>1, FS_EmptySet DEF Guard!MostRetries
<1>4. ASSUME NEW f \in F
      PROVE  /\ IsFiniteSet(F) /\ Cardinality(F) = 1
             /\ IsFiniteSet(R) /\ Cardinality(R) <= 1 + (Grace + GuardDelay) \div (Grace + 1)
  <2>1. F = {f}
    BY <1>4 DEF Window
  <2>2. IsFiniteSet(F) /\ Cardinality(F) = 1
    BY <2>1, FS_Singleton
  <2> DEFINE a == [r \in R |-> r]
  <2>3. \A r \in R : a[r] \in Nat /\ f <= a[r] /\ a[r] <= f + (Grace + GuardDelay)
    BY <2>1 DEF Window
  <2>4. \A r, s \in R : r # s => a[r] - a[s] > Grace \/ a[s] - a[r] > Grace
    BY DEF Window
  <2> HIDE DEF a
  <2>5. IsFiniteSet(R) /\ Cardinality(R) <= 1 + (Grace + GuardDelay) \div (Grace + 1)
    BY <1>1, <2>3, <2>4, Packing
  <2>6. QED
    BY <2>2, <2>5
<1>5. CASE F # {}
  <2>1. IsFiniteSet(F) /\ Cardinality(F) = 1 /\ IsFiniteSet(R)
    BY <1>4, <1>5
  <2>2. Cardinality(R) <= 1 + (Grace + GuardDelay) \div (Grace + 1)
    BY <1>4, <1>5
  <2>3. Cardinality(R) \in Nat
    BY <2>1, FS_CardinalityType
  <2>4. QED
    BY <1>2, <2>1, <2>2, <2>3 DEF Guard!MostRetries
<1>6. QED
  BY <1>3, <1>5

\* What the guard has on record of a refresh token follows the guard.
UsesInv ==
  \A p \in Pairs : \/ <<p, "refresh">> \in forgotten
                   \/ Window(first[<<p, "refresh">>], retries[<<p, "refresh">>])

\* A step records a use of one refresh token, or it records none; nothing that
\* is forgotten comes back.
LEMMA RecordStep ==
  ASSUME TypeOK, [Next]_vars
  PROVE  \/ \E o \in Ops, p \in Minted : RefreshValidate(o, p, "refresh")
         \/ UNCHANGED <<first, retries>> /\ forgotten \subseteq forgotten'
<1>1. CASE Tick
  BY <1>1 DEF Tick, Guard!Pass
<1>2. ASSUME NEW p \in Minted, ForgetUse(p)
      PROVE  UNCHANGED <<first, retries>> /\ forgotten \subseteq forgotten'
  BY <1>2 DEF ForgetUse, Guard!Forget
<1>3. ASSUME NEW o \in Ops, NEW c \in Clients, NEW v \in Secrets, LoginRead(o, c, v)
      PROVE  UNCHANGED <<first, retries, forgotten>>
  BY <1>3 DEF LoginRead
<1>4. ASSUME NEW o \in Ops, NEW p \in Minted, NEW k \in Kinds, RefreshValidate(o, p, k)
      PROVE  RefreshValidate(o, p, "refresh")
  BY <1>4 DEF RefreshValidate, Presented, Accepted
<1>5. ASSUME NEW o \in Ops, RefreshRead(o) \/ Mint(o) \/ Abort(o)
      PROVE  UNCHANGED <<first, retries, forgotten>>
  BY <1>5 DEF RefreshRead, Mint, Abort
<1>6. ASSUME NEW p \in Minted, NEW k \in Kinds, ApiCall(p, k)
      PROVE  UNCHANGED <<first, retries, forgotten>>
  BY <1>6 DEF ApiCall
<1>7. ASSUME NEW p \in Minted, NEW k \in Kinds, NEW c \in Clients,
             RotateSecret(p, k, c) \/ SetStatus(p, k, c)
      PROVE  UNCHANGED <<first, retries, forgotten>>
  BY <1>7 DEF RotateSecret, SetStatus
<1>8. CASE UNCHANGED vars
  BY <1>8 DEF vars
<1>9. QED
  BY <1>1, <1>2, <1>3, <1>4, <1>5, <1>6, <1>7, <1>8 DEF Next

\* A use of a token on record is one more, and within the guard's window.
LEMMA UseCounted ==
  ASSUME TypeOK, UsesInv, NEW p \in Pairs, <<p, "refresh">> \notin forgotten,
         Guard!FirstUse(<<p, "refresh">>) \/ Guard!Retry(<<p, "refresh">>)
  PROVE  /\ Window(first'[<<p, "refresh">>], retries'[<<p, "refresh">>])
         /\ Uses(p) \in Nat /\ Uses(p)' = Uses(p) + 1
<1> DEFINE t == <<p, "refresh">>
           F == first[t]
           R == retries[t]
<1>1. t \in Tokens
  BY DEF Tokens, Kinds
<1>2. /\ F \in SUBSET Nat /\ R \in SUBSET Nat /\ time \in Nat /\ Window(F, R)
      /\ first \in [Tokens -> SUBSET Nat] /\ retries \in [Tokens -> SUBSET Nat]
  <2>1. /\ first \in [Tokens -> SUBSET Nat] /\ retries \in [Tokens -> SUBSET Nat]
        /\ time \in Nat
    BY DEF TypeOK
  <2>2. Window(F, R)
    BY DEF UsesInv
  <2>3. QED
    BY <1>1, <2>1, <2>2
<1>3. /\ IsFiniteSet(F) /\ IsFiniteSet(R)
      /\ Cardinality(F) \in Nat /\ Cardinality(R) \in Nat
  BY <1>2, WindowBound
<1>4. Uses(p) \in Nat
  BY <1>3 DEF Uses
<1>5. \/ F = {} /\ first' = [first EXCEPT ![t] = F \cup {time}] /\ retries' = retries
      \/ \E second \in Nat :
           /\ Guard!Grantable(t, second)
           /\ retries' = [retries EXCEPT ![t] = R \cup {second}] /\ first' = first
  BY <1>1, GuardUse
<1>6. CASE F = {} /\ first' = [first EXCEPT ![t] = F \cup {time}] /\ retries' = retries
  <2>1. first'[t] = {time} /\ retries'[t] = R
    BY <1>1, <1>2, <1>6
  <2>2. R = {}
    BY <1>2, <1>6 DEF Window
  <2>3. Cardinality(F) = 0 /\ Cardinality({time}) = 1
    BY <1>6, FS_EmptySet, FS_Singleton
  <2>4. Window(first'[t], retries'[t])
    BY <2>1, <2>2 DEF Window
  <2>5. Uses(p)' = Uses(p) + 1
    BY <1>3, <2>1, <2>3 DEF Uses
  <2>6. QED
    BY <1>4, <2>4, <2>5
<1>7. ASSUME NEW second \in Nat, Guard!Grantable(t, second),
             retries' = [retries EXCEPT ![t] = R \cup {second}], first' = first
      PROVE  Window(first'[t], retries'[t]) /\ Uses(p)' = Uses(p) + 1
  <2>1. first'[t] = F /\ retries'[t] = R \cup {second}
    BY <1>1, <1>2, <1>7
  <2>2. /\ \E f \in F : f <= second /\ second <= f + Grace + GuardDelay
        /\ \A g \in R : second - g > Grace \/ g - second > Grace
    BY <1>7 DEF Guard!Grantable
  <2>3. Grace \in Nat /\ GuardDelay \in Nat
    BY SessionAssumption
  <2>4. second \notin R
    BY <1>2, <2>2, <2>3
  <2>5. Window(F, R \cup {second})
    <3>1. \A s \in R \cup {second} : \E f \in F : f <= s /\ s <= f + (Grace + GuardDelay)
      BY <1>2, <2>2, <2>3 DEF Window
    <3>2. \A r, s \in R \cup {second} : r # s => r - s > Grace \/ s - r > Grace
      BY <1>2, <2>2 DEF Window
    <3>3. QED
      BY <1>2, <3>1, <3>2 DEF Window
  <2>6. Cardinality(R \cup {second}) = Cardinality(R) + 1
    BY <1>3, <2>4, FS_AddElement
  <2>7. Uses(p)' = Uses(p) + 1
    BY <1>3, <2>1, <2>6 DEF Uses
  <2>8. QED
    BY <2>1, <2>5, <2>7
<1>8. QED
  BY <1>4, <1>5, <1>6, <1>7

\* The other tokens keep their record.
LEMMA UseElsewhere ==
  ASSUME TypeOK, NEW p \in Pairs, NEW q \in Pairs \ {p},
         Guard!FirstUse(<<p, "refresh">>) \/ Guard!Retry(<<p, "refresh">>)
  PROVE  first'[<<q, "refresh">>] = first[<<q, "refresh">>]
         /\ retries'[<<q, "refresh">>] = retries[<<q, "refresh">>]
<1>1. <<p, "refresh">> \in Tokens /\ <<q, "refresh">> \in Tokens
  BY DEF Tokens, Kinds
<1>2. /\ \/ first' = [first EXCEPT ![<<p, "refresh">>] = first[<<p, "refresh">>] \cup {time}]
            /\ retries' = retries
         \/ \E second \in Nat :
              /\ retries' = [retries EXCEPT ![<<p, "refresh">>] =
                               retries[<<p, "refresh">>] \cup {second}]
              /\ first' = first
      /\ <<p, "refresh">> # <<q, "refresh">>
  BY <1>1, GuardUse
<1>3. first \in [Tokens -> SUBSET Nat] /\ retries \in [Tokens -> SUBSET Nat]
  BY DEF TypeOK
<1>4. QED
  BY <1>1, <1>2, <1>3

\* Every step keeps the record within the guard's window.
LEMMA UsesStep ==
  ASSUME TypeOK, UsesInv, [Next]_vars
  PROVE  UsesInv'
<1>1. CASE UNCHANGED <<first, retries>> /\ forgotten \subseteq forgotten'
  BY <1>1 DEF UsesInv
<1>2. ASSUME NEW o \in Ops, NEW p \in Minted, RefreshValidate(o, p, "refresh")
      PROVE  UsesInv'
  <2>1. p \in Pairs
    BY PairShape
  <2>2. Guard!FirstUse(<<p, "refresh">>) \/ Guard!Retry(<<p, "refresh">>)
    BY <1>2 DEF RefreshValidate
  <2>3. forgotten' = forgotten
    BY <2>1, <2>2, GuardShape
  <2>4. ASSUME NEW q \in Pairs, <<q, "refresh">> \notin forgotten'
        PROVE  Window(first'[<<q, "refresh">>], retries'[<<q, "refresh">>])
    <3>1. CASE q = p
      BY <2>1, <2>2, <2>3, <2>4, <3>1, UseCounted
    <3>2. CASE q # p
      <4>1. first'[<<q, "refresh">>] = first[<<q, "refresh">>]
            /\ retries'[<<q, "refresh">>] = retries[<<q, "refresh">>]
        BY <2>1, <2>2, <3>2, UseElsewhere
      <4>2. QED
        BY <2>3, <2>4, <4>1 DEF UsesInv
    <3>3. QED
      BY <3>1, <3>2
  <2>5. QED
    BY <2>4 DEF UsesInv, Window
<1>3. QED
  BY <1>1, <1>2, RecordStep

\* The calls in flight that will mint a child of pair p.
Refreshing(p) == {o \in Ops : op[o].pc # "idle" /\ op[o].parent = p}

\* Every child of a pair, minted or in flight, has a use of its refresh token on
\* record, unless the record is gone.
ChildrenInv ==
  /\ \A o \in Ops : op[o].pc # "idle" => op[o].parent \in {0} \cup Minted
  /\ \A p \in Minted : pair[p].parent \in {0} \cup Minted
  /\ \A p \in Minted : <<p, "refresh">> \in forgotten
                       \/ Fits(Children(p), Refreshing(p), Uses(p))

\* The uses on record of a pair's refresh token are a number, within the bound.
LEMMA UsesShape ==
  ASSUME TypeOK, UsesInv, NEW p \in Pairs, <<p, "refresh">> \notin forgotten
  PROVE  Uses(p) \in Nat /\ Uses(p) <= 1 + Guard!MostRetries
<1> DEFINE F == first[<<p, "refresh">>]
           R == retries[<<p, "refresh">>]
<1>1. F \in SUBSET Nat /\ R \in SUBSET Nat /\ Window(F, R)
  BY DEF TypeOK, Tokens, Kinds, UsesInv
<1> HIDE DEF F, R
<1>2. /\ Cardinality(F) \in Nat /\ Cardinality(R) \in Nat
      /\ Cardinality(F) + Cardinality(R) <= 1 + Guard!MostRetries
  BY <1>1, WindowBound
<1>3. QED
  BY <1>2 DEF Uses, F, R

\* Every step keeps ChildrenInv: a refresh is counted when it starts, and minting
\* turns a call in flight into a child.
LEMMA ChildrenStep ==
  ASSUME TypeOK, UsesInv, ChildrenInv, [Next]_vars
  PROVE  ChildrenInv'
<1> USE SessionAssumption
<1>1. ASSUME UNCHANGED <<pair, first, retries>>, forgotten \subseteq forgotten',
             \A o \in Ops : op'[o].pc # "idle" =>
               \/ op'[o].parent = 0
               \/ op[o].pc # "idle" /\ op'[o].parent = op[o].parent
      PROVE  ChildrenInv'
  <2>1. ASSUME NEW p \in Minted, <<p, "refresh">> \notin forgotten
        PROVE  Fits(Children(p)', Refreshing(p)', Uses(p))
    <3>1. p \in Pairs /\ p # 0
      BY PairShape DEF Pairs
    <3>2. Refreshing(p)' \subseteq Refreshing(p)
      BY <1>1, <3>1 DEF Refreshing
    <3>3. Children(p)' = Children(p)
      BY <1>1 DEF Children, Minted
    <3>4. Uses(p) \in Nat
      BY <2>1, <3>1, UsesShape
    <3>5. Fits(Children(p), Refreshing(p), Uses(p))
      BY <2>1 DEF ChildrenInv
    <3>6. Fits(Children(p), Refreshing(p)', Uses(p))
      BY <3>2, <3>4, <3>5, FitsSubset
    <3>7. QED
      BY <3>3, <3>6
  <2>2. \A p \in Minted' : <<p, "refresh">> \in forgotten'
                           \/ Fits(Children(p), Refreshing(p), Uses(p))'
    BY <1>1, <2>1 DEF Fits, Minted, Uses
  <2>3. QED
    BY <1>1, <2>2 DEF ChildrenInv, Minted
<1>2. CASE Tick
  BY <1>1, <1>2 DEF Tick, Guard!Pass
<1>3. ASSUME NEW o \in Ops, NEW c \in Clients, NEW v \in Secrets, LoginRead(o, c, v)
      PROVE  ChildrenInv'
  BY <1>1, <1>3 DEF LoginRead, TypeOK
<1>4. ASSUME NEW o \in Ops, NEW p \in Minted, RefreshValidate(o, p, "refresh")
      PROVE  ChildrenInv'
  <2>1. p \in Pairs
    BY PairShape
  <2>2. /\ Guard!FirstUse(<<p, "refresh">>) \/ Guard!Retry(<<p, "refresh">>)
        /\ forgotten' = forgotten
    <3>1. Guard!FirstUse(<<p, "refresh">>) \/ Guard!Retry(<<p, "refresh">>)
      BY <1>4 DEF RefreshValidate
    <3>2. QED
      BY <2>1, <3>1, GuardShape
  <2>3. /\ op[o].pc = "idle" /\ UNCHANGED pair
        /\ op' = [op EXCEPT ![o] = [pc |-> "read", sub |-> pair[p].sub, parent |-> p,
                                    root |-> pair[p].root]]
    BY <1>4 DEF RefreshValidate
  <2>4. /\ op'[o].pc = "read" /\ op'[o].parent = p
        /\ \A s \in Ops \ {o} : op'[s] = op[s]
    BY <2>3 DEF TypeOK
  <2>5. ASSUME NEW q \in Minted, <<q, "refresh">> \notin forgotten
        PROVE  Fits(Children(q)', Refreshing(q)', Uses(q)')
    <3>1. Children(q)' = Children(q)
      BY <2>3 DEF Children, Minted
    <3>2. q \in Pairs
      BY PairShape
    <3>3. Uses(q) \in Nat
      BY <2>5, <3>2, UsesShape
    <3>4. Fits(Children(q), Refreshing(q), Uses(q))
      BY <2>5 DEF ChildrenInv
    <3>5. CASE q = p
      <4>1. Refreshing(q)' = Refreshing(q) \cup {o}
        BY <2>3, <2>4, <3>5 DEF Refreshing
      <4>2. Uses(p)' = Uses(p) + 1
        BY <2>1, <2>2, <2>5, <3>5, UseCounted
      <4>3. Uses(q)' = Uses(q) + 1
        BY <3>5, <4>2
      <4>4. Fits(Children(q), Refreshing(q) \cup {o}, Uses(q) + 1)
        BY <3>3, <3>4, FitsAdd
      <4>5. QED
        BY <3>1, <4>1, <4>3, <4>4
    <3>6. CASE q # p
      <4>1. Refreshing(q)' = Refreshing(q)
        BY <2>3, <2>4, <3>6 DEF Refreshing
      <4>2. first'[<<q, "refresh">>] = first[<<q, "refresh">>]
            /\ retries'[<<q, "refresh">>] = retries[<<q, "refresh">>]
        BY <2>1, <2>2, <3>2, <3>6, UseElsewhere
      <4>3. Uses(q)' = Uses(q)
        BY <4>2 DEF Uses
      <4>4. QED
        BY <3>1, <3>4, <4>1, <4>3
    <3>7. QED
      BY <3>5, <3>6
  <2>6. \A q \in Minted' : <<q, "refresh">> \in forgotten'
                           \/ Fits(Children(q), Refreshing(q), Uses(q))'
    BY <2>2, <2>3, <2>5 DEF Fits, Minted
  <2>7. QED
    BY <2>3, <2>4, <2>6 DEF ChildrenInv, Minted
<1>5. ASSUME NEW o \in Ops, RefreshRead(o) PROVE ChildrenInv'
  <2>1. op[o].pc = "read" /\ UNCHANGED <<pair, first, retries, forgotten>>
    BY <1>5 DEF RefreshRead
  <2>2. \A s \in Ops : op'[s].pc # "idle" =>
          op[s].pc # "idle" /\ op'[s].parent = op[s].parent
    BY <1>5 DEF RefreshRead, Idle, TypeOK
  <2>3. QED
    BY <1>1, <2>1, <2>2
<1>6. ASSUME NEW o \in Ops, Mint(o) PROVE ChildrenInv'
  <2> DEFINE new == Len(pair) + 1
  <2>1. /\ op[o].pc = "mint" /\ op' = [op EXCEPT ![o] = Idle] /\ forgotten' = forgotten
        /\ \A q \in Pairs : Uses(q)' = Uses(q)
    BY <1>6 DEF Mint, Uses
  <2>2. /\ op'[o].pc = "idle"
        /\ \A s \in Ops \ {o} : op'[s] = op[s]
    BY <2>1 DEF Idle, TypeOK
  <2>3. /\ Minted' = Minted \cup {new} /\ new \in Pairs \ Minted
        /\ \A p \in Minted : pair'[p] = pair[p]
        /\ pair'[new].parent = op[o].parent
    <3>1. /\ Minted' = Minted \cup {new} /\ new \in Pairs \ Minted
          /\ \A p \in Minted : pair'[p] = pair[p]
          /\ pair'[new] = [sub |-> op[o].sub, minted |-> time,
                           parent |-> op[o].parent, root |-> op[o].root]
      BY <1>6, MintShape
    <3> HIDE DEF new
    <3>2. QED
      BY <3>1
  <2> HIDE DEF new
  <2>4. new # 0 /\ 0 \notin Minted
    BY <2>3, PairShape DEF Pairs
  <2>5. op[o].parent \in {0} \cup Minted
    BY <2>1 DEF ChildrenInv
  <2>6. ASSUME NEW q \in Minted', <<q, "refresh">> \notin forgotten
        PROVE  Fits(Children(q)', Refreshing(q)', Uses(q)')
    <3>1. q \in Pairs
      BY <2>3, PairShape
    <3>2. Uses(q) \in Nat /\ Uses(q)' = Uses(q)
      BY <2>1, <2>6, <3>1, UsesShape
    <3>3. CASE q = new
      <4>1. Children(q)' = {}
        BY <2>3, <2>4, <2>5, <3>3 DEF Children, ChildrenInv
      <4>2. Refreshing(q)' = {}
        BY <2>2, <2>3, <2>4, <3>3 DEF Refreshing, ChildrenInv
      <4>3. QED
        BY <3>2, <4>1, <4>2, FS_EmptySet DEF Fits
    <3>4. CASE q # new /\ q # op[o].parent
      <4>1. q \in Minted
        BY <2>3, <3>4
      <4>2. Children(q)' = Children(q)
        BY <2>3, <3>4 DEF Children
      <4>3. Refreshing(q)' = Refreshing(q)
        BY <2>1, <2>2, <3>4 DEF Refreshing
      <4>4. QED
        BY <2>6, <3>2, <4>1, <4>2, <4>3 DEF ChildrenInv
    <3>5. CASE q # new /\ q = op[o].parent
      <4>1. q \in Minted
        BY <2>3, <3>5
      <4>2. Children(q)' = Children(q) \cup {new}
        BY <2>3, <3>5 DEF Children
      <4>3. Refreshing(q)' = Refreshing(q) \ {o} /\ o \in Refreshing(q)
        BY <2>1, <2>2, <3>5 DEF Refreshing
      <4>4. Fits(Children(q), Refreshing(q), Uses(q))
        BY <2>6, <4>1 DEF ChildrenInv
      <4>5. Fits(Children(q) \cup {new}, Refreshing(q) \ {o}, Uses(q))
        BY <3>2, <4>3, <4>4, FitsMove
      <4>6. QED
        BY <3>2, <4>2, <4>3, <4>5
    <3>6. QED
      BY <3>3, <3>4, <3>5
  <2>7. \A q \in Minted' : <<q, "refresh">> \in forgotten'
                           \/ Fits(Children(q), Refreshing(q), Uses(q))'
    BY <2>1, <2>6 DEF Fits
  <2>8. \A s \in Ops : op'[s].pc # "idle" => op'[s].parent \in {0} \cup Minted'
    BY <2>2, <2>3 DEF ChildrenInv
  <2>9. \A q \in Minted' : pair'[q].parent \in {0} \cup Minted'
    BY <2>3, <2>5 DEF ChildrenInv
  <2>10. QED
    BY <2>7, <2>8, <2>9 DEF ChildrenInv
<1>7. ASSUME NEW o \in Ops, Abort(o) PROVE ChildrenInv'
  BY <1>1, <1>7 DEF Abort, Idle, TypeOK
<1>8. ASSUME NEW p \in Minted, NEW k \in Kinds, ApiCall(p, k) PROVE ChildrenInv'
  BY <1>1, <1>8 DEF ApiCall
<1>9. ASSUME NEW p \in Minted, NEW k \in Kinds, NEW c \in Clients,
             SetStatus(p, k, c) \/ RotateSecret(p, k, c)
      PROVE  ChildrenInv'
  BY <1>1, <1>9 DEF SetStatus, RotateSecret
<1>10. ASSUME NEW p \in Minted, ForgetUse(p) PROVE ChildrenInv'
  BY <1>1, <1>10 DEF ForgetUse, Guard!Forget
<1>11. CASE UNCHANGED vars
  BY <1>1, <1>11 DEF vars
<1>12. ASSUME NEW o \in Ops, NEW p \in Minted, NEW k \in Kinds, RefreshValidate(o, p, k)
       PROVE  k = "refresh"
  BY <1>12 DEF RefreshValidate, Presented, Accepted
<1>13. QED
  BY <1>2, <1>3, <1>4, <1>5, <1>6, <1>7, <1>8, <1>9, <1>10, <1>11, <1>12 DEF Next

\* However many refreshes race and die, and however late their commands run, a
\* pair whose use is on record begets no more pairs than the guard's window has
\* room for (api/auth.py:200-232), for any settings.
THEOREM ChildrenFew == Spec => []ChildrenBounded
<1>1. Init => UsesInv /\ ChildrenInv
  <2>1. Init => UsesInv
    BY DEF Init, Guard!Init, UsesInv, Window, Tokens, Kinds
  <2>2. Init => ChildrenInv
    BY DEF Init, Idle, ChildrenInv, Minted
  <2>3. QED
    BY <2>1, <2>2
<1>2. TypeOK /\ UsesInv /\ ChildrenInv /\ [Next]_vars => UsesInv' /\ ChildrenInv'
  BY UsesStep, ChildrenStep
<1>3. TypeOK /\ UsesInv /\ ChildrenInv => ChildrenBounded
  <2> SUFFICES ASSUME TypeOK, UsesInv, ChildrenInv, NEW p \in Minted,
                      <<p, "refresh">> \notin forgotten
               PROVE  Cardinality(Children(p)) <= 1 + Guard!MostRetries
    BY DEF ChildrenBounded
  <2>1. Uses(p) \in Nat /\ Uses(p) <= 1 + Guard!MostRetries
    BY PairShape, UsesShape
  <2>2. Fits(Children(p), Refreshing(p), Uses(p))
    BY DEF ChildrenInv
  <2>3. Cardinality(Children(p)) \in Nat /\ Cardinality(Refreshing(p)) \in Nat
    BY <2>2, FS_CardinalityType DEF Fits
  <2>4. Guard!MostRetries \in Nat
    <3>1. Grace + GuardDelay \in Nat /\ Grace + 1 \in Nat \ {0}
      BY SessionAssumption
    <3>2. (Grace + GuardDelay) \div (Grace + 1) \in Nat
      BY <3>1, DivMonotone
    <3>3. QED
      BY <3>2 DEF Guard!MostRetries
  <2>5. QED
    BY <2>1, <2>2, <2>3, <2>4 DEF Fits
<1>4. QED
  BY <1>1, <1>2, <1>3, SessionTypeCorrect, PTL DEF Spec

=============================================================================
