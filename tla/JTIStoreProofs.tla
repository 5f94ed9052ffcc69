--------------------------- MODULE JTIStoreProofs ---------------------------
(***************************************************************************)
(* What holds of the replay guard for any number of tokens and requests    *)
(* and any value of its settings.                                          *)
(***************************************************************************)
EXTENDS JTIStore, Spacing, FiniteSetTheorems, TLAPS

\* A request that waits for Redis has a clock sample no older than MaxDelay,
\* taken while the decoder still accepted the token; a slot it holds was taken
\* in between.
SampleInv ==
  \A r \in Requests : pc[r] \in Waiting =>
    /\ now[r] <= clock
    /\ clock <= now[r] + MaxDelay
    /\ now[r] < Exp[Jti[r]] + Skew
    /\ pc[r] = "expire" => now[r] <= at[r] /\ at[r] <= clock

\* A recorded first use outlives the token by the buffer, even when its SET
\* ran late; only a loss erases it.
RecordInv ==
  /\ \A j \in Jtis : main[j] = Absent \/ main[j].exp >= Exp[j] + Buffer
  /\ \A r \in Requests : pc[r] = "first" /\ ~lost[Jti[r]] =>
       main[Jti[r]].exp >= Exp[Jti[r]] + Buffer

\* The TTL is positive, and carries the key to the token's end plus the buffer.
LEMMA KeyExpiryBound ==
  ASSUME NEW r \in Requests, TypeOK, SampleInv, pc[r] \in Waiting
  PROVE  /\ KeyExpiry(r) \in Nat
         /\ KeyExpiry(r) > clock
         /\ KeyExpiry(r) >= Exp[Jti[r]] + Buffer
BY JTIAssumption DEF TypeOK, SampleInv, KeyExpiry

\* The state keeps its shape: keys, samples and verdicts are always of the
\* kinds is_replay writes.
THEOREM TypeCorrect == Spec => [](TypeOK /\ SampleInv)
<1>1. Init => TypeOK /\ SampleInv
  BY JTIAssumption DEF Init, TypeOK, SampleInv, Absent, NoTTL, Waiting, Verdicts, Admitted
<1>2. TypeOK /\ SampleInv /\ [Next]_vars => TypeOK' /\ SampleInv'
  <2> SUFFICES ASSUME TypeOK, SampleInv, [Next]_vars
               PROVE  TypeOK' /\ SampleInv'
    OBVIOUS
  <2> USE JTIAssumption DEF TypeOK, Waiting, Verdicts, Admitted, NoTTL
  <2>1. CASE Tick
    BY <2>1 DEF Tick, SampleInv
  <2>2. ASSUME NEW r \in Requests, Validate(r) PROVE TypeOK' /\ SampleInv'
    BY <2>2 DEF Validate, SampleInv
  <2>3. ASSUME NEW r \in Requests, FirstUse(r) PROVE TypeOK' /\ SampleInv'
    <3>1. pc[r] \in Waiting
      BY <2>3 DEF FirstUse
    <3>2. KeyExpiry(r) \in Nat
      BY <3>1, KeyExpiryBound
    <3>3. QED
      BY <2>3, <3>2 DEF FirstUse, SampleInv
  <2>4. ASSUME NEW r \in Requests, ReadFirstUse(r) PROVE TypeOK' /\ SampleInv'
    BY <2>4 DEF ReadFirstUse, SampleInv
  <2>5. ASSUME NEW r \in Requests, IncrFirst(r) PROVE TypeOK' /\ SampleInv'
    BY <2>5 DEF IncrFirst, SampleInv
  <2>5a. ASSUME NEW r \in Requests, IncrAgain(r) PROVE TypeOK' /\ SampleInv'
    BY <2>5a DEF IncrAgain, SampleInv
  <2>6. ASSUME NEW r \in Requests, Expire(r) PROVE TypeOK' /\ SampleInv'
    BY <2>6 DEF Expire, GraceExpiry, SampleInv
  <2>7. ASSUME NEW r \in Requests, Abort(r) PROVE TypeOK' /\ SampleInv'
    BY <2>7 DEF Abort, SampleInv
  <2>8. ASSUME NEW j \in Jtis, LoseMain(j) PROVE TypeOK' /\ SampleInv'
    BY <2>8 DEF LoseMain, Absent, SampleInv
  <2>8a. ASSUME NEW j \in Jtis, LoseGrace(j) PROVE TypeOK' /\ SampleInv'
    BY <2>8a DEF LoseGrace, SampleInv
  <2>9. CASE UNCHANGED vars
    BY <2>9 DEF vars, SampleInv
  <2>10. QED
    BY <2>1, <2>2, <2>3, <2>4, <2>5, <2>5a, <2>6, <2>7, <2>8, <2>8a, <2>9
       DEF Next, Command
<1>3. QED
  BY <1>1, <1>2, PTL DEF Spec

\* Records outlive their tokens, hence no second first use.
LEMMA RecordsHold == Spec => [](RecordInv /\ OneFirstUse)
<1>1. Init => RecordInv /\ OneFirstUse
  BY JTIAssumption DEF Init, RecordInv, OneFirstUse
<1>2. ASSUME TypeOK, SampleInv, RecordInv, OneFirstUse, [Next]_vars
      PROVE  RecordInv' /\ OneFirstUse'
  <2> USE <1>2, JTIAssumption
  <2>1. CASE Tick
    BY <2>1 DEF Tick, RecordInv, OneFirstUse, Forgotten, TypeOK
  <2>2. ASSUME NEW r \in Requests, FirstUse(r) PROVE RecordInv' /\ OneFirstUse'
    <3>1. KeyExpiry(r) >= Exp[Jti[r]] + Buffer /\ KeyExpiry(r) \in Nat
      BY <2>2, KeyExpiryBound DEF FirstUse, Waiting
    <3>2. RecordInv'
      BY <2>2, <3>1 DEF FirstUse, RecordInv, TypeOK
    <3>3. ASSUME NEW s \in Requests, s # r, Jti[s] = Jti[r], pc[s] = "first",
                 ~lost[Jti[r]]
          PROVE  clock >= Exp[Jti[r]] + Buffer
      BY <2>2, <3>3 DEF FirstUse, Live, RecordInv, TypeOK
    <3>4. OneFirstUse'
      BY <2>2, <3>3 DEF FirstUse, OneFirstUse, Forgotten, TypeOK
    <3>5. QED
      BY <3>2, <3>4
  <2>3. ASSUME NEW r \in Requests,
               Validate(r) \/ ReadFirstUse(r) \/ IncrFirst(r) \/ IncrAgain(r)
                 \/ Expire(r) \/ Abort(r)
        PROVE  RecordInv' /\ OneFirstUse'
    <3>1. /\ UNCHANGED <<clock, main, lost>>
          /\ \A s \in Requests : pc'[s] = "first" => pc[s] = "first"
      BY <2>3 DEF Validate, ReadFirstUse, IncrFirst, IncrAgain, Expire, Abort, TypeOK
    <3>2. QED
      BY <3>1 DEF RecordInv, OneFirstUse, Forgotten
  <2>4. ASSUME NEW j \in Jtis, LoseMain(j) PROVE RecordInv' /\ OneFirstUse'
    BY <2>4 DEF LoseMain, RecordInv, OneFirstUse, Forgotten, TypeOK
  <2>4a. ASSUME NEW j \in Jtis, LoseGrace(j) PROVE RecordInv' /\ OneFirstUse'
    BY <2>4a DEF LoseGrace, RecordInv, OneFirstUse, Forgotten, TypeOK
  <2>5. CASE UNCHANGED vars
    BY <2>5 DEF vars, RecordInv, OneFirstUse, Forgotten
  <2>6. QED
    BY <2>1, <2>2, <2>3, <2>4, <2>4a, <2>5 DEF Next, Command
<1>3. QED
  BY <1>1, <1>2, TypeCorrect, PTL DEF Spec

\* However requests interleave and however late their commands run, Redis
\* records one first use of a token until exp + buffer, unless it loses a key.
THEOREM FirstUseUnique == Spec => []OneFirstUse
BY RecordsHold, PTL

-----------------------------------------------------------------------------

\* The key of a used token is due at a known second, for every setting: a SET
\* that runs late, or within the leeway after the token's end, cannot make it
\* outlive the token by more.
THEOREM RecordsDue == Spec => []KeysDue
<1>1. Init => KeysDue
  BY JTIAssumption DEF Init, KeysDue, Absent
<1>2. ASSUME TypeOK, SampleInv, KeysDue, [Next]_vars
      PROVE  KeysDue'
  <2> USE <1>2, JTIAssumption DEF TypeOK, KeysDue
  <2>1. ASSUME NEW r \in Requests, FirstUse(r) PROVE KeysDue'
    <3>1. /\ now[r] <= clock /\ clock <= now[r] + MaxDelay
          /\ now[r] < Exp[Jti[r]] + Skew
      BY <2>1 DEF FirstUse, SampleInv, Waiting
    <3>2. KeyExpiry(r) <= Exp[Jti[r]] + (IF Buffer > Skew THEN Buffer ELSE Skew)
                            + MaxDelay
      BY <3>1 DEF KeyExpiry
    <3>3. QED
      BY <2>1, <3>2 DEF FirstUse
  <2>2. ASSUME NEW j \in Jtis, LoseMain(j) PROVE KeysDue'
    BY <2>2 DEF LoseMain, Absent
  <2>3. ASSUME UNCHANGED main PROVE KeysDue'
    BY <2>3
  <2>4. QED
    BY <2>1, <2>2, <2>3
       DEF Next, Command, vars, Tick, Validate, ReadFirstUse, IncrFirst,
           IncrAgain, Expire, Abort, LoseGrace
<1>3. QED
  BY <1>1, <1>2, TypeCorrect, PTL DEF Spec

\* Every step keeps the grace counters due: INCR leaves one without a TTL to a
\* request that is about to send EXPIRE, and only that request's death leaves it so.
LEMMA CountersStep ==
  ASSUME TypeOK, SampleInv, CountersDue, [Next]_vars
  PROVE  CountersDue'
<1> USE JTIAssumption DEF TypeOK, NoTTL
<1>1. ASSUME UNCHANGED grace,
             \A r \in Requests : pc[r] \in {"expire", "leak"} => pc'[r] \in {"expire", "leak"}
      PROVE  CountersDue'
  BY <1>1 DEF CountersDue
<1>2. ASSUME NEW r \in Requests, IncrFirst(r) PROVE CountersDue'
  BY <1>2 DEF IncrFirst, CountersDue
<1>3. ASSUME NEW r \in Requests, Expire(r) PROVE CountersDue'
  <2>1. clock + Grace + 1 <= Exp[Jti[r]] + Skew + MaxDelay + Grace
    BY <1>3 DEF Expire, SampleInv, Waiting
  <2>2. \A s \in Requests \ {r} : pc'[s] = pc[s]
    BY <1>3 DEF Expire
  <2>3. ASSUME NEW j \in Jtis \ {Jti[r]}
        PROVE  \/ grace'[j] # NoTTL /\ grace'[j] <= Exp[j] + Skew + MaxDelay + Grace
               \/ \E s \in Requests : Jti[s] = j /\ pc'[s] \in {"expire", "leak"}
    <3>1. grace'[j] = grace[j]
      BY <1>3 DEF Expire
    <3>2. QED
      BY <2>2, <3>1 DEF CountersDue
  <2>4. grace'[Jti[r]] # NoTTL /\ grace'[Jti[r]] <= Exp[Jti[r]] + Skew + MaxDelay + Grace
    BY <1>3, <2>1 DEF Expire, Live, GraceExpiry
  <2>5. QED
    BY <2>3, <2>4 DEF CountersDue
<1>4. ASSUME NEW j \in Jtis, LoseGrace(j) PROVE CountersDue'
  BY <1>4 DEF LoseGrace, CountersDue
<1>5. ASSUME NEW r \in Requests,
             \/ Validate(r) \/ FirstUse(r) \/ ReadFirstUse(r) \/ IncrAgain(r) \/ Abort(r)
      PROVE  CountersDue'
  BY <1>1, <1>5 DEF Validate, FirstUse, ReadFirstUse, IncrAgain, Abort, Waiting
<1>6. CASE Tick \/ UNCHANGED vars \/ \E j \in Jtis : LoseMain(j)
  BY <1>1, <1>6 DEF Tick, vars, LoseMain
<1>7. QED
  BY <1>2, <1>3, <1>4, <1>5, <1>6 DEF Next, Command

\* A grace counter is due at a known second, for every setting, unless a request
\* died between the counter's INCR and its EXPIRE.
THEOREM GraceCountersDue == Spec => []CountersDue
<1>1. Init => CountersDue
  BY JTIAssumption DEF Init, CountersDue, NoTTL
<1>2. TypeOK /\ SampleInv /\ CountersDue /\ [Next]_vars => CountersDue'
  BY CountersStep
<1>3. QED
  BY <1>1, <1>2, TypeCorrect, PTL DEF Spec

\* A grace slot, once taken, blocks the counter for the whole period: it has
\* no TTL yet, or expires more than Grace after the slot was taken.
SlotInv ==
  \A r \in Requests : pc[r] \in {"expire", "grace"} /\ ~lost[Jti[r]] =>
    /\ at[r] <= clock
    /\ grace[Jti[r]] = NoTTL \/ grace[Jti[r]] > at[r] + Grace

\* GraceSpacing, for the slots as Redis hands them out.
SlotSpacing ==
  \A r, s \in Requests :
    ( /\ r # s /\ Jti[r] = Jti[s]
      /\ pc[r] \in {"expire", "grace"} /\ pc[s] \in {"expire", "grace"} )
      => lost[Jti[r]] \/ at[r] - at[s] > Grace \/ at[s] - at[r] > Grace

\* Every step keeps the grace slots of a token apart.
LEMMA SlotStep ==
  ASSUME TypeOK, SlotInv, SlotSpacing, [Next]_vars
  PROVE  SlotInv' /\ SlotSpacing'
<1> USE JTIAssumption DEF TypeOK, NoTTL
<1>1. CASE Tick
  BY <1>1 DEF Tick, SlotInv, SlotSpacing
<1>2. ASSUME NEW r \in Requests, IncrFirst(r) PROVE SlotInv' /\ SlotSpacing'
  <2>1. SlotInv'
    BY <1>2 DEF IncrFirst, SlotInv
  <2>2. ASSUME NEW s \in Requests, s # r, Jti[s] = Jti[r],
               pc[s] \in {"expire", "grace"}, ~lost[Jti[r]]
        PROVE  clock - at[s] > Grace
    BY <1>2, <2>2 DEF IncrFirst, GraceFree, Live, SlotInv
  <2>3. SlotSpacing'
    BY <1>2, <2>2 DEF IncrFirst, SlotSpacing
  <2>4. QED
    BY <2>1, <2>3
<1>3. ASSUME NEW r \in Requests, Expire(r) PROVE SlotInv' /\ SlotSpacing'
  <2>1. SlotInv'
    BY <1>3 DEF Expire, GraceExpiry, Live, SlotInv
  <2>2. SlotSpacing'
    BY <1>3 DEF Expire, SlotSpacing
  <2>3. QED
    BY <2>1, <2>2
<1>4. ASSUME NEW r \in Requests,
             Validate(r) \/ ReadFirstUse(r) \/ IncrAgain(r) \/ Abort(r)
      PROVE  SlotInv' /\ SlotSpacing'
  <2>1. /\ UNCHANGED <<clock, grace, at, lost>>
        /\ \A s \in Requests : pc'[s] \in {"expire", "grace"} => pc'[s] = pc[s]
    BY <1>4 DEF Validate, ReadFirstUse, IncrAgain, Abort
  <2>2. QED
    BY <2>1 DEF SlotInv, SlotSpacing
<1>5. ASSUME NEW r \in Requests, FirstUse(r) PROVE SlotInv' /\ SlotSpacing'
  BY <1>5 DEF FirstUse, SlotInv, SlotSpacing
<1>6. ASSUME NEW j \in Jtis, LoseMain(j) PROVE SlotInv' /\ SlotSpacing'
  BY <1>6 DEF LoseMain, SlotInv, SlotSpacing
<1>6a. ASSUME NEW j \in Jtis, LoseGrace(j) PROVE SlotInv' /\ SlotSpacing'
  BY <1>6a DEF LoseGrace, SlotInv, SlotSpacing
<1>7. CASE UNCHANGED vars
  BY <1>7 DEF vars, SlotInv, SlotSpacing
<1>8. QED
  BY <1>1, <1>2, <1>3, <1>4, <1>5, <1>6, <1>6a, <1>7 DEF Next, Command

\* The slots of a token are apart at all times.
LEMMA SlotsHold == Spec => [](SlotInv /\ SlotSpacing)
<1>1. Init => SlotInv /\ SlotSpacing
  BY DEF Init, SlotInv, SlotSpacing
<1>2. TypeOK /\ SlotInv /\ SlotSpacing /\ [Next]_vars => SlotInv' /\ SlotSpacing'
  BY SlotStep
<1>3. QED
  BY <1>1, <1>2, TypeCorrect, PTL DEF Spec

\* Two grace uses of a token are more than a grace period apart, whatever
\* crashes between INCR and EXPIRE, unless Redis loses a key.
THEOREM GraceUsesApart == Spec => []GraceSpacing
<1>1. SlotSpacing => GraceSpacing
  BY DEF SlotSpacing, GraceSpacing
<1>2. QED
  BY <1>1, SlotsHold, PTL

-----------------------------------------------------------------------------

\* Token j is intact: Redis lost nothing of it, and its record must still stand.
Intact(j) == ~Forgotten(j)

\* The record of an intact token was made by a first use, no later than now.
WitnessInv ==
  \A j \in Jtis : Intact(j) /\ main[j] # Absent =>
    \E r \in Requests :
      /\ Jti[r] = j /\ pc[r] = "first"
      /\ main[j].val <= at[r] /\ at[r] <= clock

\* A request that passed the window check of an intact token sampled its clock
\* at most Grace seconds after that first use, and took the slot after it.
LatenessInv ==
  \A s \in Requests : Intact(Jti[s]) /\ pc[s] \in {"incr", "expire", "grace"} =>
    \E r \in Requests :
      /\ Jti[r] = Jti[s] /\ pc[r] = "first"
      /\ now[s] <= at[r] + Grace /\ at[r] <= clock
      /\ pc[s] # "incr" => at[r] <= at[s] /\ at[s] <= now[s] + MaxDelay

\* A first use stays on record for as long as its token is intact.
LEMMA WitnessStep ==
  ASSUME TypeOK, SampleInv, RecordInv, WitnessInv, [Next]_vars
  PROVE  WitnessInv'
<1> USE JTIAssumption DEF TypeOK
<1>1. CASE Tick
  BY <1>1 DEF Tick, WitnessInv, Intact, Forgotten
<1>2. ASSUME NEW r \in Requests, FirstUse(r) PROVE WitnessInv'
  <2>1. now[r] <= clock /\ Jti[r] \in Jtis
    BY <1>2 DEF FirstUse, SampleInv, Waiting
  <2>2. /\ main' = [main EXCEPT ![Jti[r]] = [val |-> now[r], exp |-> KeyExpiry(r)]]
        /\ pc'[r] = "first" /\ at'[r] = clock /\ clock' = clock /\ lost' = lost
    BY <1>2 DEF FirstUse
  <2>3. ASSUME NEW j \in Jtis \ {Jti[r]}, Intact(j)', main'[j] # Absent
        PROVE  \E s \in Requests :
                 /\ Jti[s] = j /\ pc'[s] = "first"
                 /\ main'[j].val <= at'[s] /\ at'[s] <= clock'
    <3>1. Intact(j) /\ main'[j] = main[j]
      BY <2>2, <2>3 DEF Intact, Forgotten
    <3>2. PICK s \in Requests : /\ Jti[s] = j /\ pc[s] = "first"
                                /\ main[j].val <= at[s] /\ at[s] <= clock
      BY <2>3, <3>1 DEF WitnessInv
    <3>3. pc'[s] = pc[s] /\ at'[s] = at[s]
      BY <1>2, <2>3, <3>2 DEF FirstUse
    <3>4. QED
      BY <2>2, <3>1, <3>2, <3>3
  <2>4. main'[Jti[r]].val = now[r]
    BY <2>1, <2>2
  <2>5. QED
    BY <2>1, <2>2, <2>3, <2>4 DEF WitnessInv
<1>3. ASSUME NEW r \in Requests,
             Validate(r) \/ ReadFirstUse(r) \/ IncrFirst(r) \/ IncrAgain(r)
               \/ Expire(r) \/ Abort(r)
      PROVE  WitnessInv'
  <2>1. /\ UNCHANGED <<clock, main, lost>>
        /\ \A s \in Requests : pc[s] = "first" => pc'[s] = "first" /\ at'[s] = at[s]
    BY <1>3 DEF Validate, ReadFirstUse, IncrFirst, IncrAgain, Expire, Abort, Waiting
  <2>2. QED
    BY <2>1 DEF WitnessInv, Intact, Forgotten
<1>4. ASSUME NEW j \in Jtis, LoseMain(j) \/ LoseGrace(j) PROVE WitnessInv'
  <2>1. /\ UNCHANGED <<clock, pc, at>> /\ lost' = [lost EXCEPT ![j] = TRUE]
        /\ \A i \in Jtis \ {j} : main'[i] = main[i]
    BY <1>4 DEF LoseMain, LoseGrace
  <2>2. ASSUME NEW i \in Jtis, Intact(i)' PROVE Intact(i) /\ main'[i] = main[i]
    BY <2>1, <2>2 DEF Intact, Forgotten
  <2>3. QED
    BY <2>1, <2>2 DEF WitnessInv
<1>5. CASE UNCHANGED vars
  BY <1>5 DEF vars, WitnessInv, Intact, Forgotten
<1>6. QED
  BY <1>1, <1>2, <1>3, <1>4, <1>5 DEF Next, Command

\* Each step keeps the requests behind the window check close to the first use.
LEMMA LatenessStep ==
  ASSUME TypeOK, SampleInv, RecordInv, WitnessInv, LatenessInv, [Next]_vars
  PROVE  LatenessInv'
<1> USE JTIAssumption DEF TypeOK
<1>1. CASE Tick
  BY <1>1 DEF Tick, LatenessInv, Intact, Forgotten
<1>2. ASSUME NEW r \in Requests, ReadFirstUse(r) PROVE LatenessInv'
  <2>1. /\ UNCHANGED <<clock, lost, at, now>>
        /\ pc' = [pc EXCEPT ![r] = IF TooLate(r) THEN "replay" ELSE "incr"]
        /\ pc[r] = "set" /\ Live(main[Jti[r]].exp)
    BY <1>2 DEF ReadFirstUse
  <2>2. ASSUME Intact(Jti[r]), ~TooLate(r)
        PROVE  \E q \in Requests : /\ Jti[q] = Jti[r] /\ pc[q] = "first"
                                   /\ now[r] <= at[q] + Grace /\ at[q] <= clock
    <3>1. main[Jti[r]] # Absent
      BY <2>1 DEF Live, Absent, NoTTL
    <3>2. PICK q \in Requests : /\ Jti[q] = Jti[r] /\ pc[q] = "first"
                                /\ main[Jti[r]].val <= at[q] /\ at[q] <= clock
      BY <2>2, <3>1 DEF WitnessInv
    <3>3. QED
      BY <2>2, <3>2 DEF TooLate
  <2>3. \A q \in Requests : pc[q] = "first" => pc'[q] = "first"
    BY <2>1
  <2>4. QED
    BY <2>1, <2>2, <2>3 DEF LatenessInv, Intact, Forgotten
<1>3. ASSUME NEW r \in Requests, IncrFirst(r) PROVE LatenessInv'
  BY <1>3 DEF IncrFirst, LatenessInv, Intact, Forgotten, SampleInv, Waiting
<1>4. ASSUME NEW r \in Requests,
             Validate(r) \/ IncrAgain(r) \/ Expire(r) \/ Abort(r)
      PROVE  LatenessInv'
  <2>1. /\ UNCHANGED <<clock, lost, at>>
        /\ \A s \in Requests : pc[s] = "first" => pc'[s] = "first"
        /\ \A s \in Requests : pc'[s] \in {"incr", "expire", "grace"} =>
             /\ now'[s] = now[s] /\ pc[s] \in {"incr", "expire", "grace"}
             /\ pc'[s] # "incr" => pc[s] # "incr"
    BY <1>4 DEF Validate, IncrAgain, Expire, Abort, Waiting
  <2>2. QED
    BY <2>1 DEF LatenessInv, Intact, Forgotten
<1>5. ASSUME NEW r \in Requests, FirstUse(r) PROVE LatenessInv'
  <2>1. /\ UNCHANGED <<clock, lost, now>>
        /\ \A s \in Requests : pc[s] = "first" => pc'[s] = "first" /\ at'[s] = at[s]
        /\ \A s \in Requests : pc'[s] \in {"incr", "expire", "grace"} =>
             pc'[s] = pc[s] /\ at'[s] = at[s]
    BY <1>5 DEF FirstUse
  <2>2. QED
    BY <2>1 DEF LatenessInv, Intact, Forgotten
<1>6. ASSUME NEW j \in Jtis, LoseMain(j) \/ LoseGrace(j) PROVE LatenessInv'
  BY <1>6 DEF LoseMain, LoseGrace, LatenessInv, Intact, Forgotten
<1>7. CASE UNCHANGED vars
  BY <1>7 DEF vars, LatenessInv, Intact, Forgotten
<1>8. QED
  BY <1>1, <1>2, <1>3, <1>4, <1>5, <1>6, <1>7 DEF Next, Command

\* Both hold at all times.
LEMMA LatenessHolds == Spec => [](WitnessInv /\ LatenessInv)
<1>1. Init => WitnessInv /\ LatenessInv
  BY DEF Init, WitnessInv, LatenessInv
<1>2. TypeOK /\ SampleInv /\ RecordInv /\ WitnessInv /\ LatenessInv /\ [Next]_vars
        => WitnessInv' /\ LatenessInv'
  BY WitnessStep, LatenessStep
<1>3. QED
  BY <1>1, <1>2, TypeCorrect, RecordsHold, PTL DEF Spec

\* A retry is admitted at most Grace + MaxDelay seconds after the first use,
\* and never before it, whatever the order of the commands.
THEOREM RetriesInTime == Spec => []RetryWithin
<1>1. TypeOK /\ OneFirstUse /\ LatenessInv => RetryWithin
  <2> SUFFICES ASSUME TypeOK, OneFirstUse, LatenessInv,
                      NEW r \in Requests, NEW s \in Requests, Jti[r] = Jti[s],
                      pc[r] = "first", pc[s] = "grace", Intact(Jti[r])
               PROVE  at[r] <= at[s] /\ at[s] - at[r] <= Grace + MaxDelay
    BY DEF RetryWithin, Intact
  <2>1. PICK q \in Requests :
           /\ Jti[q] = Jti[s] /\ pc[q] = "first" /\ now[s] <= at[q] + Grace
           /\ at[q] <= at[s] /\ at[s] <= now[s] + MaxDelay
    BY DEF LatenessInv
  <2>2. q = r
    BY <2>1 DEF OneFirstUse, Intact
  <2>3. QED
    BY <2>1, <2>2, JTIAssumption DEF TypeOK
<1>2. QED
  BY <1>1, TypeCorrect, RecordsHold, LatenessHolds, PTL

\* The retries of an intact token all lie between its first use and Grace +
\* MaxDelay seconds later, more than Grace apart: there is room for MostRetries.
LEMMA RoomForRetries ==
  ASSUME TypeOK, GraceSpacing, RetryWithin,
         NEW q \in Requests, pc[q] = "first", Intact(Jti[q])
  PROVE  LET R == {r \in Requests : Jti[r] = Jti[q] /\ pc[r] = "grace"}
         IN  IsFiniteSet(R) /\ Cardinality(R) <= Promise!MostRetries
<1> DEFINE R == {r \in Requests : Jti[r] = Jti[q] /\ pc[r] = "grace"}
           f == at[q]
           w == Grace + MaxDelay
<1>1. f \in Nat /\ w \in Nat /\ Grace \in Nat
  BY JTIAssumption DEF TypeOK
<1>2. \A r \in R : at[r] \in Nat /\ f <= at[r] /\ at[r] <= f + w
  BY JTIAssumption DEF TypeOK, RetryWithin, Intact
<1>3. \A r, s \in R : r # s => at[r] - at[s] > Grace \/ at[s] - at[r] > Grace
  BY DEF GraceSpacing, Intact, Forgotten
<1> HIDE DEF R, f, w
<1>4. IsFiniteSet(R) /\ Cardinality(R) <= 1 + w \div (Grace + 1)
  BY <1>1, <1>2, <1>3, Packing
<1>5. QED
  BY <1>4 DEF R, w, Promise!MostRetries

\* However late commands run and however requests race, one token lets a request
\* through at most 1 + MostRetries times while its record stands: twice if no
\* command crosses a second, three times for delays up to Grace + 1, and so on.
THEOREM UsesBounded == Spec => []BoundedUses
<1>1. TypeOK /\ OneFirstUse /\ LatenessInv /\ GraceSpacing /\ RetryWithin => BoundedUses
  <2> SUFFICES ASSUME TypeOK, OneFirstUse, LatenessInv, GraceSpacing, RetryWithin,
                      NEW j \in Jtis, Intact(j)
               PROVE  Cardinality(Users(j)) <= 1 + Promise!MostRetries
    BY DEF BoundedUses, Intact
  <2> DEFINE R == {r \in Requests : Jti[r] = j /\ pc[r] = "grace"}
  <2>0. Promise!MostRetries \in Nat
    BY JTIAssumption, DivMonotone DEF Promise!MostRetries
  <2>1. CASE \E q \in Requests : Jti[q] = j /\ pc[q] = "first"
    <3>1. PICK q \in Requests : Jti[q] = j /\ pc[q] = "first"
      BY <2>1
    <3>2. Users(j) = R \cup {q}
      BY <3>1 DEF Users, Admitted, OneFirstUse, Intact
    <3>3. IsFiniteSet(R) /\ Cardinality(R) <= Promise!MostRetries
      BY <3>1, RoomForRetries
    <3>4. Cardinality(R) \in Nat
      BY <3>3, FS_CardinalityType
    <3>5. \/ Cardinality(R \cup {q}) = Cardinality(R)
          \/ Cardinality(R \cup {q}) = Cardinality(R) + 1
      BY <3>3, FS_AddElement
    <3>6. QED
      BY <2>0, <3>2, <3>3, <3>4, <3>5
  <2>2. CASE ~\E q \in Requests : Jti[q] = j /\ pc[q] = "first"
    <3>1. Users(j) = {}
      BY <2>2 DEF Users, Admitted, LatenessInv
    <3>2. QED
      BY <2>0, <3>1, FS_EmptySet
  <2>3. QED
    BY <2>1, <2>2
<1>2. QED
  BY <1>1, TypeCorrect, RecordsHold, LatenessHolds, GraceUsesApart, RetriesInTime, PTL

-----------------------------------------------------------------------------

\* A step that admits no request leaves the uses of every token alone.
LEMMA SameSeconds ==
  ASSUME \A r \in Requests : pc[r] \in Admitted \/ pc'[r] \in Admitted =>
           pc'[r] = pc[r] /\ at'[r] = at[r]
  PROVE  \A j \in Jtis : \A v \in Admitted : Seconds(j, v)' = Seconds(j, v)
<1>1. ASSUME NEW j \in Jtis, NEW v \in Admitted PROVE Seconds(j, v)' = Seconds(j, v)
  <2>1. \A r \in Requests : (r \in Users(j)' /\ pc'[r] = v) <=> (r \in Users(j) /\ pc[r] = v)
    BY DEF Users
  <2>2. \A r \in Users(j) : at'[r] = at[r]
    BY DEF Users
  <2>3. QED
    BY <2>1, <2>2 DEF Seconds, Users
<1>2. QED
  BY <1>1

\* A step that admits one request adds its second to the uses of its kind of the
\* token it presents, and to no others.
LEMMA OneMoreSecond ==
  ASSUME TypeOK, NEW r \in Requests, NEW v \in Admitted,
         pc[r] \notin Admitted, pc' = [pc EXCEPT ![r] = v],
         \A s \in Requests \ {r} : at'[s] = at[s]
  PROVE  \A j \in Jtis : \A u \in Admitted :
           Seconds(j, u)' = IF j = Jti[r] /\ u = v THEN Seconds(j, u) \cup {at'[r]}
                                                   ELSE Seconds(j, u)
<1>1. ASSUME NEW j \in Jtis, NEW u \in Admitted
      PROVE  Seconds(j, u)' = IF j = Jti[r] /\ u = v THEN Seconds(j, u) \cup {at'[r]}
                                                     ELSE Seconds(j, u)
  <2>1. pc'[r] = v /\ \A s \in Requests \ {r} : pc'[s] = pc[s] /\ at'[s] = at[s]
    BY DEF TypeOK
  <2>2. r \notin Users(j)
    BY DEF Users
  <2>3. \A s \in Requests \ {r} : (s \in Users(j)' /\ pc'[s] = u) <=> (s \in Users(j) /\ pc[s] = u)
    BY <2>1 DEF Users
  <2>4. (r \in Users(j)' /\ pc'[r] = u) <=> (j = Jti[r] /\ u = v)
    BY <2>1 DEF Users
  <2>5. QED
    BY <2>1, <2>2, <2>3, <2>4 DEF Seconds, Users
<1>2. QED
  BY <1>1

\* Every step of the store is a step of the promise or a stutter.
LEMMA RefinementStep ==
  ASSUME TypeOK, SampleInv, RecordInv, LatenessInv, SlotSpacing, [Next]_vars
  PROVE  [Promise!Next]_Promise!tokenVars
<1> USE JTIAssumption DEF TypeOK
<1> DEFINE firsts == [j \in Jtis |-> Seconds(j, "first")]
           retried == [j \in Jtis |-> Seconds(j, "grace")]
           gone == {j \in Jtis : Forgotten(j)}
<1>1. ASSUME \A r \in Requests : pc[r] \in Admitted \/ pc'[r] \in Admitted =>
               pc'[r] = pc[r] /\ at'[r] = at[r]
      PROVE  firsts' = firsts /\ retried' = retried
  BY <1>1, SameSeconds DEF Admitted
<1>2. CASE Tick
  <2>1. firsts' = firsts /\ retried' = retried
    BY <1>1, <1>2 DEF Tick
  <2>2. clock' = clock + 1 /\ gone' = gone \cup gone'
    BY <1>2 DEF Tick, Forgotten
  <2>3. gone' \in SUBSET Jtis /\ Promise!Pass(gone')
    BY <2>1, <2>2 DEF Promise!Pass
  <2>4. QED
    BY <2>3 DEF Promise!Next
<1>3. ASSUME NEW i \in Jtis, LoseMain(i) \/ LoseGrace(i) PROVE Promise!Next
  <2>1. firsts' = firsts /\ retried' = retried
    BY <1>1, <1>3 DEF LoseMain, LoseGrace
  <2>2. clock' = clock /\ gone' = gone \cup gone'
    <3>1. clock' = clock /\ lost' = [lost EXCEPT ![i] = TRUE]
      BY <1>3 DEF LoseMain, LoseGrace
    <3>2. \A j \in Jtis : Forgotten(j) => Forgotten(j)'
      BY <3>1 DEF Forgotten
    <3>3. QED
      BY <3>1, <3>2
  <2>3. gone' \in SUBSET Jtis /\ Promise!Forget(gone')
    BY <2>1, <2>2 DEF Promise!Forget
  <2>4. QED
    BY <2>3 DEF Promise!Next
<1>4. ASSUME NEW r \in Requests, FirstUse(r) PROVE Promise!FirstUse(Jti[r])
  <2>1. \A j \in Jtis : \A u \in Admitted :
          Seconds(j, u)' = IF j = Jti[r] /\ u = "first" THEN Seconds(j, u) \cup {at'[r]}
                                                        ELSE Seconds(j, u)
    <3>1. /\ pc[r] \notin Admitted /\ pc' = [pc EXCEPT ![r] = "first"] /\ "first" \in Admitted
          /\ \A s \in Requests \ {r} : at'[s] = at[s]
      BY <1>4 DEF FirstUse, Admitted
    <3> HIDE DEF TypeOK
    <3>2. QED
      BY <3>1, OneMoreSecond
  <2>2. firsts' = [firsts EXCEPT ![Jti[r]] = firsts[Jti[r]] \cup {clock}] /\ retried' = retried
    <3>1. at'[r] = clock
      BY <1>4 DEF FirstUse
    <3>2. QED
      BY <2>1, <3>1 DEF Admitted
  <2>3. clock' = clock /\ gone' = gone
    BY <1>4 DEF FirstUse, Forgotten
  <2>4. firsts[Jti[r]] = {} \/ Jti[r] \in gone
    <3>1. SUFFICES ASSUME NEW q \in Requests, Jti[q] = Jti[r], pc[q] = "first", ~lost[Jti[r]]
                   PROVE  clock >= Exp[Jti[r]] + Buffer
      BY DEF Seconds, Users, Forgotten
    <3>2. QED
      BY <1>4, <3>1 DEF FirstUse, Live, RecordInv
  <2>5. QED
    BY <2>2, <2>3, <2>4 DEF Promise!FirstUse
<1>5. ASSUME NEW r \in Requests, Expire(r) PROVE Promise!Retry(Jti[r])
  <2>1. \A j \in Jtis : \A u \in Admitted :
          Seconds(j, u)' = IF j = Jti[r] /\ u = "grace" THEN Seconds(j, u) \cup {at'[r]}
                                                        ELSE Seconds(j, u)
    <3>1. /\ pc[r] \notin Admitted /\ pc' = [pc EXCEPT ![r] = "grace"] /\ "grace" \in Admitted
          /\ \A s \in Requests \ {r} : at'[s] = at[s]
      BY <1>5 DEF Expire, Admitted
    <3> HIDE DEF TypeOK
    <3>2. QED
      BY <3>1, OneMoreSecond
  <2>2. retried' = [retried EXCEPT ![Jti[r]] = retried[Jti[r]] \cup {at[r]}] /\ firsts' = firsts
    <3>1. at'[r] = at[r]
      BY <1>5 DEF Expire
    <3>2. QED
      BY <2>1, <3>1 DEF Admitted
  <2>3. clock' = clock /\ gone' = gone
    BY <1>5 DEF Expire, Forgotten
  <2>4. at[r] \in (clock - MaxDelay)..clock /\ at[r] >= 0
    BY <1>5 DEF Expire, SampleInv, Waiting
  <2>5. ASSUME Jti[r] \notin gone PROVE Promise!Grantable(Jti[r], at[r])
    <3>1. PICK q \in Requests :
             /\ Jti[q] = Jti[r] /\ pc[q] = "first" /\ now[r] <= at[q] + Grace
             /\ at[q] <= at[r] /\ at[r] <= now[r] + MaxDelay
      BY <1>5, <2>5 DEF Expire, LatenessInv, Intact
    <3>2. at[q] \in firsts[Jti[r]] /\ at[q] <= at[r] /\ at[r] <= at[q] + Grace + MaxDelay
      BY <3>1 DEF Seconds, Users, Admitted
    <3>3. ASSUME NEW g \in retried[Jti[r]] PROVE at[r] - g > Grace \/ g - at[r] > Grace
      <4>1. PICK s \in Requests : Jti[s] = Jti[r] /\ pc[s] = "grace" /\ g = at[s]
        BY <3>3 DEF Seconds, Users
      <4>2. s # r /\ pc[r] = "expire" /\ ~lost[Jti[r]]
        BY <1>5, <2>5, <4>1 DEF Expire, Forgotten
      <4>3. QED
        BY <4>1, <4>2 DEF SlotSpacing
    <3>4. QED
      BY <3>2, <3>3 DEF Promise!Grantable
  <2>6. QED
    BY <2>2, <2>3, <2>4, <2>5 DEF Promise!Retry
<1>6. ASSUME UNCHANGED <<clock, lost>>, firsts' = firsts, retried' = retried
      PROVE  UNCHANGED Promise!tokenVars
  BY <1>6 DEF Promise!tokenVars, Forgotten
<1>7. ASSUME NEW r \in Requests,
             Validate(r) \/ ReadFirstUse(r) \/ IncrFirst(r) \/ IncrAgain(r) \/ Abort(r)
      PROVE  UNCHANGED Promise!tokenVars
  <2>1. \A s \in Requests : pc[s] \in Admitted \/ pc'[s] \in Admitted =>
          pc'[s] = pc[s] /\ at'[s] = at[s]
    BY <1>7 DEF Validate, ReadFirstUse, IncrFirst, IncrAgain, Abort, Waiting, Admitted
  <2>2. UNCHANGED <<clock, lost>>
    BY <1>7 DEF Validate, ReadFirstUse, IncrFirst, IncrAgain, Abort
  <2>3. QED
    BY <1>1, <1>6, <2>1, <2>2
<1>8. CASE UNCHANGED vars
  <2>1. UNCHANGED <<clock, lost, pc, at>>
    BY <1>8 DEF vars
  <2>2. QED
    BY <1>1, <1>6, <2>1
<1>9. QED
  BY <1>2, <1>3, <1>4, <1>5, <1>7, <1>8 DEF Next, Command, Promise!Next

\* The store implements the promise, for any number of tokens and requests, any
\* delay of commands, any order of buffer and leeway, and whatever keys Redis
\* loses: a use it lets through is one that OneTimeToken allows at that moment.
THEOREM StoreKeepsPromise == Spec => KeepsPromise
<1>1. Init => Promise!Init
  <2> SUFFICES ASSUME Init PROVE Promise!Init
    OBVIOUS
  <2>1. \A j \in Jtis : Seconds(j, "first") = {} /\ Seconds(j, "grace") = {}
    BY DEF Init, Seconds, Users, Admitted
  <2>2. QED
    BY <2>1 DEF Init, Promise!Init
<1>2. TypeOK /\ SampleInv /\ RecordInv /\ LatenessInv /\ SlotSpacing /\ [Next]_vars
        => [Promise!Next]_Promise!tokenVars
  BY RefinementStep
<1>3. QED
  BY <1>1, <1>2, TypeCorrect, RecordsHold, LatenessHolds, SlotsHold, PTL
     DEF Spec, KeepsPromise, Promise!Spec

=============================================================================
