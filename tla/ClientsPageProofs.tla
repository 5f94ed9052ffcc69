------------------------- MODULE ClientsPageProofs --------------------------
(***************************************************************************)
(* What holds of the client page for any number of clients and of calls in *)
(* flight, whatever fails, crosses or comes from other admins.             *)
(***************************************************************************)
EXTENDS ClientsPage, SequenceTheorems, TLAPS

CallsTyped == calls \in [Slots -> Call]

LEMMA RowFacts ==
  /\ NoRow \notin Row /\ Stored \subseteq Row
  /\ \A b \in BOOLEAN : AsStatus(b) \in Row
  /\ Nothing \in Table /\ MockTable \in Table
BY ClientsPageAssumption DEF NoRow, Row, Stored, AsStatus, Nothing, MockTable, Table, AllIds

LEMMA NewCalls ==
  /\ NewFetch \in Call /\ Idle \in Call
  /\ \A kind \in {"status", "limit", "rotate"}, i \in AllIds, row \in Row :
       NewChange(kind, i, row) \in Call
  /\ \A i \in Ids, row \in Stored : NewChange("create", i, row) \in Call
BY RowFacts, ClientsPageAssumption
   DEF Call, NewFetch, Fetch, Change, Creation, Answers, NewChange, Invented

\* What a call is, by its kind.
LEMMA ChangeOf ==
  ASSUME CallsTyped, NEW s \in Slots, calls[s] # Idle
  PROVE  /\ calls[s].kind = "fetch" => calls[s] \in Fetch
         /\ calls[s].kind = "create" => calls[s] \in Creation
         /\ calls[s].kind \notin {"fetch", "create"} => calls[s] \in Change
BY DEF CallsTyped, Call, Fetch, Change, Creation

\* An answer makes of a call a call.
LEMMA AnsweredTyped ==
  ASSUME CallsTyped, NEW s \in Slots, calls[s] # Idle, NEW st \in Answers,
         calls' = [calls EXCEPT ![s].st = st]
  PROVE  CallsTyped'
<1>1. [calls[s] EXCEPT !.st = st] \in Fetch \cup Change \cup Creation
  BY ChangeOf DEF Fetch, Change, Creation
<1>2. QED
  BY <1>1 DEF CallsTyped, Call

LEMMA IssueTyped ==
  ASSUME TypeOK, NEW s \in Slots, NEW i \in Ids, calls[s] \in Change \cup Creation, Issue(s, i)
  PROVE  CallsTyped' /\ owner' \in Seq(Ids) /\ Len(owner') <= MaxSecrets
<1>1. owner \in Seq(Ids) /\ Len(owner) \in Nat /\ Len(owner) < MaxSecrets
  BY DEF TypeOK, Issue
<1>2. owner' \in Seq(Ids) /\ Len(owner') = Len(owner) + 1
  <2>1. owner' = Append(owner, i)
    BY DEF Issue
  <2>2. QED
    BY <1>1, <2>1, AppendProperties
<1>3. [calls[s] EXCEPT !.st = "ok", !.secret = Len(owner) + 1] \in Change \cup Creation
  <2>1. Len(owner) + 1 \in 0..MaxSecrets
    BY <1>1, ClientsPageAssumption
  <2>2. CASE calls[s] \in Change
    BY <2>1, <2>2 DEF Change, Answers
  <2>3. CASE calls[s] \in Creation
    BY <2>1, <2>3 DEF Creation, Answers
  <2>4. QED
    BY <2>2, <2>3
<1>4. [calls[s] EXCEPT !.st = "failed"] \in Change \cup Creation
  BY DEF Change, Creation, Answers
<1>5. CallsTyped'
  BY <1>3, <1>4 DEF Issue, TypeOK, CallsTyped, Call
<1>6. QED
  BY <1>1, <1>2, <1>5, ClientsPageAssumption

\* Everything that is shown and everything in flight keeps its shape; one
\* dialogue of a kind is open at most.
THEOREM PageTypeCorrect == Spec => []TypeOK
<1>1. Init => TypeOK
  <2> SUFFICES ASSUME Init PROVE TypeOK
    OBVIOUS
  <2>1. calls \in [Slots -> Call]
    BY NewCalls DEF Init
  <2>2. owner \in Seq(Ids) /\ Len(owner) <= MaxSecrets
    BY ClientsPageAssumption DEF Init
  <2>3. clients \in Table /\ rows \in [Ids -> Stored \cup {NoRow}]
    BY RowFacts DEF Init
  <2>4. QED
    BY <2>1, <2>2, <2>3 DEF Init, TypeOK, AtMostOne
<1>2. TypeOK /\ [Next]_vars => TypeOK'
  <2> SUFFICES ASSUME TypeOK, [Next]_vars PROVE TypeOK'
    OBVIOUS
  <2>0. CallsTyped
    BY DEF TypeOK, CallsTyped, Call
  <2>00. CallsTyped' => calls' \in [Slots -> Call]
    BY DEF CallsTyped
  <2> USE RowFacts, NewCalls
  <2>1. CASE Remount
    <3>1. CallsTyped'
      BY <2>1 DEF Remount, CallsTyped
    <3>2. QED
      BY <2>00, <2>1, <3>1 DEF Remount, TypeOK, AtMostOne
  <2>2. ASSUME NEW i \in AllIds, ClickStatus(i) \/ ClickRotate(i) \/ ClickLimit(i) PROVE TypeOK'
    <3>1. clients[i] \in Row
      BY <2>2 DEF ClickStatus, ClickRotate, ClickLimit, Shown, TypeOK, Table
    <3>2. CASE ClickStatus(i)
      BY <3>1, <3>2 DEF ClickStatus, TypeOK, AtMostOne, Status, Row
    <3>3. CASE ClickRotate(i)
      BY <3>3 DEF ClickRotate, TypeOK, AtMostOne
    <3>4. CASE ClickLimit(i)
      BY <3>1, <3>4 DEF ClickLimit, TypeOK, AtMostOne, Edit
    <3>5. QED
      BY <2>2, <3>2, <3>3, <3>4
  <2>3. ASSUME NEW n \in {0} \cup Limits, TypeLimit(n) PROVE TypeOK'
    <3>1. \A e \in Edit : [e EXCEPT !.row.limit = n] \in Edit
      BY DEF Edit, Row
    <3>2. editingRateLimit' \subseteq Edit /\ AtMostOne(editingRateLimit')
      BY <2>3, <3>1 DEF TypeLimit, TypeOK, AtMostOne
    <3>3. QED
      BY <2>3, <3>2 DEF TypeLimit, TypeOK, AtMostOne
  <2>4. CASE ClickCreate \/ Cancel \/ Dismiss
    BY <2>4 DEF ClickCreate, Cancel, Dismiss, dialogues, TypeOK, AtMostOne
  <2>5. ASSUME NEW s \in Slots, Sends(s) PROVE TypeOK'
    <3>1. ASSUME NEW c \in Call, Send(s, c) PROVE TypeOK'
      <4>1. CallsTyped'
        BY <2>0, <3>1 DEF Send, CallsTyped
      <4>2. QED
        BY <2>00, <3>1, <4>1 DEF Send, screen, dialogues, TypeOK, AtMostOne
    <3>2. CASE HandleToggleStatus(s)
      BY <3>1, <3>2 DEF HandleToggleStatus, TypeOK, Status
    <3>3. CASE HandleUpdateRateLimit(s)
      BY <3>1, <3>3 DEF HandleUpdateRateLimit, TypeOK, Edit
    <3>4. CASE HandleRotateSecret(s)
      BY <3>1, <3>4 DEF HandleRotateSecret, TypeOK
    <3>5. CASE HandleCreateClient(s)
      <4>1. \A n \in Limits : [active |-> TRUE, limit |-> n] \in Stored
        BY DEF Stored
      <4>2. QED
        BY <3>1, <3>5, <4>1 DEF HandleCreateClient, AllIds
    <3>6. QED
      BY <2>5, <3>2, <3>3, <3>4, <3>5 DEF Sends
  <2>6. ASSUME NEW s \in Slots, Serves(s) PROVE TypeOK'
    <3>1. CASE ServeStatus(s) \/ ServeLimit(s) \/ Fail(s)
      <4>1. calls[s] # Idle
        BY <3>1 DEF ServeStatus, ServeLimit, Fail, Waiting, At
      <4>2. CallsTyped'
        BY <2>0, <3>1, <4>1, AnsweredTyped DEF ServeStatus, ServeLimit, Fail, Answered, Answers
      <4>3. rows' \in [Ids -> Stored \cup {NoRow}]
        <5>1. CASE ServeStatus(s)
          <6>1. calls[s] \in Change /\ calls[s].row.active \in BOOLEAN
            BY <2>0, <5>1, ChangeOf DEF ServeStatus, Waiting, At, Change, Row
          <6>2. calls[s].id \in Ids /\ rows[calls[s].id] \in Stored
            BY <5>1 DEF ServeStatus, Known, TypeOK
          <6>3. [rows[calls[s].id] EXCEPT !.active = calls[s].row.active] \in Stored
            BY <6>1, <6>2 DEF Stored
          <6>4. QED
            BY <5>1, <6>2, <6>3 DEF ServeStatus, TypeOK
        <5>2. CASE ServeLimit(s)
          <6>1. calls[s].id \in Ids /\ rows[calls[s].id] \in Stored /\ calls[s].row.limit \in Limits
            BY <5>2 DEF ServeLimit, Known, TypeOK
          <6>2. [rows[calls[s].id] EXCEPT !.limit = calls[s].row.limit] \in Stored
            BY <6>1 DEF Stored
          <6>3. QED
            BY <5>2, <6>1, <6>2 DEF ServeLimit, TypeOK
        <5>3. CASE Fail(s)
          BY <5>3 DEF Fail, TypeOK
        <5>4. QED
          BY <3>1, <5>1, <5>2, <5>3
      <4>4. QED
        BY <2>00, <3>1, <4>2, <4>3
           DEF ServeStatus, ServeLimit, Fail, Answered, screen, dialogues, TypeOK, AtMostOne
    <3>2. CASE ServeRotate(s)
      <4>1. calls[s] \in Change /\ calls[s].id \in Ids
        BY <2>0, <3>2, ChangeOf DEF ServeRotate, Waiting, At, Known
      <4>2. CallsTyped' /\ owner' \in Seq(Ids) /\ Len(owner') <= MaxSecrets
        BY <3>2, <4>1, IssueTyped DEF ServeRotate
      <4>3. QED
        BY <2>00, <3>2, <4>2 DEF ServeRotate, Issue, screen, dialogues, TypeOK, AtMostOne
    <3>3. CASE ServeCreate(s)
      <4>1. calls[s] \in Creation
        BY <2>0, <3>3, ChangeOf DEF ServeCreate, Waiting, At
      <4>2. calls[s].id \in Ids /\ calls[s].row \in Stored
        BY <4>1 DEF Creation
      <4>3. CallsTyped' /\ owner' \in Seq(Ids) /\ Len(owner') <= MaxSecrets
        BY <3>3, <4>1, <4>2, IssueTyped DEF ServeCreate
      <4>4. rows' \in [Ids -> Stored \cup {NoRow}]
        BY <3>3, <4>2 DEF ServeCreate, TypeOK
      <4>5. QED
        BY <2>00, <3>3, <4>3, <4>4 DEF ServeCreate, Issue, screen, dialogues, TypeOK, AtMostOne
    <3>4. CASE ServeFetch(s)
      <4>1. Listing \in Table
        BY DEF Listing, Table, TypeOK, AllIds
      <4>2. calls[s] \in Fetch
        BY <2>0, <3>4, ChangeOf DEF ServeFetch, Waiting, At
      <4>3. [calls[s] EXCEPT !.st = "ok", !.table = Listing] \in Fetch
        BY <4>1, <4>2 DEF Fetch, Answers
      <4>4. CallsTyped'
        BY <2>0, <3>4, <4>3 DEF ServeFetch, CallsTyped, Call
      <4>5. QED
        BY <2>00, <3>4, <4>4 DEF ServeFetch, screen, dialogues, TypeOK, AtMostOne
    <3>5. QED
      BY <2>6, <3>1, <3>2, <3>3, <3>4 DEF Serves
  <2>7. ASSUME NEW s \in Slots, Lands(s) PROVE TypeOK'
    <3>1. calls[s] # Idle
      BY <2>7 DEF Lands, StatusDone, StatusFailed, LimitDone, LimitFailed, CreateDone,
                  CreateFailed, RotateDone, RotateFailed, FetchDone, FetchFailed, At
    <3>2. ASSUME NEW i \in AllIds, NEW row \in Row, clients' = Patched(i, row)
          PROVE  clients' \in Table
      BY <3>2 DEF Patched, Table, TypeOK
    <3>3. Refetch(s) \/ Quietly(s) \/ Pretend(s) => CallsTyped' /\ trusted' \in BOOLEAN
      BY <2>0 DEF Refetch, Quietly, Pretend, CallsTyped, TypeOK, Fetching
    <3> USE DEF At, AtMostOne
    <3>4. CASE StatusDone(s) \/ LimitDone(s)
      BY <2>00, <3>3, <3>4 DEF StatusDone, LimitDone, TypeOK
    <3>5. CASE StatusFailed(s)
      <4>1. calls[s] \in Change
        BY <2>0, <3>5, ChangeOf DEF StatusFailed
      <4>2. calls[s].id \in AllIds /\ calls[s].row \in Row
        BY <4>1 DEF Change
      <4>3. clients' \in Table
        BY <3>5, <4>2 DEF StatusFailed, Patched, Table, Row, TypeOK
      <4>4. QED
        BY <2>00, <3>3, <3>5, <4>3 DEF StatusFailed, TypeOK
    <3>6. CASE LimitFailed(s)
      <4>1. calls[s] \in Change
        BY <2>0, <3>6, ChangeOf DEF LimitFailed
      <4>2. calls[s].id \in AllIds /\ calls[s].row \in Row
        BY <4>1 DEF Change
      <4>3. clients' \in Table
        BY <3>2, <3>6, <4>2 DEF LimitFailed
      <4>4. QED
        BY <2>00, <3>3, <3>6, <4>3 DEF LimitFailed, TypeOK
    <3>7. CASE CreateDone(s) \/ CreateFailed(s) \/ RotateDone(s) \/ RotateFailed(s)
      <4>1. calls[s].id \in AllIds /\ calls[s].secret \in 0..MaxSecrets
        BY <2>0, <3>7, ChangeOf DEF CreateDone, CreateFailed, RotateDone, RotateFailed,
                                    Change, Creation, AllIds
      <4>2. newClientSecret' \subseteq Credentials /\ AtMostOne(newClientSecret')
        BY <3>7, <4>1, ClientsPageAssumption
           DEF CreateDone, CreateFailed, RotateDone, RotateFailed, Display, Credentials, Invented
      <4>3. CallsTyped' /\ trusted' \in BOOLEAN
        BY <3>3, <3>7 DEF CreateDone, CreateFailed, RotateDone, RotateFailed
      <4>4. QED
        BY <2>00, <3>7, <4>2, <4>3 DEF CreateDone, CreateFailed, RotateDone, RotateFailed, TypeOK
    <3>8. CASE FetchDone(s) \/ FetchFailed(s)
      <4>1. calls[s].table \in Table
        BY <2>0, <3>1, <3>8, ChangeOf DEF FetchDone, FetchFailed, Fetch
      <4>2. CallsTyped' /\ trusted' \in BOOLEAN
        BY <3>3, <3>8 DEF FetchDone, FetchFailed
      <4>3. QED
        BY <2>00, <3>8, <4>1, <4>2 DEF FetchDone, FetchFailed, screen, dialogues, TypeOK
    <3>9. QED
      BY <2>7, <3>4, <3>5, <3>6, <3>7, <3>8 DEF Lands
  <2>8. ASSUME NEW i \in Ids, NEW row \in Stored, Elsewhere(i, row) PROVE TypeOK'
    BY <2>8 DEF Elsewhere, screen, dialogues, TypeOK, AtMostOne
  <2>9. CASE UNCHANGED vars
    BY <2>9 DEF vars, screen, dialogues, TypeOK, AtMostOne
  <2>10. QED
    BY <2>1, <2>2, <2>3, <2>4, <2>5, <2>6, <2>7, <2>8, <2>9 DEF Next, Clicks
<1>3. QED
  BY <1>1, <1>2, PTL DEF Spec

-----------------------------------------------------------------------------
(* The secrets.                                                             *)

\* By the owners own, secret k was generated for client i, unless the page invented it.
For(own, k, i) == k # Invented => k \in 1..Len(own) /\ own[k] = i

\* On display, and in the answers that will be.
SecretsFor ==
  /\ \A x \in newClientSecret : For(owner, x.secret, x.id)
  /\ \A s \in Slots : calls[s] # Idle /\ calls[s].kind # "fetch" =>
                        For(owner, calls[s].secret, calls[s].id)

\* A generated secret stays that of its client.
LEMMA OwnersStay ==
  ASSUME TypeOK, NEW s \in Slots, NEW i \in Ids, Issue(s, i)
  PROVE  \A k, j : For(owner, k, j) => For(owner', k, j)
<1>1. owner' = Append(owner, i) /\ owner \in Seq(Ids) /\ Len(owner) \in Nat
  BY DEF Issue, TypeOK
<1>2. Len(owner') = Len(owner) + 1 /\ \A x \in 1..Len(owner) : owner'[x] = owner[x]
  BY <1>1, AppendProperties
<1>3. QED
  BY <1>1, <1>2 DEF For

\* The new secret is that of the client it was asked for.
LEMMA IssueFor ==
  ASSUME TypeOK, SecretsFor, NEW s \in Slots, NEW i \in Ids,
         calls[s] \in Change \cup Creation, calls[s].id = i, calls[s] # Idle, Issue(s, i)
  PROVE  SecretsFor'
<1>1. calls \in [Slots -> Call] /\ calls[s].kind # "fetch"
  BY DEF TypeOK, Change, Creation
<1>2. For(owner', Len(owner) + 1, i)
  <2>1. owner' = Append(owner, i) /\ owner \in Seq(Ids) /\ Len(owner) \in Nat
    BY DEF Issue, TypeOK
  <2>2. Len(owner') = Len(owner) + 1 /\ owner'[Len(owner) + 1] = i
    BY <2>1, AppendProperties
  <2>3. QED
    BY <2>1, <2>2 DEF For
<1>3. For(owner', calls'[s].secret, calls'[s].id)
  <2>1. CASE calls' = [calls EXCEPT ![s].st = "ok", ![s].secret = Len(owner) + 1]
    <3>1. calls'[s].secret = Len(owner) + 1 /\ calls'[s].id = i
      BY <1>1, <2>1 DEF Change, Creation
    <3>2. QED
      BY <1>2, <3>1
  <2>2. CASE calls' = [calls EXCEPT ![s].st = "failed"]
    <3>1. calls'[s].secret = calls[s].secret /\ calls'[s].id = calls[s].id
      BY <1>1, <2>2 DEF Change, Creation
    <3>2. For(owner, calls[s].secret, calls[s].id)
      BY <1>1 DEF SecretsFor
    <3>3. For(owner', calls[s].secret, calls[s].id)
      BY <3>2, OwnersStay
    <3>4. QED
      BY <3>1, <3>3
  <2>3. QED
    BY <2>1, <2>2 DEF Issue
<1>4. \A x \in Slots : x # s => calls'[x] = calls[x]
  BY <1>1 DEF Issue
<1>5. newClientSecret' = newClientSecret
  BY DEF Issue, screen
<1>6. \A k, j : For(owner, k, j) => For(owner', k, j)
  BY OwnersStay
<1>7. \A x \in newClientSecret' : For(owner', x.secret, x.id)
  BY <1>5, <1>6 DEF SecretsFor
<1>8. ASSUME NEW x \in Slots, calls'[x] # Idle, calls'[x].kind # "fetch"
      PROVE  For(owner', calls'[x].secret, calls'[x].id)
  <2>1. CASE x = s
    BY <1>3, <2>1
  <2>2. CASE x # s
    <3>1. For(owner, calls[x].secret, calls[x].id)
      BY <1>4, <1>8, <2>2 DEF SecretsFor
    <3>2. QED
      BY <1>4, <1>6, <2>2, <3>1
  <2>3. QED
    BY <2>1, <2>2
<1>9. QED
  BY <1>7, <1>8 DEF SecretsFor

\* Every secret on display, and in every answer, is that of its client.
LEMMA SecretsKnown == Spec => []SecretsFor
<1>1. Init => SecretsFor
  BY NewCalls DEF Init, SecretsFor, NewFetch
<1>2. TypeOK /\ SecretsFor /\ [Next]_vars => SecretsFor'
  <2> SUFFICES ASSUME TypeOK, SecretsFor, [Next]_vars PROVE SecretsFor'
    OBVIOUS
  <2>0. CallsTyped /\ calls \in [Slots -> Call]
    BY DEF TypeOK, CallsTyped, Call
  <2> USE DEF For, SecretsFor
  <2>1. CASE Remount
    BY <2>1 DEF Remount, NewFetch
  <2>2. CASE Clicks
    BY <2>2 DEF Clicks, ClickStatus, ClickRotate, ClickLimit, TypeLimit, ClickCreate, Cancel, Dismiss
  <2>3. ASSUME NEW s \in Slots, Sends(s) PROVE SecretsFor'
    <3>1. ASSUME NEW c, Send(s, c), c.kind # "fetch" => c.secret = Invented PROVE SecretsFor'
      BY <2>0, <3>1 DEF Send, screen
    <3>2. \A kind, i, row : NewChange(kind, i, row).secret = Invented
      BY DEF NewChange
    <3>3. \A kind, i, row : Send(s, NewChange(kind, i, row)) => SecretsFor'
      BY <3>1, <3>2
    <3>4. CASE HandleToggleStatus(s)
      BY <3>3, <3>4 DEF HandleToggleStatus
    <3>5. CASE HandleUpdateRateLimit(s)
      BY <3>3, <3>5 DEF HandleUpdateRateLimit
    <3>6. CASE HandleRotateSecret(s)
      BY <3>3, <3>6 DEF HandleRotateSecret
    <3>7. CASE HandleCreateClient(s)
      BY <3>3, <3>7 DEF HandleCreateClient
    <3>8. QED
      BY <2>3, <3>4, <3>5, <3>6, <3>7 DEF Sends
  <2>4. ASSUME NEW s \in Slots, Serves(s) PROVE SecretsFor'
    <3>1. CASE ServeStatus(s) \/ ServeLimit(s) \/ Fail(s)
      <4>1. PICK st \in Answers : Answered(s, st) /\ calls[s] # Idle /\ UNCHANGED owner
        BY <3>1 DEF ServeStatus, ServeLimit, Fail, Answers, Waiting, At
      <4>2. calls[s] \in Fetch \cup Change \cup Creation
        BY <2>0, <4>1 DEF Call
      <4>3. calls'[s].kind = calls[s].kind
            /\ (calls[s].kind # "fetch" =>
                  calls'[s].id = calls[s].id /\ calls'[s].secret = calls[s].secret)
        BY <2>0, <4>1, <4>2 DEF Answered, Fetch, Change, Creation
      <4>4. \A x \in Slots : x # s => calls'[x] = calls[x]
        BY <2>0, <4>1 DEF Answered
      <4>5. UNCHANGED newClientSecret
        BY <4>1 DEF Answered, screen
      <4>6. QED
        BY <4>1, <4>3, <4>4, <4>5
    <3>2. CASE ServeRotate(s)
      <4>1. calls[s] \in Change /\ calls[s].id \in Ids /\ calls[s] # Idle
        BY <2>0, <3>2, ChangeOf DEF ServeRotate, Waiting, At, Known
      <4>2. QED
        BY <3>2, <4>1, IssueFor DEF ServeRotate
    <3>3. CASE ServeCreate(s)
      <4>1. calls[s] \in Creation /\ calls[s].id \in Ids /\ calls[s] # Idle
        BY <2>0, <3>3, ChangeOf DEF ServeCreate, Waiting, At, Creation
      <4>2. QED
        BY <3>3, <4>1, IssueFor DEF ServeCreate
    <3>4. CASE ServeFetch(s)
      <4>1. calls[s] \in Fetch
        BY <2>0, <3>4, ChangeOf DEF ServeFetch, Waiting, At
      <4>2. calls'[s].kind = "fetch" /\ \A x \in Slots : x # s => calls'[x] = calls[x]
        BY <2>0, <3>4, <4>1 DEF ServeFetch, Fetch
      <4>3. QED
        BY <3>4, <4>2 DEF ServeFetch, screen
    <3>5. QED
      BY <2>4, <3>1, <3>2, <3>3, <3>4 DEF Serves
  <2>5. ASSUME NEW s \in Slots, Lands(s) PROVE SecretsFor'
    <3>1. calls[s] # Idle
      BY <2>5 DEF Lands, StatusDone, StatusFailed, LimitDone, LimitFailed, CreateDone,
                  CreateFailed, RotateDone, RotateFailed, FetchDone, FetchFailed, At
    <3>2. Refetch(s) \/ Quietly(s) \/ Pretend(s)
      BY <2>5 DEF Lands, StatusDone, StatusFailed, LimitDone, LimitFailed, CreateDone,
                  CreateFailed, RotateDone, RotateFailed, FetchDone, FetchFailed
    <3>3. calls'[s] \in {NewFetch, Idle} /\ \A x \in Slots : x # s => calls'[x] = calls[x]
      BY <2>0, <3>2 DEF Refetch, Quietly, Pretend
    <3>4. \A x \in Slots : calls'[x] # Idle /\ calls'[x].kind # "fetch" => calls'[x] = calls[x]
      BY <3>3 DEF NewFetch
    <3>5. UNCHANGED owner
      BY <2>5 DEF Lands, StatusDone, StatusFailed, LimitDone, LimitFailed, CreateDone,
                  CreateFailed, RotateDone, RotateFailed, FetchDone, FetchFailed
    <3>6. CASE CreateDone(s) \/ CreateFailed(s) \/ RotateDone(s) \/ RotateFailed(s)
      <4>1. For(owner, calls[s].secret, calls[s].id)
        BY <3>1, <3>6 DEF CreateDone, CreateFailed, RotateDone, RotateFailed, At
      <4>2. \A x \in newClientSecret' : For(owner, x.secret, x.id)
        BY <3>6, <4>1 DEF CreateDone, CreateFailed, RotateDone, RotateFailed, Display
      <4>3. QED
        BY <3>4, <3>5, <4>2
    <3>7. CASE ~(CreateDone(s) \/ CreateFailed(s) \/ RotateDone(s) \/ RotateFailed(s))
      <4>1. UNCHANGED newClientSecret
        BY <2>5, <3>7 DEF Lands, StatusDone, StatusFailed, LimitDone, LimitFailed,
                          FetchDone, FetchFailed, screen
      <4>2. QED
        BY <3>4, <3>5, <4>1
    <3>8. QED
      BY <3>6, <3>7
  <2>6. CASE \E i \in Ids, row \in Stored : Elsewhere(i, row)
    BY <2>6 DEF Elsewhere, screen
  <2>7. CASE UNCHANGED vars
    BY <2>7 DEF vars, screen
  <2>8. QED
    BY <2>1, <2>2, <2>3, <2>4, <2>5, <2>6, <2>7 DEF Next
<1>3. QED
  BY <1>1, <1>2, PageTypeCorrect, PTL DEF Spec

\* Whatever rotations and creations overlap, and whatever fails, a generated
\* secret is never shown under the id of another client.
THEOREM SecretsUnderIds == Spec => []SecretUnderItsId
<1>1. SecretsFor /\ TypeOK => SecretUnderItsId
  BY DEF SecretsFor, SecretUnderItsId, For, TypeOK
<1>2. QED
  BY <1>1, SecretsKnown, PageTypeCorrect, PTL

-----------------------------------------------------------------------------
(* Where the secrets are.                                                   *)

\* The answer of slot s brings secret k, which the page did not invent.
Brings(s, k) ==
  k # Invented /\ calls[s] # Idle /\ calls[s].kind # "fetch" /\ calls[s].secret = k

\* A generated secret is in one answer at most, and in none once on display.
OnePlace ==
  /\ \A s, t \in Slots, k \in Nat : Brings(s, k) /\ Brings(t, k) => s = t
  /\ \A s \in Slots, k \in Nat : Brings(s, k) => ~OnDisplay(k)

\* What a step does to the places of the secrets that were there before it.
OneMove ==
  /\ \A s \in Slots, k \in 1..Len(owner) : Brings(s, k)' => Brings(s, k) /\ ~OnDisplay(k)'
  /\ \A k \in 1..Len(owner) : OnDisplay(k)' => OnDisplay(k) \/ \E s \in Slots : Brings(s, k)

\* A step that displays nothing new and leaves each slot with its call's secret,
\* or with none.
LEMMA PlaceKept ==
  ASSUME OnePlace, newClientSecret' \subseteq newClientSecret,
         \A s \in Slots, k \in Nat : Brings(s, k)' => Brings(s, k)
  PROVE  OnePlace' /\ OneMove
<1>1. \A k : OnDisplay(k)' => OnDisplay(k)
  BY DEF OnDisplay
<1>2. \A k \in 1..Len(owner) : k \in Nat
  OBVIOUS
<1>3. OnePlace'
  BY <1>1 DEF OnePlace
<1>4. QED
  BY <1>1, <1>2, <1>3 DEF OnePlace, OneMove

\* The secret on display is the one the answer brought, and its slot is empty.
LEMMA PlaceMoved ==
  ASSUME OnePlace, NEW s \in Slots, NEW k, NEW i, Display(i, k),
         k # Invented => Brings(s, k) /\ k \in Nat,
         \A t \in Slots, j \in Nat : Brings(t, j)' => t # s /\ Brings(t, j)
  PROVE  OnePlace' /\ OneMove
<1>1. \A j : OnDisplay(j)' <=> j = k
  BY DEF OnDisplay, Display
<1>2. \A t \in Slots, j \in Nat : Brings(t, j)' => Brings(t, j) /\ j # k
  <2> SUFFICES ASSUME NEW t \in Slots, NEW j \in Nat, Brings(t, j)'
               PROVE  Brings(t, j) /\ j # k
    OBVIOUS
  <2>1. t # s /\ Brings(t, j) /\ j # Invented
    BY DEF Brings
  <2>2. QED
    BY <2>1 DEF OnePlace
<1>3. OnePlace'
  BY <1>1, <1>2 DEF OnePlace
<1>4. \A j \in 1..Len(owner) : j \in Nat /\ j # Invented
  BY DEF Invented
<1>5. QED
  BY <1>1, <1>2, <1>3, <1>4 DEF OneMove

\* The new secret is nowhere yet but in the answer it is issued with.
LEMMA PlaceIssued ==
  ASSUME TypeOK, SecretsFor, OnePlace, NEW s \in Slots, NEW i \in Ids,
         calls[s] \in Change \cup Creation, calls[s] # Idle, Issue(s, i)
  PROVE  OnePlace' /\ OneMove
<1>0. calls \in [Slots -> Call] /\ Len(owner) \in Nat /\ newClientSecret' = newClientSecret
  BY DEF TypeOK, Issue, screen
<1>1. \A k : OnDisplay(k)' <=> OnDisplay(k)
  BY <1>0 DEF OnDisplay
<1>2. \A t \in Slots : t # s => calls'[t] = calls[t]
  BY <1>0 DEF Issue
<1>3. CASE calls' = [calls EXCEPT ![s].st = "failed"]
  <2>1. calls'[s].kind = calls[s].kind /\ calls'[s].secret = calls[s].secret
        /\ calls[s].kind # "fetch"
    BY <1>0, <1>3 DEF Change, Creation
  <2>2. \A t \in Slots, k \in Nat : Brings(t, k)' => Brings(t, k)
    BY <1>2, <2>1 DEF Brings
  <2>3. QED
    BY <1>0, <2>2, PlaceKept
<1>4. CASE calls' = [calls EXCEPT ![s].st = "ok", ![s].secret = Len(owner) + 1]
  <2>1. calls'[s].secret = Len(owner) + 1
    BY <1>0, <1>4 DEF Change, Creation
  <2>2. \A t \in Slots, k \in Nat :
          Brings(t, k)' => IF t = s THEN k = Len(owner) + 1 ELSE Brings(t, k)
    BY <1>2, <2>1 DEF Brings
  <2>3. \A t \in Slots, k \in Nat : Brings(t, k) => k \in 1..Len(owner)
    BY DEF SecretsFor, For, Brings
  <2>4. \A k \in Nat : k # Invented /\ OnDisplay(k) => k \in 1..Len(owner)
    BY DEF SecretsFor, For, OnDisplay
  <2>5. Len(owner) + 1 \in Nat /\ Len(owner) + 1 \notin 1..Len(owner) /\ Len(owner) + 1 # Invented
    BY <1>0 DEF Invented
  <2>6. \A t \in Slots, k \in 1..Len(owner) : Brings(t, k)' => Brings(t, k)
    BY <2>2, <2>5
  <2>7. OnePlace'
    <3>1. ASSUME NEW t \in Slots, NEW u \in Slots, NEW k \in Nat, Brings(t, k)', Brings(u, k)'
          PROVE  t = u
      <4>1. CASE k = Len(owner) + 1
        BY <2>2, <2>3, <2>5, <3>1, <4>1
      <4>2. CASE k # Len(owner) + 1
        BY <2>2, <3>1, <4>2 DEF OnePlace
      <4>3. QED
        BY <4>1, <4>2
    <3>2. ASSUME NEW t \in Slots, NEW k \in Nat, Brings(t, k)' PROVE ~OnDisplay(k)'
      <4>1. CASE k = Len(owner) + 1
        BY <1>1, <2>4, <2>5, <4>1
      <4>2. CASE k # Len(owner) + 1
        BY <1>1, <2>2, <3>2, <4>2 DEF OnePlace
      <4>3. QED
        BY <4>1, <4>2
    <3>3. QED
      BY <3>1, <3>2 DEF OnePlace
  <2>8. OneMove
    <3>1. \A k \in 1..Len(owner) : k \in Nat
      OBVIOUS
    <3>2. QED
      BY <1>1, <2>6, <3>1 DEF OnePlace, OneMove
  <2>9. QED
    BY <2>7, <2>8
<1>5. QED
  BY <1>3, <1>4 DEF Issue

LEMMA PlaceStep ==
  TypeOK /\ SecretsFor /\ OnePlace /\ [Next]_vars => OnePlace' /\ OneMove
<1> SUFFICES ASSUME TypeOK, SecretsFor, OnePlace, [Next]_vars PROVE OnePlace' /\ OneMove
  OBVIOUS
<1>0. CallsTyped /\ calls \in [Slots -> Call]
  BY DEF TypeOK, CallsTyped, Call
<1>1. CASE Remount
  <2>1. newClientSecret' = {} /\ \A s \in Slots : calls'[s] \in {NewFetch, Idle}
    BY <1>1 DEF Remount
  <2>2. \A s \in Slots, k \in Nat : ~Brings(s, k)'
    BY <2>1 DEF Brings, NewFetch
  <2>3. QED
    BY <2>1, <2>2, PlaceKept
<1>2. CASE Clicks
  <2>1. newClientSecret' \subseteq newClientSecret /\ calls' = calls
    BY <1>2 DEF Clicks, ClickStatus, ClickRotate, ClickLimit, TypeLimit, ClickCreate, Cancel, Dismiss
  <2>2. QED
    BY <2>1, PlaceKept DEF Brings
<1>3. ASSUME NEW s \in Slots, Sends(s) PROVE OnePlace' /\ OneMove
  <2>1. ASSUME NEW c, Send(s, c), c.secret = Invented PROVE OnePlace' /\ OneMove
    <3>1. newClientSecret' = newClientSecret /\ calls'[s].secret = Invented
          /\ \A t \in Slots : t # s => calls'[t] = calls[t]
      BY <1>0, <2>1 DEF Send, screen
    <3>2. \A t \in Slots, k \in Nat : Brings(t, k)' => Brings(t, k)
      BY <3>1 DEF Brings
    <3>3. QED
      BY <3>1, <3>2, PlaceKept
  <2>2. \A kind, i, row : NewChange(kind, i, row).secret = Invented
    BY DEF NewChange
  <2>3. \A kind, i, row : Send(s, NewChange(kind, i, row)) => OnePlace' /\ OneMove
    BY <2>1, <2>2
  <2>4. CASE HandleToggleStatus(s)
    BY <2>3, <2>4 DEF HandleToggleStatus
  <2>5. CASE HandleUpdateRateLimit(s)
    BY <2>3, <2>5 DEF HandleUpdateRateLimit
  <2>6. CASE HandleRotateSecret(s)
    BY <2>3, <2>6 DEF HandleRotateSecret
  <2>7. CASE HandleCreateClient(s)
    BY <2>3, <2>7 DEF HandleCreateClient
  <2>8. QED
    BY <1>3, <2>4, <2>5, <2>6, <2>7 DEF Sends
<1>4. ASSUME NEW s \in Slots, Serves(s) PROVE OnePlace' /\ OneMove
  <2>1. CASE ServeStatus(s) \/ ServeLimit(s) \/ Fail(s)
    <3>1. PICK st \in Answers : Answered(s, st) /\ calls[s] # Idle
      BY <2>1 DEF ServeStatus, ServeLimit, Fail, Answers, Waiting, At
    <3>2. calls[s] \in Fetch \cup Change \cup Creation
      BY <1>0, <3>1 DEF Call
    <3>3. calls'[s].kind = calls[s].kind
          /\ (calls[s].kind # "fetch" => calls'[s].secret = calls[s].secret)
      BY <1>0, <3>1, <3>2 DEF Answered, Fetch, Change, Creation
    <3>4. \A t \in Slots : t # s => calls'[t] = calls[t]
      BY <1>0, <3>1 DEF Answered
    <3>5. \A t \in Slots, k \in Nat : Brings(t, k)' => Brings(t, k)
      BY <3>1, <3>3, <3>4 DEF Brings
    <3>6. newClientSecret' = newClientSecret
      BY <3>1 DEF Answered, screen
    <3>7. QED
      BY <3>5, <3>6, PlaceKept
  <2>2. CASE ServeRotate(s)
    <3>1. calls[s] \in Change /\ calls[s].id \in Ids /\ calls[s] # Idle
      BY <1>0, <2>2, ChangeOf DEF ServeRotate, Waiting, At, Known
    <3>2. QED
      BY <2>2, <3>1, PlaceIssued DEF ServeRotate
  <2>3. CASE ServeCreate(s)
    <3>1. calls[s] \in Creation /\ calls[s].id \in Ids /\ calls[s] # Idle
      BY <1>0, <2>3, ChangeOf DEF ServeCreate, Waiting, At, Creation
    <3>2. QED
      BY <2>3, <3>1, PlaceIssued DEF ServeCreate
  <2>4. CASE ServeFetch(s)
    <3>1. calls[s] \in Fetch
      BY <1>0, <2>4, ChangeOf DEF ServeFetch, Waiting, At
    <3>2. calls'[s].kind = "fetch" /\ \A t \in Slots : t # s => calls'[t] = calls[t]
      BY <1>0, <2>4, <3>1 DEF ServeFetch, Fetch
    <3>3. \A t \in Slots, k \in Nat : Brings(t, k)' => Brings(t, k)
      BY <3>2 DEF Brings
    <3>4. newClientSecret' = newClientSecret
      BY <2>4 DEF ServeFetch, screen
    <3>5. QED
      BY <3>3, <3>4, PlaceKept
  <2>5. QED
    BY <1>4, <2>1, <2>2, <2>3, <2>4 DEF Serves
<1>5. ASSUME NEW s \in Slots, Lands(s) PROVE OnePlace' /\ OneMove
  <2>1. calls[s] # Idle
    BY <1>5 DEF Lands, StatusDone, StatusFailed, LimitDone, LimitFailed, CreateDone,
                CreateFailed, RotateDone, RotateFailed, FetchDone, FetchFailed, At
  <2>2. Refetch(s) \/ Quietly(s) \/ Pretend(s)
    BY <1>5 DEF Lands, StatusDone, StatusFailed, LimitDone, LimitFailed, CreateDone,
                CreateFailed, RotateDone, RotateFailed, FetchDone, FetchFailed
  <2>3. calls'[s] \in {NewFetch, Idle} /\ \A t \in Slots : t # s => calls'[t] = calls[t]
    BY <1>0, <2>2 DEF Refetch, Quietly, Pretend
  <2>4. \A t \in Slots, k \in Nat : Brings(t, k)' => t # s /\ Brings(t, k)
    BY <2>3 DEF Brings, NewFetch
  <2>5. CASE CreateDone(s) \/ RotateDone(s)
    <3>1. Display(calls[s].id, calls[s].secret) /\ calls[s].kind # "fetch"
      BY <2>5 DEF CreateDone, RotateDone, At
    <3>2. calls[s].secret \in Nat
      BY <1>0, <2>1, <3>1, ChangeOf, ClientsPageAssumption DEF Change, Creation
    <3>3. QED
      BY <2>1, <2>4, <3>1, <3>2, PlaceMoved DEF Brings
  <2>6. CASE CreateFailed(s) \/ RotateFailed(s)
    <3>1. Display(calls[s].id, Invented)
      BY <2>6 DEF CreateFailed, RotateFailed
    <3>2. QED
      BY <2>4, <3>1, PlaceMoved
  <2>7. CASE ~(CreateDone(s) \/ CreateFailed(s) \/ RotateDone(s) \/ RotateFailed(s))
    <3>1. newClientSecret' = newClientSecret
      BY <1>5, <2>7 DEF Lands, StatusDone, StatusFailed, LimitDone, LimitFailed,
                        FetchDone, FetchFailed, screen
    <3>2. QED
      BY <2>4, <3>1, PlaceKept
  <2>8. QED
    BY <2>5, <2>6, <2>7
<1>6. CASE \E i \in Ids, row \in Stored : Elsewhere(i, row)
  BY <1>6, PlaceKept DEF Elsewhere, screen, Brings
<1>7. CASE UNCHANGED vars
  BY <1>7, PlaceKept DEF vars, screen, Brings
<1>8. QED
  BY <1>1, <1>2, <1>3, <1>4, <1>5, <1>6, <1>7 DEF Next

\* A generated secret is shown once, out of the one answer that brings it, for
\* any number of clients and of calls that overlap, and whatever fails.
THEOREM SecretsShownOnce == Spec => ShownOnce
<1>1. Init => OnePlace
  <2> SUFFICES ASSUME Init PROVE OnePlace
    OBVIOUS
  <2>1. \A s \in Slots : calls[s] \in {NewFetch, Idle}
    BY DEF Init
  <2>2. QED
    BY <2>1 DEF OnePlace, Brings, NewFetch
<1>2. OneMove => \A k \in 1..Len(owner) : /\ Coming(k)' => Coming(k) /\ ~OnDisplay(k)'
                                          /\ OnDisplay(k)' => OnDisplay(k) \/ Coming(k)
  <2>1. \A k \in 1..Len(owner) : k # Invented
    BY DEF Invented
  <2>2. QED
    BY <2>1 DEF OneMove, Coming, Brings
<1>3. TypeOK /\ SecretsFor /\ OnePlace /\ [Next]_vars =>
        [\A k \in 1..Len(owner) : /\ Coming(k)' => Coming(k) /\ ~OnDisplay(k)'
                                  /\ OnDisplay(k)' => OnDisplay(k) \/ Coming(k)]_vars
  BY <1>2, PlaceStep
<1>4. TypeOK /\ SecretsFor /\ OnePlace /\ [Next]_vars => OnePlace'
  BY PlaceStep
<1>5. QED
  BY <1>1, <1>3, <1>4, PageTypeCorrect, SecretsKnown, PTL DEF Spec, ShownOnce

-----------------------------------------------------------------------------
(* The dialogue and its call.                                               *)

WordKept == confirmRevoke # {} => word = confirmRevoke

\* A status call carries what its dialogue said, for any number of clients and
\* of calls that overlap: neither a refetch nor a second click turns it round.
THEOREM StatusSentAsSaid == Spec => SentAsSaid
<1>1. Init => WordKept
  BY DEF Init, WordKept
<1>2. TypeOK /\ WordKept /\ [Next]_vars => WordKept'
  BY DEF Next, vars, WordKept, Remount, Elsewhere, screen, dialogues,
         Clicks, ClickStatus, ClickRotate, ClickLimit, TypeLimit, ClickCreate, Cancel, Dismiss,
         Sends, HandleToggleStatus, HandleUpdateRateLimit, HandleRotateSecret,
         HandleCreateClient, Send,
         Serves, ServeStatus, ServeLimit, ServeRotate, ServeCreate, ServeFetch, Fail,
         Answered, Issue,
         Lands, StatusDone, StatusFailed, LimitDone, LimitFailed, CreateDone, CreateFailed,
         RotateDone, RotateFailed, FetchDone, FetchFailed
<1>3. TypeOK /\ WordKept /\ [Next]_vars =>
        [ \A s \in Slots :
            calls[s] = Idle /\ calls'[s].kind = "status" =>
              word = {[id |-> calls'[s].id, want |-> calls'[s].row.active]} ]_vars
  <2> SUFFICES ASSUME TypeOK, WordKept, Next, NEW s \in Slots,
                      calls[s] = Idle, calls'[s].kind = "status"
               PROVE  word = {[id |-> calls'[s].id, want |-> calls'[s].row.active]}
    OBVIOUS
  <2>0. calls \in [Slots -> Call] /\ Idle.kind # "status"
    BY DEF TypeOK, Idle
  <2>1. calls' # calls
    BY <2>0
  <2>2. ~Remount
    BY <2>0 DEF Remount, NewFetch
  <2>3. ASSUME NEW x \in Slots, calls[x] # Idle,
               \A y \in Slots : y # x => calls'[y] = calls[y]
        PROVE  FALSE
    BY <2>0, <2>3
  <2>4. ASSUME NEW x \in Slots, Serves(x) PROVE FALSE
    <3>1. calls[x] # Idle
      BY <2>4 DEF Serves, ServeStatus, ServeLimit, ServeRotate, ServeCreate, ServeFetch, Fail,
                  Waiting, At
    <3>2. \A y \in Slots : y # x => calls'[y] = calls[y]
      BY <2>0, <2>4 DEF Serves, ServeStatus, ServeLimit, ServeRotate, ServeCreate, ServeFetch,
                        Fail, Answered, Issue
    <3>3. QED
      BY <2>3, <3>1, <3>2
  <2>5. ASSUME NEW x \in Slots, Lands(x) PROVE FALSE
    <3>1. calls[x] # Idle
      BY <2>5 DEF Lands, StatusDone, StatusFailed, LimitDone, LimitFailed, CreateDone,
                  CreateFailed, RotateDone, RotateFailed, FetchDone, FetchFailed, At
    <3>2. Refetch(x) \/ Quietly(x) \/ Pretend(x)
      BY <2>5 DEF Lands, StatusDone, StatusFailed, LimitDone, LimitFailed, CreateDone,
                  CreateFailed, RotateDone, RotateFailed, FetchDone, FetchFailed
    <3>3. \A y \in Slots : y # x => calls'[y] = calls[y]
      BY <2>0, <3>2 DEF Refetch, Quietly, Pretend
    <3>4. QED
      BY <2>3, <3>1, <3>3
  <2>6. ~Clicks /\ ~(\E i \in Ids, row \in Stored : Elsewhere(i, row))
    BY <2>1 DEF Clicks, ClickStatus, ClickRotate, ClickLimit, TypeLimit, ClickCreate, Cancel,
                Dismiss, Elsewhere
  <2>7. PICK x \in Slots : Sends(x)
    BY <2>2, <2>4, <2>5, <2>6 DEF Next
  <2>8. ASSUME NEW c, Send(x, c) PROVE s = x /\ calls'[s] = c
    BY <2>0, <2>8 DEF Send
  <2>9. \A kind, i, row : NewChange(kind, i, row).kind = kind
    BY DEF NewChange
  <2>10. HandleToggleStatus(x)
    <3>1. \A kind, i, row : Send(x, NewChange(kind, i, row)) => kind = "status"
      BY <2>0, <2>8, <2>9
    <3>2. ~HandleUpdateRateLimit(x)
      BY <3>1 DEF HandleUpdateRateLimit
    <3>3. ~HandleRotateSecret(x)
      BY <3>1 DEF HandleRotateSecret
    <3>4. ~HandleCreateClient(x)
      BY <3>1 DEF HandleCreateClient
    <3>5. QED
      BY <2>7, <3>2, <3>3, <3>4 DEF Sends
  <2>11. PICK d \in confirmRevoke : Send(x, NewChange("status", d.id, AsStatus(d.want)))
    BY <2>10 DEF HandleToggleStatus
  <2>12. calls'[s].id = d.id /\ calls'[s].row.active = d.want
    BY <2>8, <2>11 DEF NewChange, AsStatus
  <2>13. d \in Status /\ confirmRevoke = {d}
    BY <2>11 DEF TypeOK, AtMostOne
  <2>14. QED
    BY <2>12, <2>13 DEF WordKept, Status
<1>4. QED
  BY <1>1, <1>2, <1>3, PageTypeCorrect, PTL DEF Spec, SentAsSaid

-----------------------------------------------------------------------------
(* The rows.                                                                *)

IsFetch(s) == calls[s] # Idle /\ calls[s].kind = "fetch"

\* A change the registry has answered and the page has not taken note of.
Unsettled(s) ==
  calls[s] # Idle /\ calls[s].kind \in {"status", "limit", "create"} /\ calls[s].st # "sent"

\* While the page is trusted one fetch is under way at most; unless a change is
\* about to ask for the list, the fetch brings, or the page shows, the registry.
Truth ==
  trusted =>
    /\ \A x, y \in Slots : IsFetch(x) /\ IsFetch(y) => x = y
    /\ (\A s \in Slots : ~Unsettled(s)) =>
         /\ (\A s \in Slots : ~IsFetch(s)) => clients = Listing \/ Listing = Nothing
         /\ \A s \in Slots : IsFetch(s) /\ calls[s].st = "ok" => calls[s].table = Listing

\* A step that leaves rows, page and trust alone, and at most moves one call that
\* is no fetch and that is no answered change once it has moved.
LEMMA TruthStays ==
  ASSUME Truth, UNCHANGED <<rows, clients, trusted>>, NEW s \in Slots,
         ~IsFetch(s), ~Unsettled(s), ~IsFetch(s)', ~Unsettled(s)',
         \A x \in Slots : x # s => calls'[x] = calls[x]
  PROVE  Truth'
<1>1. Listing' = Listing
  BY DEF Listing
<1>2. \A x \in Slots : IsFetch(x)' <=> IsFetch(x)
  BY DEF IsFetch
<1>3. \A x \in Slots : Unsettled(x)' <=> Unsettled(x)
  BY DEF Unsettled
<1>4. \A x \in Slots : IsFetch(x) => calls'[x] = calls[x]
  OBVIOUS
<1>5. QED
  BY <1>1, <1>2, <1>3, <1>4 DEF Truth

\* A change is served, or refused: nothing is settled until its answer lands.
LEMMA TruthPends ==
  ASSUME Truth, UNCHANGED trusted, NEW s \in Slots, ~IsFetch(s), ~IsFetch(s)', Unsettled(s)',
         \A x \in Slots : x # s => calls'[x] = calls[x]
  PROVE  Truth'
<1>1. \A x \in Slots : IsFetch(x)' <=> IsFetch(x)
  BY DEF IsFetch
<1>2. QED
  BY <1>1 DEF Truth

\* The one fetch under way has not been served, as after a change or a remount.
LEMMA TruthAsked ==
  ASSUME CallsTyped, NEW s \in Slots, calls'[s] = NewFetch,
         \A x \in Slots : x # s => ~IsFetch(x)'
  PROVE  Truth'
<1>1. calls'[s].st # "ok" /\ IsFetch(s)'
  BY DEF NewFetch, IsFetch, Idle
<1>2. QED
  BY <1>1 DEF Truth

\* A page at rest, on which nothing failed, crossed or came from another admin,
\* shows the registry, for any number of clients and of calls in flight.
THEOREM RestIsTrue == Spec => []RestShowsRegistry
<1>1. Init => Truth
  <2> SUFFICES ASSUME Init PROVE Truth
    OBVIOUS
  <2>1. PICK s \in Slots : calls = [x \in Slots |-> IF x = s THEN NewFetch ELSE Idle]
    BY DEF Init
  <2>2. \A x \in Slots : IsFetch(x) => x = s
    BY <2>1 DEF IsFetch
  <2>3. IsFetch(s) /\ calls[s].st # "ok"
    BY <2>1 DEF IsFetch, NewFetch, Idle
  <2>4. QED
    BY <2>2, <2>3 DEF Truth
<1>2. TypeOK /\ Truth /\ [Next]_vars => Truth'
  <2> SUFFICES ASSUME TypeOK, Truth, [Next]_vars PROVE Truth'
    OBVIOUS
  <2>0. CallsTyped /\ calls \in [Slots -> Call]
    BY DEF TypeOK, CallsTyped, Call
  <2>00. UNCHANGED <<rows, clients, calls, trusted>> => Truth'
    BY DEF Truth, IsFetch, Unsettled, Listing
  <2>1. CASE Remount
    <3>1. PICK s \in Slots : calls' = [x \in Slots |-> IF x = s THEN NewFetch ELSE Idle]
      BY <2>1 DEF Remount
    <3>2. calls'[s] = NewFetch /\ \A x \in Slots : x # s => ~IsFetch(x)'
      BY <3>1 DEF IsFetch
    <3>3. QED
      BY <2>0, <3>2, TruthAsked
  <2>2. CASE Clicks
    BY <2>00, <2>2 DEF Clicks, ClickStatus, ClickRotate, ClickLimit, TypeLimit, ClickCreate,
                       Cancel, Dismiss
  <2>3. ASSUME NEW s \in Slots, Sends(s) PROVE Truth'
    <3>1. ASSUME NEW kind \in {"status", "limit", "rotate", "create"}, NEW i, NEW row,
                 Send(s, NewChange(kind, i, row))
          PROVE  Truth'
      <4>1. calls'[s] = NewChange(kind, i, row) /\ \A x \in Slots : x # s => calls'[x] = calls[x]
        BY <2>0, <3>1 DEF Send
      <4>2. ~IsFetch(s) /\ ~Unsettled(s)
        BY <3>1 DEF Send, IsFetch, Unsettled
      <4>3. ~IsFetch(s)' /\ ~Unsettled(s)'
        BY <4>1 DEF IsFetch, Unsettled, NewChange
      <4>4. QED
        BY <3>1, <4>1, <4>2, <4>3, TruthStays DEF Send, screen
    <3>4. CASE HandleToggleStatus(s)
      BY <3>1, <3>4 DEF HandleToggleStatus
    <3>5. CASE HandleUpdateRateLimit(s)
      BY <3>1, <3>5 DEF HandleUpdateRateLimit
    <3>6. CASE HandleRotateSecret(s)
      BY <3>1, <3>6 DEF HandleRotateSecret
    <3>7. CASE HandleCreateClient(s)
      BY <3>1, <3>7 DEF HandleCreateClient
    <3>8. QED
      BY <2>3, <3>4, <3>5, <3>6, <3>7 DEF Sends
  <2>4. ASSUME NEW s \in Slots, Serves(s) PROVE Truth'
    <3>0. calls[s] # Idle /\ calls[s].st = "sent" /\ UNCHANGED <<clients, trusted>>
      BY <2>4 DEF Serves, ServeStatus, ServeLimit, ServeRotate, ServeCreate, ServeFetch, Fail,
                  Waiting, At, Issue, Answered, screen
    <3>1. calls[s] \in Fetch \cup Change \cup Creation
      BY <2>0, <3>0 DEF Call
    <3>2. calls'[s] # Idle /\ calls'[s].kind = calls[s].kind /\ calls'[s].st # "sent"
          /\ \A x \in Slots : x # s => calls'[x] = calls[x]
      <4>1. CASE \E st \in {"ok", "failed"} : Answered(s, st)
        BY <2>0, <3>1, <4>1 DEF Answered, Fetch, Change, Creation, Idle
      <4>2. CASE \E i \in Ids : Issue(s, i)
        BY <2>0, <3>1, <4>2 DEF Issue, Fetch, Change, Creation, Idle
      <4>3. CASE ServeFetch(s)
        BY <2>0, <3>1, <4>3 DEF ServeFetch, Fetch, Change, Creation, Idle
      <4>4. CASE ServeRotate(s)
        BY <4>2, <4>4 DEF ServeRotate, Known
      <4>5. CASE ServeCreate(s)
        <5>1. calls[s].id \in Ids
          BY <2>0, <4>5, ChangeOf DEF ServeCreate, Waiting, At, Creation
        <5>2. QED
          BY <4>2, <4>5, <5>1 DEF ServeCreate
      <4>6. CASE ServeStatus(s) \/ ServeLimit(s) \/ Fail(s)
        BY <4>1, <4>6 DEF ServeStatus, ServeLimit, Fail
      <4>7. QED
        BY <2>4, <4>3, <4>4, <4>5, <4>6 DEF Serves
    <3>3. CASE calls[s].kind \in {"status", "limit", "create"}
      BY <3>0, <3>2, <3>3, TruthPends DEF IsFetch, Unsettled
    <3>4. CASE calls[s].kind = "rotate"
      <4>1. UNCHANGED rows
        BY <2>4, <3>4 DEF Serves, ServeStatus, ServeLimit, ServeRotate, ServeCreate, ServeFetch,
                          Fail, Waiting, At
      <4>2. QED
        BY <3>0, <3>2, <3>4, <4>1, TruthStays DEF IsFetch, Unsettled
    <3>5. CASE calls[s].kind = "fetch"
      <4>1. UNCHANGED rows /\ (calls'[s].st = "ok" => calls'[s].table = Listing)
        <5>1. CASE ServeFetch(s)
          BY <2>0, <3>1, <3>5, <5>1 DEF ServeFetch, Fetch, Change, Creation
        <5>2. CASE Fail(s)
          BY <2>0, <3>1, <3>5, <5>2 DEF Fail, Answered, Fetch, Change, Creation
        <5>3. QED
          BY <2>4, <3>5, <5>1, <5>2 DEF Serves, ServeStatus, ServeLimit, ServeRotate,
                                        ServeCreate, Waiting, At
      <4>2. Listing' = Listing
        BY <4>1 DEF Listing
      <4>3. \A x \in Slots : IsFetch(x)' <=> IsFetch(x)
        BY <3>0, <3>2 DEF IsFetch
      <4>4. \A x \in Slots : Unsettled(x)' <=> Unsettled(x)
        BY <3>0, <3>2, <3>5 DEF Unsettled
      <4>5. IsFetch(s)
        BY <3>0, <3>5 DEF IsFetch
      <4>6. QED
        BY <3>0, <3>2, <4>1, <4>2, <4>3, <4>4, <4>5 DEF Truth
    <3>6. QED
      BY <3>1, <3>3, <3>4, <3>5 DEF Fetch, Change, Creation
  <2>5. ASSUME NEW s \in Slots, Lands(s) PROVE Truth'
    <3>0. calls[s] # Idle
      BY <2>5 DEF Lands, StatusDone, StatusFailed, LimitDone, LimitFailed, CreateDone,
                  CreateFailed, RotateDone, RotateFailed, FetchDone, FetchFailed, At
    <3>1. CASE Refetch(s)
      <4>1. calls'[s] = NewFetch /\ \A x \in Slots : x # s => calls'[x] = calls[x]
        BY <2>0, <3>1 DEF Refetch
      <4>2. CASE trusted'
        <5>1. \A x \in Slots : x # s => ~IsFetch(x)'
          BY <3>1, <4>1, <4>2 DEF Refetch, Fetching, IsFetch
        <5>2. QED
          BY <2>0, <4>1, <5>1, TruthAsked
      <4>3. CASE ~trusted'
        BY <4>3 DEF Truth
      <4>4. QED
        BY <4>2, <4>3
    <3>2. CASE Pretend(s)
      BY <3>2 DEF Pretend, Truth
    <3>3. CASE RotateDone(s)
      <4>1. calls'[s] = Idle /\ \A x \in Slots : x # s => calls'[x] = calls[x]
        BY <2>0, <3>3 DEF RotateDone, Quietly
      <4>2. ~IsFetch(s) /\ ~Unsettled(s)
        BY <3>3 DEF RotateDone, At, IsFetch, Unsettled
      <4>3. ~IsFetch(s)' /\ ~Unsettled(s)'
        BY <4>1 DEF IsFetch, Unsettled
      <4>4. QED
        BY <3>3, <4>1, <4>2, <4>3, TruthStays DEF RotateDone, Quietly
    <3>4. CASE FetchDone(s)
      <4>1. calls'[s] = Idle /\ \A x \in Slots : x # s => calls'[x] = calls[x]
        BY <2>0, <3>4 DEF FetchDone, Quietly
      <4>2. Listing' = Listing /\ UNCHANGED trusted
        BY <3>4 DEF FetchDone, Quietly, Listing
      <4>3. IsFetch(s) /\ ~Unsettled(s) /\ calls[s].st = "ok"
        BY <3>4 DEF FetchDone, At, IsFetch, Unsettled
      <4>4. \A x \in Slots : Unsettled(x)' <=> Unsettled(x)
        BY <4>1, <4>3 DEF Unsettled
      <4>5. trusted => \A x \in Slots : ~IsFetch(x)'
        BY <4>1, <4>3 DEF Truth, IsFetch
      <4>6. trusted /\ (\A x \in Slots : ~Unsettled(x)) => calls[s].table = Listing
        BY <4>3 DEF Truth
      <4>7. calls[s].table = Listing => clients' = Listing \/ Listing = Nothing
        BY <3>4 DEF FetchDone
      <4>8. QED
        BY <4>2, <4>4, <4>5, <4>6, <4>7 DEF Truth
    <3>5. QED
      BY <2>5, <3>1, <3>2, <3>3, <3>4
         DEF Lands, StatusDone, StatusFailed, LimitDone, LimitFailed, CreateDone, CreateFailed,
             RotateFailed, FetchFailed
  <2>6. CASE \E i \in Ids, row \in Stored : Elsewhere(i, row)
    BY <2>6 DEF Elsewhere, Truth
  <2>7. CASE UNCHANGED vars
    BY <2>00, <2>7 DEF vars, screen
  <2>8. QED
    BY <2>1, <2>2, <2>3, <2>4, <2>5, <2>6, <2>7 DEF Next
<1>3. Truth => RestShowsRegistry
  BY DEF Truth, RestShowsRegistry, Rest, IsFetch, Unsettled
<1>4. QED
  BY <1>1, <1>2, <1>3, PageTypeCorrect, PTL DEF Spec

=============================================================================
