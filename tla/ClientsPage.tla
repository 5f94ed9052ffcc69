---------------------------- MODULE ClientsPage -----------------------------
(***************************************************************************)
(* The page that manages clients (pages/ClientsPage.tsx).                  *)
(*                                                                         *)
(* The page shows invented rows until its first answer.  A dialogue's      *)
(* button sends a call and the dialogue stays open until the answer, so    *)
(* that calls overlap; an answer is shown in the order it arrives.  A call *)
(* that changed a row is followed by a new fetch of the list; one that     *)
(* failed is shown as done all the same, on the page's own copy.  The      *)
(* registry is taken one whole call at a time; other admins change it too. *)
(***************************************************************************)
EXTENDS Integers, Sequences

CONSTANTS
  Ids,           \* clients the registry has, or may come to have
  Mocks,         \* the rows of MOCK_CLIENTS, which no registry knows
  MOCK_CLIENTS,  \* what they say
  Limits,        \* rate limits the API accepts; 0 stands for those it refuses
  Slots,         \* the page's calls in flight
  MaxSecrets     \* bound on the secrets issued to the page

Row == [active : BOOLEAN, limit : {0} \cup Limits]
Stored == [active : BOOLEAN, limit : Limits]

ASSUME ClientsPageAssumption ==
  /\ Ids \cap Mocks = {}
  /\ Limits \subseteq Nat \ {0}
  /\ MOCK_CLIENTS \in [Mocks -> Stored]
  /\ MaxSecrets \in Nat

VARIABLES
  rows,              \* the registry: the row of a client, or NoRow
  owner,             \* owner[k]: the client that secret k was generated for
  clients,           \* the rows on the page
  confirmRevoke,     \* the status dialogue: {}, or what it was opened with
  confirmRotate,     \* the rotation dialogue: {}, or the client's id
  editingRateLimit,  \* the limit dialogue: {}, or a copy of the row, edited
  showCreateModal,   \* the creation dialogue is open
  newClientSecret,   \* the credentials on display: {}, or an id and a secret
  calls,             \* calls[s]: a call in flight, with the handler's closure
  word,              \* history: what the status dialogue said when it opened
  trusted            \* history: nothing failed, crossed or came from elsewhere

dialogues == <<confirmRevoke, confirmRotate, editingRateLimit, showCreateModal>>
screen == <<clients, dialogues, newClientSecret, word>>
vars == <<rows, owner, screen, calls, trusted>>

AllIds == Ids \cup Mocks
NoRow == [active |-> FALSE, limit |-> -1]
Table == [AllIds -> Row \cup {NoRow}]
Nothing == [i \in AllIds |-> NoRow]
Invented == 0

Status == [id : AllIds, want : BOOLEAN]
Edit == [id : AllIds, row : Row]
Credentials == [id : AllIds, secret : 0..MaxSecrets]

\* A fetch of the list with its answer, and a change with its closure: the row
\* carries the status or the limit to set.
Idle == [kind |-> "idle"]
Answers == {"sent", "ok", "failed"}
Fetch == [kind : {"fetch"}, st : Answers, table : Table]
Change == [kind : {"status", "limit", "rotate"}, st : Answers,
           id : AllIds, row : Row, secret : 0..MaxSecrets]
Creation == [kind : {"create"}, st : Answers,
             id : Ids, row : Stored, secret : 0..MaxSecrets]
Call == {Idle} \cup Fetch \cup Change \cup Creation

AtMostOne(S) == \A x, y \in S : x = y

TypeOK ==
  /\ rows \in [Ids -> Stored \cup {NoRow}]
  /\ owner \in Seq(Ids) /\ Len(owner) <= MaxSecrets
  /\ clients \in Table
  /\ confirmRevoke \subseteq Status /\ AtMostOne(confirmRevoke)
  /\ confirmRotate \subseteq AllIds /\ AtMostOne(confirmRotate)
  /\ editingRateLimit \subseteq Edit /\ AtMostOne(editingRateLimit)
  /\ showCreateModal \in BOOLEAN
  /\ newClientSecret \subseteq Credentials /\ AtMostOne(newClientSecret)
  /\ calls \in [Slots -> Call]
  /\ word \subseteq Status
  /\ trusted \in BOOLEAN

NewFetch == [kind |-> "fetch", st |-> "sent", table |-> Nothing]

NewChange(kind, i, row) ==
  [kind |-> kind, st |-> "sent", id |-> i, row |-> row, secret |-> Invented]

MockTable == [i \in AllIds |-> IF i \in Mocks THEN MOCK_CLIENTS[i] ELSE NoRow]

Init ==
  /\ rows \in [Ids -> Stored \cup {NoRow}]
  /\ owner = <<>>
  /\ clients = MockTable
  /\ confirmRevoke = {} /\ confirmRotate = {} /\ editingRateLimit = {}
  /\ showCreateModal = FALSE
  /\ newClientSecret = {}
  /\ \E s \in Slots : calls = [x \in Slots |-> IF x = s THEN NewFetch ELSE Idle]
  /\ word = {}
  /\ trusted = TRUE

\* The page is left, or sent to /login by a 401, and opened again.  Calls it had
\* under way are from then on like those of other admins.
Remount ==
  /\ clients' = MockTable
  /\ confirmRevoke' = {} /\ confirmRotate' = {} /\ editingRateLimit' = {}
  /\ showCreateModal' = FALSE
  /\ newClientSecret' = {}
  /\ \E s \in Slots : calls' = [x \in Slots |-> IF x = s THEN NewFetch ELSE Idle]
  /\ word' = {}
  /\ trusted' = TRUE
  /\ UNCHANGED <<rows, owner>>

-----------------------------------------------------------------------------
(* The dialogues.  Their overlay covers the page: one opens when none is.   *)

NothingOpen ==
  /\ confirmRevoke = {} /\ confirmRotate = {} /\ editingRateLimit = {}
  /\ ~showCreateModal
  /\ newClientSecret = {}

Shown(i) == clients[i] # NoRow

ClickStatus(i) ==
  /\ NothingOpen /\ Shown(i)
  /\ confirmRevoke' = {[id |-> i, want |-> ~clients[i].active]}
  /\ word' = confirmRevoke'
  /\ UNCHANGED <<rows, owner, clients, confirmRotate, editingRateLimit,
                 showCreateModal, newClientSecret, calls, trusted>>

ClickRotate(i) ==
  /\ NothingOpen /\ Shown(i)
  /\ confirmRotate' = {i}
  /\ UNCHANGED <<rows, owner, clients, confirmRevoke, editingRateLimit,
                 showCreateModal, newClientSecret, calls, word, trusted>>

ClickLimit(i) ==
  /\ NothingOpen /\ Shown(i)
  /\ editingRateLimit' = {[id |-> i, row |-> clients[i]]}
  /\ UNCHANGED <<rows, owner, clients, confirmRevoke, confirmRotate,
                 showCreateModal, newClientSecret, calls, word, trusted>>

\* The field holds whatever was typed: zero, a negative number, nothing.
TypeLimit(n) ==
  /\ editingRateLimit # {}
  /\ editingRateLimit' = {[e EXCEPT !.row.limit = n] : e \in editingRateLimit}
  /\ UNCHANGED <<rows, owner, clients, confirmRevoke, confirmRotate,
                 showCreateModal, newClientSecret, calls, word, trusted>>

ClickCreate ==
  /\ NothingOpen
  /\ showCreateModal' = TRUE
  /\ UNCHANGED <<rows, owner, clients, confirmRevoke, confirmRotate,
                 editingRateLimit, newClientSecret, calls, word, trusted>>

\* The cancelling button of whichever dialogue is open.
Cancel ==
  /\ <<confirmRevoke, confirmRotate, editingRateLimit, showCreateModal>> # <<{}, {}, {}, FALSE>>
  /\ confirmRevoke' = {} /\ confirmRotate' = {} /\ editingRateLimit' = {}
  /\ showCreateModal' = FALSE
  /\ UNCHANGED <<rows, owner, clients, newClientSecret, calls, word, trusted>>

\* "I have securely stored the credentials".
Dismiss ==
  /\ newClientSecret # {}
  /\ newClientSecret' = {}
  /\ UNCHANGED <<rows, owner, clients, dialogues, calls, word, trusted>>

-----------------------------------------------------------------------------
(* Sending.  The buttons stay enabled while a call is under way.            *)

Send(s, c) ==
  /\ calls[s] = Idle
  /\ calls' = [calls EXCEPT ![s] = c]
  /\ UNCHANGED <<rows, owner, screen, trusted>>

AsStatus(want) == [active |-> want, limit |-> 0]

\* A handler that negates the row as it is on the page by now.
HandleToggleStatusLive(s) ==
  \E d \in confirmRevoke :
    Send(s, NewChange("status", d.id, AsStatus(~clients[d.id].active)))

\* The handler gets what the dialogue was opened with.
HandleToggleStatus(s) ==
  \E d \in confirmRevoke : Send(s, NewChange("status", d.id, AsStatus(d.want)))

HandleUpdateRateLimit(s) ==
  \E e \in editingRateLimit : Send(s, NewChange("limit", e.id, e.row))

HandleRotateSecret(s) ==
  \E i \in confirmRotate : Send(s, NewChange("rotate", i, AsStatus(FALSE)))

\* The form: any client id, and a limit of at least 1.
HandleCreateClient(s) ==
  /\ showCreateModal
  /\ \E i \in Ids, n \in Limits :
       Send(s, NewChange("create", i, [active |-> TRUE, limit |-> n]))

-----------------------------------------------------------------------------
(* The registry.                                                            *)

Answered(s, st) ==
  /\ calls' = [calls EXCEPT ![s].st = st]
  /\ UNCHANGED screen

At(s, kind, st) == calls[s] # Idle /\ calls[s].kind = kind /\ calls[s].st = st
Waiting(s, kind) == At(s, kind, "sent")

\* A registry that takes any id for one of its own.
KnownAny(i) == TRUE

\* The row exists; the ids of the invented rows are not even UUIDs.
Known(i) == i \in Ids /\ rows[i] # NoRow

\* A change is made, and the answer may be lost on its way.
ServeStatus(s) ==
  /\ Waiting(s, "status") /\ Known(calls[s].id)
  /\ rows' = [rows EXCEPT ![calls[s].id].active = calls[s].row.active]
  /\ \E st \in {"ok", "failed"} : Answered(s, st)
  /\ UNCHANGED <<owner, trusted>>

ServeLimit(s) ==
  /\ Waiting(s, "limit") /\ Known(calls[s].id) /\ calls[s].row.limit \in Limits
  /\ rows' = [rows EXCEPT ![calls[s].id].limit = calls[s].row.limit]
  /\ \E st \in {"ok", "failed"} : Answered(s, st)
  /\ UNCHANGED <<owner, trusted>>

\* A new secret for client i, in the answer unless it is lost.
Issue(s, i) ==
  /\ Len(owner) < MaxSecrets
  /\ owner' = Append(owner, i)
  /\ \/ calls' = [calls EXCEPT ![s].st = "ok", ![s].secret = Len(owner) + 1]
     \/ calls' = [calls EXCEPT ![s].st = "failed"]
  /\ UNCHANGED <<screen, trusted>>

ServeRotate(s) ==
  /\ Waiting(s, "rotate") /\ Known(calls[s].id)
  /\ Issue(s, calls[s].id)
  /\ UNCHANGED rows

\* A client_id that is taken is refused.
ServeCreate(s) ==
  /\ Waiting(s, "create") /\ ~Known(calls[s].id)
  /\ Issue(s, calls[s].id)
  /\ rows' = [rows EXCEPT ![calls[s].id] = calls[s].row]

Listing == [i \in AllIds |-> IF i \in Ids THEN rows[i] ELSE NoRow]

ServeFetch(s) ==
  /\ Waiting(s, "fetch")
  /\ calls' = [calls EXCEPT ![s].st = "ok", ![s].table = Listing]
  /\ UNCHANGED <<rows, owner, screen, trusted>>

\* Any call may be refused or break, on its way there.
Fail(s) ==
  /\ calls[s] # Idle /\ calls[s].st = "sent"
  /\ Answered(s, "failed")
  /\ UNCHANGED <<rows, owner, trusted>>

\* Another admin creates or changes a client.
Elsewhere(i, row) ==
  /\ rows' = [rows EXCEPT ![i] = row]
  /\ trusted' = FALSE
  /\ UNCHANGED <<owner, screen, calls>>

-----------------------------------------------------------------------------
(* Answers.                                                                 *)

Fetching == \E x \in Slots : calls[x] # Idle /\ calls[x].kind = "fetch"

\* fetchClients after a change; one that is still under way may be overtaken.
Refetch(s) ==
  /\ calls' = [calls EXCEPT ![s] = NewFetch]
  /\ trusted' = (trusted /\ ~Fetching)

Quietly(s) == calls' = [calls EXCEPT ![s] = Idle] /\ UNCHANGED trusted

\* The page believes itself from here on.
Pretend(s) == calls' = [calls EXCEPT ![s] = Idle] /\ trusted' = FALSE

\* The rows with the one of client i, if it is shown, replaced.
Patched(i, row) == [clients EXCEPT ![i] = IF @ = NoRow THEN @ ELSE row]

\* An answer that changes the row on the page and does not ask for the list.
StatusDonePatching(s) ==
  /\ At(s, "status", "ok")
  /\ clients' = Patched(calls[s].id, [clients[calls[s].id] EXCEPT !.active = calls[s].row.active])
  /\ Quietly(s)
  /\ confirmRevoke' = {}
  /\ UNCHANGED <<rows, owner, confirmRotate, editingRateLimit,
                 showCreateModal, newClientSecret, word>>

StatusDone(s) ==
  /\ At(s, "status", "ok")
  /\ Refetch(s)
  /\ confirmRevoke' = {}
  /\ UNCHANGED <<rows, owner, clients, confirmRotate, editingRateLimit,
                 showCreateModal, newClientSecret, word>>

StatusFailed(s) ==
  /\ At(s, "status", "failed")
  /\ clients' = Patched(calls[s].id, [clients[calls[s].id] EXCEPT !.active = calls[s].row.active])
  /\ Pretend(s)
  /\ confirmRevoke' = {}
  /\ UNCHANGED <<rows, owner, confirmRotate, editingRateLimit,
                 showCreateModal, newClientSecret, word>>

LimitDone(s) ==
  /\ At(s, "limit", "ok")
  /\ Refetch(s)
  /\ editingRateLimit' = {}
  /\ UNCHANGED <<rows, owner, clients, confirmRevoke, confirmRotate,
                 showCreateModal, newClientSecret, word>>

\* The whole copy comes back, with the status it had when it was opened.
LimitFailed(s) ==
  /\ At(s, "limit", "failed")
  /\ clients' = Patched(calls[s].id, calls[s].row)
  /\ Pretend(s)
  /\ editingRateLimit' = {}
  /\ UNCHANGED <<rows, owner, confirmRevoke, confirmRotate,
                 showCreateModal, newClientSecret, word>>

Display(i, k) == newClientSecret' = {[id |-> i, secret |-> k]}

CreateDone(s) ==
  /\ At(s, "create", "ok")
  /\ Refetch(s)
  /\ Display(calls[s].id, calls[s].secret)
  /\ showCreateModal' = FALSE
  /\ UNCHANGED <<rows, owner, clients, confirmRevoke, confirmRotate,
                 editingRateLimit, word>>

\* A secret of the page's own making, under the id that was typed.
CreateFailed(s) ==
  /\ At(s, "create", "failed")
  /\ Pretend(s)
  /\ Display(calls[s].id, Invented)
  /\ showCreateModal' = FALSE
  /\ UNCHANGED <<rows, owner, clients, confirmRevoke, confirmRotate,
                 editingRateLimit, word>>

\* A handler that leaves the answer where the next render finds it again.
RotateDoneKept(s) ==
  /\ At(s, "rotate", "ok")
  /\ UNCHANGED <<calls, trusted>>
  /\ Display(calls[s].id, calls[s].secret)
  /\ confirmRotate' = {}
  /\ UNCHANGED <<rows, owner, clients, confirmRevoke, editingRateLimit,
                 showCreateModal, word>>

RotateDone(s) ==
  /\ At(s, "rotate", "ok")
  /\ Quietly(s)
  /\ Display(calls[s].id, calls[s].secret)
  /\ confirmRotate' = {}
  /\ UNCHANGED <<rows, owner, clients, confirmRevoke, editingRateLimit,
                 showCreateModal, word>>

\* A handler that spreads what is on display and sets the id.
RotateFailedSpreading(s) ==
  /\ At(s, "rotate", "failed")
  /\ Pretend(s)
  /\ newClientSecret' = {[x EXCEPT !.id = calls[s].id] : x \in newClientSecret}
  /\ confirmRotate' = {}
  /\ UNCHANGED <<rows, owner, clients, confirmRevoke, editingRateLimit,
                 showCreateModal, word>>

RotateFailed(s) ==
  /\ At(s, "rotate", "failed")
  /\ Pretend(s)
  /\ Display(calls[s].id, Invented)
  /\ confirmRotate' = {}
  /\ UNCHANGED <<rows, owner, clients, confirmRevoke, editingRateLimit,
                 showCreateModal, word>>

\* An empty list leaves the rows as they are.
FetchDone(s) ==
  /\ At(s, "fetch", "ok")
  /\ Quietly(s)
  /\ clients' = IF calls[s].table = Nothing THEN clients ELSE calls[s].table
  /\ UNCHANGED <<rows, owner, dialogues, newClientSecret, word>>

FetchFailed(s) ==
  /\ At(s, "fetch", "failed")
  /\ Pretend(s)
  /\ UNCHANGED <<rows, owner, screen>>

-----------------------------------------------------------------------------

Clicks ==
  \/ \E i \in AllIds : ClickStatus(i) \/ ClickRotate(i) \/ ClickLimit(i)
  \/ \E n \in {0} \cup Limits : TypeLimit(n)
  \/ ClickCreate \/ Cancel \/ Dismiss

Sends(s) ==
  \/ HandleToggleStatus(s) \/ HandleUpdateRateLimit(s)
  \/ HandleRotateSecret(s) \/ HandleCreateClient(s)

Serves(s) ==
  \/ ServeStatus(s) \/ ServeLimit(s) \/ ServeRotate(s) \/ ServeCreate(s)
  \/ ServeFetch(s) \/ Fail(s)

Lands(s) ==
  \/ StatusDone(s) \/ StatusFailed(s) \/ LimitDone(s) \/ LimitFailed(s)
  \/ CreateDone(s) \/ CreateFailed(s) \/ RotateDone(s) \/ RotateFailed(s)
  \/ FetchDone(s) \/ FetchFailed(s)

Next ==
  \/ Remount
  \/ Clicks
  \/ \E s \in Slots : Sends(s) \/ Serves(s) \/ Lands(s)
  \/ \E i \in Ids, row \in Stored : Elsewhere(i, row)

Spec == Init /\ [][Next]_vars

-----------------------------------------------------------------------------

\* A generated secret is shown under the client it was generated for, however
\* rotations and creations overlap (ClientsPage.tsx:100, 116).
SecretUnderItsId ==
  \A x \in newClientSecret :
    x.secret # Invented => x.secret <= Len(owner) /\ owner[x.secret] = x.id

\* Every status call says what its dialogue said when it opened: no refetch that
\* lands meanwhile, and no second click, turns a revocation into an activation
\* (ClientsPage.tsx:55, 232, 379).
SentAsSaid ==
  [][ \A s \in Slots :
        calls[s] = Idle /\ calls'[s].kind = "status" =>
          word = {[id |-> calls'[s].id, want |-> calls'[s].row.active]} ]_vars

Rest == \A s \in Slots : calls[s] = Idle

\* A page at rest, on which nothing failed and no fetch overtook another, shows
\* the registry, unless another admin changed it (ClientsPage.tsx:38-60).
RestShowsRegistry ==
  Rest /\ trusted => clients = Listing \/ Listing = Nothing

\* Secret k is in an answer the page has not taken; it is on display.
Coming(k) == \E s \in Slots : calls[s] # Idle /\ calls[s].kind # "fetch" /\ calls[s].secret = k
OnDisplay(k) == \E x \in newClientSecret : x.secret = k

\* A generated secret is shown once and "will never be shown again": it comes in
\* one answer, is on display only out of that answer, and then no answer brings
\* it any more, however many rotations and creations overlap
\* (ClientsPage.tsx:100, 116, 336).
ShownOnce ==
  [][ \A k \in 1..Len(owner) :
        /\ Coming(k)' => Coming(k) /\ ~OnDisplay(k)'
        /\ OnDisplay(k)' => OnDisplay(k) \/ Coming(k) ]_vars

\* A generated secret on display is not replaced by one the page invented: it
\* stays until the admin says it is stored (ClientsPage.tsx:336, 360).
GeneratedStays ==
  [][ \A x \in newClientSecret : x.secret # Invented =>
        \A y \in newClientSecret' : y.secret # Invented ]_vars

=============================================================================
