----------------------------- MODULE ClientTable ----------------------------
(***************************************************************************)
(* What the client registry promises to the admins who share it: a client  *)
(* id has at most one row, every change is one atomic write of one column, *)
(* a secret is given to one row once, and shown once, after it was given.  *)
(* The calls, what they read and how they interleave are absent: Registry  *)
(* implements this (api/admin.py, models/client.py).                       *)
(***************************************************************************)

CONSTANTS
  Ids,      \* client_id values
  Limits,   \* values of rate_limit
  Secrets   \* the secrets that can be generated

VARIABLES
  table,    \* table[id]: the rows of the client, none or one
  spent,    \* the secrets that were given to a row
  shown     \* the secrets that were shown to an admin

tableVars == <<table, spent, shown>>

Init ==
  /\ table = [id \in Ids |-> {}]
  /\ spent = {}
  /\ shown = {}

\* A free id gets a row, with a secret no row has had.
Create(id, limit) ==
  /\ table[id] = {}
  /\ \E s \in Secrets \ spent :
       /\ table' = [table EXCEPT ![id] =
            {[key |-> s, id |-> id, is_active |-> TRUE, rate_limit |-> limit,
              hashed_secret |-> s]}]
       /\ spent' = spent \cup {s}
  /\ UNCHANGED shown

\* The row of the client, as it is now, with one column changed.
Change(id, col, v) ==
  \E x \in table[id] : table' = [table EXCEPT ![id] = {[x EXCEPT ![col] = v]}]

SetStatus(id, b) == Change(id, "is_active", b) /\ UNCHANGED <<spent, shown>>

SetRateLimit(id, n) == Change(id, "rate_limit", n) /\ UNCHANGED <<spent, shown>>

\* A secret that was replaced is never given to a row again.
Rotate(id) ==
  \E s \in Secrets \ spent :
    /\ Change(id, "hashed_secret", s)
    /\ spent' = spent \cup {s}
    /\ UNCHANGED shown

Show ==
  \E s \in spent \ shown :
    /\ shown' = shown \cup {s}
    /\ UNCHANGED <<table, spent>>

Next ==
  \/ \E id \in Ids :
       \/ \E limit \in Limits : Create(id, limit) \/ SetRateLimit(id, limit)
       \/ \E b \in BOOLEAN : SetStatus(id, b)
       \/ Rotate(id)
  \/ Show

Spec == Init /\ [][Next]_tableVars

=============================================================================
