----------------------------- MODULE QueueStore -----------------------------
(***************************************************************************)
(* The storage operations of the offline transport queue                   *)
(* (server/src/transport/queue/repository.ts) over the transport_queue     *)
(* table (server/src/policy/schema.ts), as functions from a table to a     *)
(* table.  A table is a set of rows; a row is a record                     *)
(*   [id, client, key, payload, status]                                    *)
(* where key is the coalesce key and payload whatever the executor needs.  *)
(* `attempts`, `last_error` and the timestamps are observability only (the *)
(* drainer has no attempt cap) and are left out.                           *)
(***************************************************************************)
EXTENDS Integers

Status == {"pending", "failed"}

\* Row r holds the action queued for target (client c, coalesce key k).
For(r, c, k) == r.client = c /\ r.key = k

\* Mutant: the conflict target ignores dead-lettered rows.
ConflictPendingOnly(rows, c, k) == \E r \in rows : For(r, c, k) /\ r.status = "pending"

\* The UNIQUE(client_id, coalesce_key) conflict the upsert resolves.
Conflict(rows, c, k) == \E r \in rows : For(r, c, k)

\* The row's content when the upsert overwrites it.
Rearmed(r, p) == [r EXCEPT !.payload = p, !.status = "pending"]

\* Mutant: a plain INTEGER PRIMARY KEY, which hands out the largest id in use + 1.
EnqueueRowid(rows, id, c, k, p) ==
  IF Conflict(rows, c, k)
  THEN {IF For(r, c, k) THEN Rearmed(r, p) ELSE r : r \in rows}
  ELSE rows \cup {[id |-> IF rows = {} THEN 1
                          ELSE 1 + (CHOOSE m \in {r.id : r \in rows} :
                                      \A r \in rows : r.id <= m),
                   client |-> c, key |-> k, payload |-> p, status |-> "pending"]}

\* enqueue: insert, or on conflict overwrite the payload of the existing row
\* and re-arm it as pending; the row keeps its id, hence its FIFO position.
Enqueue(rows, id, c, k, p) ==
  IF Conflict(rows, c, k)
  THEN {IF For(r, c, k) THEN Rearmed(r, p) ELSE r : r \in rows}
  ELSE rows \cup {[id |-> id, client |-> c, key |-> k, payload |-> p,
                   status |-> "pending"]}

\* AUTOINCREMENT: an id is consumed by an insert and never handed out again.
NextId(rows, id, c, k) == IF Conflict(rows, c, k) THEN id ELSE id + 1

\* Mutant: the resolved payload is not written back.
UpdatePayloadLost(rows, i, p) == rows

\* updateActionPayload: replace the payload of the row with this id, if any.
UpdatePayload(rows, i, p) ==
  {IF r.id = i THEN [r EXCEPT !.payload = p] ELSE r : r \in rows}

\* listPendingForClient.
PendingFor(rows, c) == {r \in rows : r.client = c /\ r.status = "pending"}

\* clientsWithPending.
ClientsWithPending(rows) == {r.client : r \in {s \in rows : s.status = "pending"}}

\* markDrained: delete by id, whatever the row holds by now.
MarkDrained(rows, i) == {r \in rows : r.id # i}

\* Mutant: a failed attempt removes the row.
RecordAttemptDeletes(rows, i) == {r \in rows : r.id # i}

\* recordAttempt bumps only `attempts`, `last_error` and `updated_at`.
RecordAttempt(rows, i) == rows

\* markFailed: dead-letter by id, whatever the row holds by now.
MarkFailed(rows, i) ==
  {IF r.id = i THEN [r EXCEPT !.status = "failed"] ELSE r : r \in rows}

\* ON DELETE CASCADE from clients.
CascadeClient(rows, c) == {r \in rows : r.client # c}

\* The row the drain loop takes next: rows are read ORDER BY id.
Oldest(batch) == CHOOSE r \in batch : \A s \in batch : r.id <= s.id
=============================================================================
