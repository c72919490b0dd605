----------------------------- MODULE DocumentApi -----------------------------
(***************************************************************************)
(* The API service's document requests: upload, retry, delete and patch.   *)
(* Every request is a short sequence of calls to stores that share no      *)
(* transaction, so each call is an action and requests interleave freely.  *)
(* request[q].doc is the document the request is about; an upload fixes    *)
(* the fresh id its row will get when it starts.                           *)
(***************************************************************************)
EXTENDS IngestionState

Goto(q, pc, d) == request' = [request EXCEPT ![q] = [pc |-> pc, doc |-> d]]
Finish(q)      == request' = [request EXCEPT ![q] = IdleRequest]
At(q, pc)      == request[q].pc = pc

\* Some row already holds the content d would be created with.
Held(d) == \E e \in Docs : Live(e) /\ Content[e] = Content[d]

\* Variant with a bug: the original is never stored.
StartUploadUnstored(q, d) ==
  /\ "upload" \in Operations
  /\ At(q, "idle")
  /\ status[d] = "unborn"
  /\ \A p \in Requests : request[p].doc # d
  /\ ~Held(d)
  /\ Goto(q, "insert", d)
  /\ UNCHANGED <<rows, stores, transit, stale, worker, history>>

\* upload: the duplicate pre-check found nothing.
StartUpload(q, d) ==
  /\ "upload" \in Operations
  /\ At(q, "idle")
  /\ status[d] = "unborn"
  /\ \A p \in Requests : request[p].doc # d
  /\ ~Held(d)
  /\ Goto(q, "put", d)
  /\ UNCHANGED <<rows, stores, transit, stale, worker, history>>

\* upload: write the original under its content-addressed key.
PutObject(q) ==
  /\ At(q, "put")
  /\ objects' = objects \cup {Content[request[q].doc]}
  /\ Goto(q, "insert", request[q].doc)
  /\ UNCHANGED <<rows, vectors, transit, stale, worker, history>>

\* Variant with a bug: the table has no unique constraint.
InsertUnchecked(q) ==
  /\ At(q, "insert")
  /\ SetStatus(request[q].doc, "pending")
  /\ Emit("uploaded", request[q].doc)
  /\ Finish(q)
  /\ UNCHANGED <<chunks, stores, relay, queue, worker, history>>

\* upload: the row and its event commit together ...
InsertRow(q) ==
  /\ At(q, "insert")
  /\ ~Held(request[q].doc)
  /\ SetStatus(request[q].doc, "pending")
  /\ Emit("uploaded", request[q].doc)
  /\ Finish(q)
  /\ UNCHANGED <<chunks, stores, relay, queue, worker, history>>

\* ... or the unique constraint rejects the insert and the caller gets a 409.
InsertRejected(q) ==
  /\ At(q, "insert")
  /\ Held(request[q].doc)
  /\ Finish(q)
  /\ UNCHANGED <<rows, stores, transit, stale, worker, history>>

\* retry: the row is loaded and is failed.
StartRetry(q, d) ==
  /\ "retry" \in Operations
  /\ At(q, "idle")
  /\ status[d] = "failed"
  /\ Goto(q, "retry", d)
  /\ UNCHANGED <<rows, stores, transit, stale, worker, history>>

\* retry: the UPDATE is keyed by id only, whatever the row's status is by now.
CommitRetry(q) ==
  /\ At(q, "retry")
  /\ Live(request[q].doc)
  /\ SetStatus(request[q].doc, "pending")
  /\ Emit("uploaded", request[q].doc)
  /\ Finish(q)
  /\ UNCHANGED <<chunks, stores, relay, queue, worker, history>>

\* retry: the row is gone, the UPDATE matches nothing and the request fails.
RetryRejected(q) ==
  /\ At(q, "retry")
  /\ ~Live(request[q].doc)
  /\ Finish(q)
  /\ UNCHANGED <<rows, stores, transit, stale, worker, history>>

\* delete: the row is loaded (404 otherwise).
StartDelete(q, d) ==
  /\ "delete" \in Operations
  /\ At(q, "idle")
  /\ Live(d)
  /\ Goto(q, "vectors", d)
  /\ UNCHANGED <<rows, stores, transit, stale, worker, history>>

\* delete: drop the document's points.
DeleteVectors(q) ==
  /\ At(q, "vectors")
  /\ vectors' = [vectors EXCEPT ![request[q].doc] = {}]
  /\ scrubbed' = scrubbed \cup {request[q].doc}
  /\ Goto(q, "object", request[q].doc)
  /\ UNCHANGED <<rows, objects, transit, stale, worker, overlapped, lost, faults>>

\* delete: drop the original, addressed by content and not by document.
DeleteObject(q) ==
  /\ At(q, "object")
  /\ objects' = objects \ {Content[request[q].doc]}
  /\ Goto(q, "row", request[q].doc)
  /\ UNCHANGED <<rows, vectors, transit, stale, worker, history>>

\* Variant with a bug: the foreign key does not cascade.
DeleteRowOnly(q) ==
  /\ At(q, "row")
  /\ ~RowLocked(request[q].doc)
  /\ SetStatus(request[q].doc, "deleted")
  /\ Finish(q)
  /\ UNCHANGED <<chunks, stores, transit, worker, history>>

\* delete: drop the row; the foreign key cascades to its chunk rows.  A row a
\* concurrent delete already removed matches nothing, which is not an error.
DeleteRow(q) ==
  /\ At(q, "row")
  /\ ~RowLocked(request[q].doc)
  /\ SetStatus(request[q].doc, "deleted")
  /\ chunks' = [chunks EXCEPT ![request[q].doc] = {}]
  /\ Finish(q)
  /\ UNCHANGED <<stores, transit, worker, history>>

\* patch: a new language is one UPDATE of the row.  Status is not written; the
\* clock the sweep goes by starts again.
UpdateLanguage(d) ==
  /\ "patch" \in Operations
  /\ Live(d)
  /\ stale' = stale \ {d}
  /\ UNCHANGED <<rows, stores, transit, worker, request, history>>

\* Any call of a request may raise, or the API process may die: what was
\* committed stays, the rest never happens.
RequestDies(q) ==
  /\ ~At(q, "idle")
  /\ Fault
  /\ Finish(q)
  /\ UNCHANGED <<rows, stores, transit, stale, worker, scrubbed, overlapped, lost>>

ApiStep(q) ==
  \/ \E d \in Docs : StartUpload(q, d) \/ StartRetry(q, d) \/ StartDelete(q, d)
  \/ PutObject(q) \/ InsertRow(q) \/ InsertRejected(q)
  \/ CommitRetry(q) \/ RetryRejected(q)
  \/ DeleteVectors(q) \/ DeleteObject(q) \/ DeleteRow(q)
  \/ RequestDies(q)
=============================================================================
