---------------------------- MODULE IngestWorker ----------------------------
(***************************************************************************)
(* The ingest_document Celery task and the pipeline it runs.  A worker     *)
(* takes a message (acknowledged late, so it holds it until the task       *)
(* ends), claims the document, does the heavy work with no transaction     *)
(* open, replaces the vectors, and ends with one transaction that replaces *)
(* the chunk rows and flips the status.  Other workers, API requests and   *)
(* the sweep act between any two of these steps.                           *)
(***************************************************************************)
EXTENDS IngestionState

Step(w, pc)   == worker' = [worker EXCEPT ![w].pc = pc]
StopWorker(w) == worker' = [worker EXCEPT ![w] = IdleWorker]
Reached(w, pc) == worker[w].pc = pc

\* A run's chunk ids are new UUIDs: no store and no other run knows them.
FreshRun(r) ==
  /\ \A d \in Docs : r \notin chunks[d] \cup vectors[d]
  /\ \A v \in Workers : worker[v].run # r /\ r \notin worker[v].gone

\* fail_document: overwrite the status of the row, if there is one.
FailDocument(d) ==
  IF Live(d) THEN SetStatus(d, "failed") ELSE UNCHANGED <<status, stale>>

\* The task raised: back off and try again, or give up and fail the document.
Raise(w) ==
  /\ StopWorker(w)
  /\ \/ /\ worker[w].tries < MaxRetries
        /\ Enqueue(<<worker[w].doc, worker[w].tries + 1>>)
        /\ UNCHANGED <<status, stale>>
     \/ /\ worker[w].tries = MaxRetries
        /\ FailDocument(worker[w].doc)
        /\ UNCHANGED queue
  /\ UNCHANGED <<chunks, stores, outbox, relay, request, scrubbed, overlapped, lost>>

\* Variant with a bug: an indexed document is processed again.
ReceiveIndexed(w, d, n) ==
  /\ Reached(w, "idle")
  /\ queue[<<d, n>>] > 0
  /\ queue' = [queue EXCEPT ![<<d, n>>] = @ - 1]
  /\ IF Live(d)
     THEN worker' = [worker EXCEPT ![w] =
            [IdleWorker EXCEPT !.pc = "claim", !.doc = d, !.tries = n]]
     ELSE UNCHANGED worker
  /\ UNCHANGED <<rows, stores, outbox, relay, stale, request, history>>

\* Take a message and load the row.  A missing or indexed document is skipped
\* and the message acknowledged.  One already "processing" needs no UPDATE (the
\* ORM sees no change), so the claim is over and updated_at stays as it was.
Receive(w, d, n) ==
  /\ Reached(w, "idle")
  /\ queue[<<d, n>>] > 0
  /\ queue' = [queue EXCEPT ![<<d, n>>] = @ - 1]
  /\ \/ /\ status[d] \in RowStatus \ {"indexed"}
        /\ worker' = [worker EXCEPT ![w] =
             [pc    |-> IF status[d] = "processing" THEN "fetch" ELSE "claim",
              doc   |-> d,
              tries |-> n,
              run   |-> NoRun,
              gone  |-> {}]]
        /\ overlapped' = IF \E v \in Workers : Holds(v, d)
                         THEN overlapped \cup {d} ELSE overlapped
     \/ /\ status[d] \notin RowStatus \ {"indexed"}
        /\ UNCHANGED <<worker, overlapped>>
  /\ UNCHANGED <<rows, stores, outbox, relay, stale, request, scrubbed, lost, faults>>

\* Commit the claim, whatever the row's status is by now.
Claim(w) ==
  /\ Reached(w, "claim")
  /\ Live(worker[w].doc)
  /\ SetStatus(worker[w].doc, "processing")
  /\ Step(w, "fetch")
  /\ UNCHANGED <<chunks, stores, transit, request, history>>

\* The row went away under the claim: its UPDATE matches nothing and raises.
ClaimRejected(w) ==
  /\ Reached(w, "claim")
  /\ ~Live(worker[w].doc)
  /\ Raise(w)
  /\ UNCHANGED faults

\* Fetch the original, parse, chunk and embed; chunk ids are minted here.
Fetch(w) ==
  /\ Reached(w, "fetch")
  /\ Content[worker[w].doc] \in objects \ Malformed
  /\ \E r \in Runs :
       /\ FreshRun(r) /\ \A s \in 1..(r - 1) : ~FreshRun(s)
       /\ worker' = [worker EXCEPT ![w].run = r, ![w].pc = "clear"]
  /\ UNCHANGED <<rows, stores, transit, stale, request, history>>

\* The original is not in storage.
FetchMissing(w) ==
  /\ Reached(w, "fetch")
  /\ Content[worker[w].doc] \notin objects
  /\ Raise(w)
  /\ UNCHANGED faults

\* The bytes do not parse: the document fails for good, the task succeeds.
ParseFailure(w) ==
  /\ Reached(w, "fetch")
  /\ Content[worker[w].doc] \in objects \cap Malformed
  /\ FailDocument(worker[w].doc)
  /\ StopWorker(w)
  /\ UNCHANGED <<chunks, stores, transit, request, history>>

\* Variant with a bug: points of earlier runs stay.
KeepVectors(w) ==
  /\ Reached(w, "clear")
  /\ Step(w, "upsert")
  /\ UNCHANGED <<rows, stores, transit, stale, request, history>>

\* Drop whatever points the document has, from any run.
ClearVectors(w) ==
  /\ Reached(w, "clear")
  /\ vectors' = [vectors EXCEPT ![worker[w].doc] = {}]
  /\ Step(w, "upsert")
  /\ UNCHANGED <<rows, objects, transit, stale, request, history>>

UpsertVectors(w) ==
  /\ Reached(w, "upsert")
  /\ vectors' = [vectors EXCEPT ![worker[w].doc] = @ \cup Output(w)]
  /\ Step(w, "persist")
  /\ UNCHANGED <<rows, objects, transit, stale, request, history>>

\* Open the terminal transaction: delete the chunk rows committed so far and
\* flush the new ones.  Their foreign key needs the document's row.
FlushChunks(w) ==
  /\ Reached(w, "persist")
  /\ Output(w) # {} => Live(worker[w].doc)
  /\ worker' = [worker EXCEPT ![w].gone = chunks[worker[w].doc], ![w].pc = "commit"]
  /\ UNCHANGED <<rows, stores, transit, stale, request, history>>

\* The document was deleted: the foreign key rejects the chunk rows.
FlushRejected(w) ==
  /\ Reached(w, "persist")
  /\ Output(w) # {} /\ ~Live(worker[w].doc)
  /\ Raise(w)
  /\ UNCHANGED faults

\* Variant with a bug: the old rows are deleted after the new ones are added.
CommitDeletingLast(w) ==
  /\ Reached(w, "commit")
  /\ Live(worker[w].doc)
  /\ chunks' = [chunks EXCEPT ![worker[w].doc] = {}]
  /\ SetStatus(worker[w].doc, "indexed")
  /\ Emit("indexed", worker[w].doc)
  /\ StopWorker(w)
  /\ UNCHANGED <<stores, relay, queue, request, history>>

\* Flip the status and emit the event with the chunk rows.  Rows another run
\* committed since this one's DELETE are not among those it removes.
Commit(w) ==
  /\ Reached(w, "commit")
  /\ Live(worker[w].doc)
  /\ chunks' = [chunks EXCEPT ![worker[w].doc] = (@ \ worker[w].gone) \cup Output(w)]
  /\ SetStatus(worker[w].doc, "indexed")
  /\ Emit("indexed", worker[w].doc)
  /\ StopWorker(w)
  /\ UNCHANGED <<stores, relay, queue, request, history>>

\* The row is gone (only a run without chunks gets this far): undo the vectors.
CommitDeleted(w) ==
  /\ Reached(w, "commit")
  /\ ~Live(worker[w].doc)
  /\ vectors' = [vectors EXCEPT ![worker[w].doc] = {}]
  /\ StopWorker(w)
  /\ UNCHANGED <<rows, objects, transit, stale, request, history>>

\* A store, the embedder or the database fails under the task.
TransientError(w) ==
  /\ Busy(w)
  /\ Fault
  /\ Raise(w)

\* The process dies.  Its message was not acknowledged and is delivered again,
\* unless the broker takes the loss of the child for an acknowledgement.
Crash(w) ==
  /\ Busy(w)
  /\ Fault
  /\ StopWorker(w)
  /\ \/ Enqueue(<<worker[w].doc, worker[w].tries>>) /\ UNCHANGED lost
     \/ lost' = lost \cup {worker[w].doc} /\ UNCHANGED queue
  /\ UNCHANGED <<rows, stores, outbox, relay, stale, request, scrubbed, overlapped>>

WorkerRun(w) ==
  \/ \E m \in Messages : Receive(w, m[1], m[2])
  \/ Claim(w) \/ ClaimRejected(w)
  \/ Fetch(w) \/ FetchMissing(w) \/ ParseFailure(w)
  \/ ClearVectors(w) \/ UpsertVectors(w)
  \/ FlushChunks(w) \/ FlushRejected(w)
  \/ Commit(w) \/ CommitDeleted(w)

WorkerStep(w) == WorkerRun(w) \/ TransientError(w) \/ Crash(w)
=============================================================================
