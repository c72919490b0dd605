--------------------------- MODULE IngestionState ---------------------------
(***************************************************************************)
(* The state the API service and the ingestion service share: the          *)
(* documents table, the chunk rows, the transactional outbox, the object   *)
(* store, the vector store and the Celery queue, together with the local   *)
(* state of the processes that act on them.                                *)
(*                                                                         *)
(* Abstractions.                                                           *)
(*   - A document id is drawn from Docs; Content[d] is the pair (owner,    *)
(*     content hash) it would be created for.  Ids are fresh UUIDs in the  *)
(*     code, so fixing the content an id may carry loses nothing.          *)
(*   - All chunk rows (and vectors) one pipeline run produces are one      *)
(*     token of Runs: a run mints its chunk ids, writes them in one upsert *)
(*     and one flush, and nothing ever touches a part of them.             *)
(*   - A document whose text is empty (Blank) produces no chunk at all;    *)
(*     one whose bytes cannot be parsed is Malformed.                      *)
(*   - The order of the outbox (oldest first) and of the Celery queue is   *)
(*     not kept: events and messages are taken in any order.               *)
(***************************************************************************)
EXTENDS Naturals, FiniteSets

CONSTANTS
  Docs,          \* document ids that uploads may mint
  Contents,      \* (owner, SHA-256) pairs
  Content,       \* Docs -> Contents
  Blank,         \* contents that parse to no text
  Malformed,     \* contents the parser rejects
  MaxRuns,       \* bound: pipeline runs whose chunk ids are known at once
  Workers,       \* Celery worker processes
  Requests,      \* API request handlers in flight
  Operations,    \* kinds of request users issue
  Relays,        \* relay ticks that may run at the same time
  MaxEvents,     \* bound: outbox events known at once
  NoDoc,         \* no document
  MaxRetries,    \* ingest_max_retries
  BatchSize,     \* outbox_relay_batch_size
  PatientSweep,  \* the stuck threshold exceeds any run still in hand
  MaxCopies,     \* bound: identical messages queued at once
  MaxFaults      \* bound: failures injected by the environment

ASSUME ContentAssumption ==
  /\ Content \in [Docs -> Contents]
  /\ Blank \subseteq Contents
  /\ Malformed \subseteq Contents

ASSUME NoneAssumption == NoDoc \notin Docs

ASSUME BoundAssumption ==
  /\ MaxRetries \in Nat
  /\ BatchSize \in Nat \ {0}
  /\ MaxCopies \in Nat
  /\ MaxFaults \in Nat
  /\ MaxEvents \in Nat
  /\ MaxRuns \in Nat

ASSUME ChoiceAssumption ==
  /\ PatientSweep \in BOOLEAN
  /\ Operations \subseteq {"upload", "retry", "delete", "patch"}

VARIABLES
  status,      \* documents.status; "unborn" before the row, "deleted" after it
  chunks,      \* committed chunk rows of each document, as the runs they are of
  vectors,     \* points in the vector store under each document id
  objects,     \* contents whose original bytes are in object storage
  outbox,      \* unprocessed outbox events
  relay,       \* each relay tick's open transaction: events to do, events done
  queue,       \* the Celery queue: copies of each message <<document, retries>>
  stale,       \* unfinished documents whose updated_at is past the threshold
  worker,      \* each worker's progress through the pipeline
  request,     \* each API request's progress
  scrubbed,    \* history: a delete request has begun removing its artifacts
  overlapped,  \* history: two workers held it at the same time
  lost,        \* history: a message of it vanished and none replaced it yet
  faults       \* history: failures injected so far

rows    == <<status, chunks>>
stores  == <<vectors, objects>>
transit == <<outbox, relay, queue>>
history == <<scrubbed, overlapped, lost, faults>>
vars    == <<rows, stores, transit, stale, worker, request, history>>

-----------------------------------------------------------------------------
Unfinished == {"pending", "processing"}
RowStatus  == Unfinished \cup {"indexed", "failed"}
Status     == RowStatus \cup {"unborn", "deleted"}

Runs     == 1..MaxRuns
NoRun    == 0
EventIds == 1..MaxEvents
Event    == [id : EventIds, type : {"uploaded", "indexed"}, doc : Docs]
Messages == Docs \X (0..MaxRetries)

WorkerPC  == {"idle", "claim", "fetch", "clear", "upsert", "persist", "commit"}
Writing   == {"clear", "upsert", "persist", "commit"}
RequestPC == {"idle", "put", "insert", "retry", "vectors", "object", "row"}

WorkerState ==
  [pc    : WorkerPC,              \* the step it takes next
   doc   : Docs \cup {NoDoc},
   tries : 0..MaxRetries,         \* self.request.retries
   run   : Runs \cup {NoRun},     \* the chunk ids minted by this run
   gone  : SUBSET Runs]           \* chunk rows its open transaction deleted

RequestState == [pc : RequestPC, doc : Docs \cup {NoDoc}]

IdleWorker  == [pc |-> "idle", doc |-> NoDoc, tries |-> 0, run |-> NoRun, gone |-> {}]
IdleRequest == [pc |-> "idle", doc |-> NoDoc]
IdleRelay   == [todo |-> {}, done |-> {}]

\* The documents row of d exists.
Live(d) == status[d] \in RowStatus

Busy(w)     == worker[w].pc # "idle"
Holds(w, d) == Busy(w) /\ worker[w].doc = d

\* What run w writes for its document: nothing when the document has no text.
Output(w) == IF Content[worker[w].doc] \in Blank THEN {} ELSE {worker[w].run}

\* The flushed chunk rows hold a KEY SHARE lock on their document's row, so the
\* row cannot be deleted until that transaction ends.
RowLocked(d) ==
  \E w \in Workers : worker[w].pc = "commit" /\ worker[w].doc = d /\ Output(w) # {}

\* One UPDATE of the row of d; updated_at moves with it (onupdate).
SetStatus(d, s) ==
  /\ status' = [status EXCEPT ![d] = s]
  /\ stale'  = stale \ {d}

\* An outbox event is added in the transaction of the change it describes.  Its
\* id is the least one that no store and no relay knows.
Known(i) ==
  \/ \E e \in outbox : e.id = i
  \/ \E k \in Relays : \E e \in relay[k].todo \cup relay[k].done : e.id = i

Emit(type, d) ==
  \E i \in EventIds :
    /\ ~Known(i) /\ \A j \in 1..(i - 1) : Known(j)
    /\ outbox' = outbox \cup {[id |-> i, type |-> type, doc |-> d]}

Enqueue(m) == queue' = [queue EXCEPT ![m] = @ + 1]

Fault == faults < MaxFaults /\ faults' = faults + 1

TypeOK ==
  /\ status \in [Docs -> Status]
  /\ chunks \in [Docs -> SUBSET Runs]
  /\ vectors \in [Docs -> SUBSET Runs]
  /\ objects \subseteq Contents
  /\ outbox \subseteq Event
  /\ relay \in [Relays -> [todo : SUBSET Event, done : SUBSET Event]]
  /\ queue \in [Messages -> Nat]
  /\ stale \subseteq {d \in Docs : status[d] \in Unfinished}
  /\ worker \in [Workers -> WorkerState]
  /\ request \in [Requests -> RequestState]
  /\ \A w \in Workers :
       /\ Busy(w) => worker[w].doc \in Docs
       /\ worker[w].pc \in Writing => worker[w].run \in Runs
  /\ \A q \in Requests : request[q].pc # "idle" => request[q].doc \in Docs
  /\ scrubbed \subseteq Docs /\ overlapped \subseteq Docs /\ lost \subseteq Docs
  /\ faults \in 0..MaxFaults
=============================================================================
