--------------------------- MODULE IngestionProofs ---------------------------
(***************************************************************************)
(* Safety of document ingestion for every number of documents, workers,    *)
(* requests and relays, and every bound; and what ingestion owes a user    *)
(* beyond its tables: the original of every document, and the life of a    *)
(* document as DocumentLifecycle has it.  At the end, the same for         *)
(* re-embedding next to ingestion.                                         *)
(***************************************************************************)
EXTENDS Reembed, TLAPS

-----------------------------------------------------------------------------
(* Parts of the type invariant that the helpers of the actions preserve. *)

RowsTyped ==
  /\ status \in [Docs -> Status]
  /\ stale \subseteq {d \in Docs : status[d] \in Unfinished}

RequestsTyped ==
  /\ request \in [Requests -> RequestState]
  /\ \A q \in Requests : request[q].pc # "idle" => request[q].doc \in Docs

WorkersTyped ==
  /\ worker \in [Workers -> WorkerState]
  /\ \A w \in Workers :
       /\ Busy(w) => worker[w].doc \in Docs
       /\ worker[w].pc \in Writing => worker[w].run \in Runs

\* An UPDATE of one row keeps the table and the sweep's clock well typed.
LEMMA SetStatusType ==
  ASSUME TypeOK, NEW d \in Docs, NEW s \in Status, SetStatus(d, s)
  PROVE  RowsTyped'
BY DEF RowsTyped, TypeOK, SetStatus

\* Failing a document is such an UPDATE or nothing.
LEMMA FailDocumentType ==
  ASSUME TypeOK, NEW d \in Docs, FailDocument(d)
  PROVE  RowsTyped'
<1>1. CASE Live(d)
  <2>1. SetStatus(d, "failed")
    BY <1>1 DEF FailDocument
  <2>2. "failed" \in Status
    BY DEF Status, RowStatus
  <2> QED
    BY <2>1, <2>2, SetStatusType
<1>2. CASE ~Live(d)
  BY <1>2 DEF FailDocument, TypeOK, RowsTyped
<1> QED
  BY <1>1, <1>2

\* The outbox only ever receives events.
LEMMA EmitType ==
  ASSUME TypeOK, NEW d \in Docs, NEW type \in {"uploaded", "indexed"}, Emit(type, d)
  PROVE  outbox' \subseteq Event
BY DEF TypeOK, Emit, Event

\* Enqueueing keeps the queue a count of each message.
LEMMA EnqueueType ==
  ASSUME TypeOK, NEW m \in Messages, Enqueue(m)
  PROVE  queue' \in [Messages -> Nat]
BY DEF TypeOK, Enqueue

\* A request moves along its own steps.
LEMMA GotoType ==
  ASSUME TypeOK, NEW q \in Requests, NEW pc \in RequestPC, NEW d \in Docs,
         Goto(q, pc, d)
  PROVE  RequestsTyped'
BY DEF RequestsTyped, TypeOK, Goto, RequestState

\* A request that ends is idle.
LEMMA FinishType ==
  ASSUME TypeOK, NEW q \in Requests, Finish(q)
  PROVE  RequestsTyped'
BY DEF RequestsTyped, TypeOK, Finish, RequestState, IdleRequest, RequestPC

\* A worker moves along its own steps, or drops what it was doing.
LEMMA StepType ==
  ASSUME TypeOK, NEW w \in Workers, Busy(w), NEW pc \in WorkerPC, Step(w, pc),
         pc \in Writing => worker[w].pc \in Writing
  PROVE  WorkersTyped'
BY SMTT(30) DEF WorkersTyped, TypeOK, Step, WorkerState, Busy

\* A worker that stops is idle.
LEMMA StopWorkerType ==
  ASSUME TypeOK, NEW w \in Workers, StopWorker(w)
  PROVE  WorkersTyped'
<1>1. IdleWorker \in WorkerState
  BY BoundAssumption DEF IdleWorker, WorkerState, WorkerPC, NoRun
<1> QED
  BY <1>1 DEF TypeOK, WorkersTyped, StopWorker, Busy, IdleWorker, Writing

\* Past the fetch a worker holds the chunk ids its run minted.
LEMMA OutputType ==
  ASSUME TypeOK, NEW w \in Workers, worker[w].pc \in Writing
  PROVE  Output(w) \subseteq Runs
BY DEF TypeOK, Output, WorkerState

\* A task that raised leaves everything it may touch well typed.
LEMMA RaiseType ==
  ASSUME TypeOK, NEW w \in Workers, Busy(w), Raise(w), faults' \in 0..MaxFaults
  PROVE  TypeOK'
<1> DEFINE d == worker[w].doc
           n == worker[w].tries
<1>1. d \in Docs /\ n \in 0..MaxRetries
  BY DEF TypeOK, WorkerState
<1>2. WorkersTyped'
  BY StopWorkerType DEF Raise
<1>3. queue' \in [Messages -> Nat] /\ RowsTyped'
  <2>1. CASE /\ n < MaxRetries
             /\ Enqueue(<<d, n + 1>>)
             /\ UNCHANGED <<status, stale>>
    <3>1. <<d, n + 1>> \in Messages
      BY <1>1, <2>1, BoundAssumption DEF Messages
    <3> QED
      BY <2>1, <3>1, EnqueueType DEF TypeOK, RowsTyped
  <2>2. CASE /\ n = MaxRetries
             /\ FailDocument(d)
             /\ UNCHANGED queue
    BY <1>1, <2>2, FailDocumentType DEF TypeOK
  <2> QED
    BY <2>1, <2>2 DEF Raise
<1> QED
  BY <1>2, <1>3 DEF TypeOK, RowsTyped, WorkersTyped, Raise, stores, Busy

-----------------------------------------------------------------------------
(* Type correctness. *)

\* The initial state is well typed.
LEMMA InitType == Init => TypeOK
<1> SUFFICES ASSUME Init PROVE TypeOK
  OBVIOUS
<1>1. /\ IdleWorker \in WorkerState
      /\ IdleRequest \in RequestState
      /\ IdleRelay \in [todo : SUBSET Event, done : SUBSET Event]
  BY BoundAssumption
  DEF IdleWorker, WorkerState, WorkerPC, NoRun, IdleRequest, RequestState,
      RequestPC, IdleRelay
<1> QED
  BY <1>1, BoundAssumption
  DEF Init, TypeOK, Status, Busy, IdleWorker, IdleRequest, Writing

\* An API request's step keeps the state well typed.
LEMMA ApiStepType ==
  ASSUME TypeOK, NEW q \in Requests, ApiStep(q)
  PROVE  TypeOK'
<1> DEFINE r == request[q].doc
<1> USE DEF rows, stores, transit, history
<1>1. /\ {"idle", "put", "insert", "retry", "vectors", "object", "row"} = RequestPC
      /\ {"pending", "processing", "indexed", "failed", "deleted"} \subseteq Status
  BY DEF RequestPC, Status, RowStatus, Unfinished
<1>2. ~At(q, "idle") => r \in Docs
  BY DEF TypeOK, At
<1>3. ASSUME NEW d \in Docs,
             StartUpload(q, d) \/ StartRetry(q, d) \/ StartDelete(q, d)
      PROVE  TypeOK'
  <2>1. \E pc \in RequestPC : Goto(q, pc, d)
    BY <1>1, <1>3 DEF StartUpload, StartRetry, StartDelete
  <2>2. RequestsTyped'
    BY <2>1, GotoType
  <2> QED
    BY <1>3, <2>2 DEF TypeOK, RequestsTyped, StartUpload, StartRetry, StartDelete, Busy
<1>4. CASE PutObject(q)
  <2>1. r \in Docs /\ Goto(q, "insert", r)
    BY <1>2, <1>4 DEF PutObject, At
  <2>2. RequestsTyped'
    BY <1>1, <2>1, GotoType
  <2>3. Content[r] \in Contents
    BY <2>1, ContentAssumption
  <2> QED
    BY <1>4, <2>2, <2>3 DEF TypeOK, RequestsTyped, PutObject, Busy
<1>5. CASE InsertRow(q) \/ CommitRetry(q)
  <2>1. /\ r \in Docs /\ Finish(q)
        /\ SetStatus(r, "pending") /\ Emit("uploaded", r)
    BY <1>2, <1>5 DEF InsertRow, CommitRetry, At
  <2>2. RequestsTyped'
    BY <2>1, FinishType
  <2>3. RowsTyped'
    BY <1>1, <2>1, SetStatusType
  <2>4. outbox' \subseteq Event
    BY <2>1, EmitType
  <2> QED
    BY <1>5, <2>2, <2>3, <2>4 DEF TypeOK, RequestsTyped, RowsTyped, InsertRow, CommitRetry, Busy
<1>6. CASE InsertRejected(q) \/ RetryRejected(q)
  <2>1. RequestsTyped'
    BY <1>6, FinishType DEF InsertRejected, RetryRejected
  <2> QED
    BY <1>6, <2>1 DEF TypeOK, RequestsTyped, InsertRejected, RetryRejected, Busy
<1>7. CASE DeleteVectors(q)
  <2>1. r \in Docs /\ Goto(q, "object", r)
    BY <1>2, <1>7 DEF DeleteVectors, At
  <2>2. RequestsTyped'
    BY <1>1, <2>1, GotoType
  <2> QED
    BY <1>7, <2>1, <2>2 DEF TypeOK, RequestsTyped, DeleteVectors, Busy
<1>8. CASE DeleteObject(q)
  <2>1. r \in Docs /\ Goto(q, "row", r)
    BY <1>2, <1>8 DEF DeleteObject, At
  <2>2. RequestsTyped'
    BY <1>1, <2>1, GotoType
  <2> QED
    BY <1>8, <2>2 DEF TypeOK, RequestsTyped, DeleteObject, Busy
<1>9. CASE DeleteRow(q)
  <2>1. r \in Docs /\ Finish(q) /\ SetStatus(r, "deleted")
    BY <1>2, <1>9 DEF DeleteRow, At
  <2>2. RequestsTyped'
    BY <2>1, FinishType
  <2>3. RowsTyped'
    BY <1>1, <2>1, SetStatusType
  <2> QED
    BY <1>9, <2>1, <2>2, <2>3 DEF TypeOK, RequestsTyped, RowsTyped, DeleteRow, Busy
<1>10. CASE RequestDies(q)
  <2>1. RequestsTyped'
    BY <1>10, FinishType DEF RequestDies
  <2>2. faults' \in 0..MaxFaults
    BY <1>10, BoundAssumption DEF TypeOK, RequestDies, Fault
  <2> QED
    BY <1>10, <2>1, <2>2 DEF TypeOK, RequestsTyped, RequestDies, Busy
<1> QED
  BY <1>3, <1>4, <1>5, <1>6, <1>7, <1>8, <1>9, <1>10 DEF ApiStep

\* Every step of a task that goes on or ends well, and every failure under it,
\* keeps the state well typed.
LEMMA WorkerStepType ==
  ASSUME TypeOK, NEW w \in Workers, WorkerStep(w)
  PROVE  TypeOK'
<1> DEFINE d == worker[w].doc
<1> USE DEF rows, stores, transit, history
<1>1. /\ WorkerPC = {"idle", "claim", "fetch", "clear", "upsert", "persist", "commit"}
      /\ {"pending", "processing", "indexed", "failed", "deleted"} \subseteq Status
      /\ Writing = {"clear", "upsert", "persist", "commit"}
  BY DEF WorkerPC, Writing, Status, RowStatus, Unfinished
<1>2. Busy(w) => d \in Docs
  BY DEF TypeOK
<1>3. ASSUME NEW m \in Messages, Receive(w, m[1], m[2])
      PROVE  TypeOK'
  <2>1. m[1] \in Docs /\ m[2] \in 0..MaxRetries /\ m = <<m[1], m[2]>>
    BY DEF Messages
  <2>2. queue' \in [Messages -> Nat]
    BY <1>3, <2>1 DEF TypeOK, Receive
  <2>3. WorkersTyped'
    <3> DEFINE new == [pc    |-> IF status[m[1]] = "processing" THEN "fetch" ELSE "claim",
                       doc   |-> m[1],
                       tries |-> m[2],
                       run   |-> NoRun,
                       gone  |-> {}]
    <3>1. new \in WorkerState /\ new.doc \in Docs /\ new.pc \notin Writing
      BY <1>1, <2>1 DEF WorkerState
    <3>2. worker' = [worker EXCEPT ![w] = new] \/ UNCHANGED worker
      BY <1>3 DEF Receive
    <3> HIDE DEF new
    <3> QED
      BY <3>1, <3>2 DEF TypeOK, WorkersTyped, Busy
  <2>4. overlapped' \subseteq Docs
    BY <1>3, <2>1 DEF TypeOK, Receive
  <2> QED
    BY <1>3, <2>2, <2>3, <2>4 DEF TypeOK, WorkersTyped, Receive
<1>4. CASE Claim(w)
  <2>1. Busy(w) /\ SetStatus(d, "processing") /\ Step(w, "fetch")
    BY <1>4 DEF Claim, Reached, Busy
  <2>2. RowsTyped' /\ WorkersTyped'
    BY <1>1, <1>2, <2>1, SetStatusType, StepType
  <2> QED
    BY <1>4, <2>2 DEF TypeOK, RowsTyped, WorkersTyped, Claim
<1>5. CASE ClaimRejected(w) \/ FetchMissing(w) \/ FlushRejected(w)
  BY <1>5, RaiseType
  DEF ClaimRejected, FetchMissing, FlushRejected, Reached, Busy, TypeOK
<1>6. CASE Fetch(w)
  <2>1. PICK r \in Runs : worker' = [worker EXCEPT ![w].run = r, ![w].pc = "clear"]
    BY <1>6 DEF Fetch
  <2>2. WorkersTyped'
    BY <1>1, <1>6, <2>1 DEF TypeOK, WorkersTyped, WorkerState, Fetch, Reached, Busy
  <2> QED
    BY <1>6, <2>2 DEF TypeOK, WorkersTyped, Fetch
<1>7. CASE ParseFailure(w)
  <2>1. RowsTyped' /\ WorkersTyped'
    BY <1>2, <1>7, FailDocumentType, StopWorkerType DEF ParseFailure, Reached, Busy
  <2> QED
    BY <1>7, <2>1 DEF TypeOK, RowsTyped, WorkersTyped, ParseFailure
<1>8. CASE ClearVectors(w)
  <2>1. WorkersTyped'
    BY <1>1, <1>8, StepType DEF ClearVectors, Reached, Busy
  <2> QED
    BY <1>2, <1>8, <2>1 DEF TypeOK, WorkersTyped, ClearVectors
<1>9. CASE UpsertVectors(w)
  <2>1. WorkersTyped'
    BY <1>1, <1>9, StepType DEF UpsertVectors, Reached, Busy
  <2>2. vectors' \in [Docs -> SUBSET Runs]
    BY <1>1, <1>9, OutputType DEF TypeOK, UpsertVectors, Reached
  <2> QED
    BY <1>9, <2>1, <2>2 DEF TypeOK, WorkersTyped, UpsertVectors
<1>10. CASE FlushChunks(w)
  <2>1. chunks[d] \subseteq Runs
    BY <1>2, <1>10 DEF TypeOK, FlushChunks, Reached, Busy
  <2>2. WorkersTyped'
    BY <1>1, <1>10, <2>1
    DEF TypeOK, WorkersTyped, WorkerState, FlushChunks, Reached, Busy
  <2> QED
    BY <1>10, <2>2 DEF TypeOK, WorkersTyped, FlushChunks
<1>11. CASE Commit(w)
  <2>1. /\ Busy(w) /\ d \in Docs /\ StopWorker(w)
        /\ SetStatus(d, "indexed") /\ Emit("indexed", d)
    BY <1>2, <1>11 DEF Commit, Reached, Busy
  <2>2. RowsTyped' /\ WorkersTyped' /\ outbox' \subseteq Event
    BY <1>1, <2>1, SetStatusType, StopWorkerType, EmitType
  <2>3. chunks' \in [Docs -> SUBSET Runs]
    BY <1>1, <1>11, OutputType DEF TypeOK, Commit, Reached
  <2> QED
    BY <1>11, <2>2, <2>3 DEF TypeOK, RowsTyped, WorkersTyped, Commit
<1>12. CASE CommitDeleted(w)
  <2>1. WorkersTyped'
    BY <1>12, StopWorkerType DEF CommitDeleted
  <2> QED
    BY <1>12, <2>1 DEF TypeOK, WorkersTyped, CommitDeleted
<1>13. CASE TransientError(w)
  <2>1. faults' \in 0..MaxFaults
    BY <1>13, BoundAssumption DEF TypeOK, TransientError, Fault
  <2> QED
    BY <1>13, <2>1, RaiseType DEF TransientError
<1>14. CASE Crash(w)
  <2>1. faults' \in 0..MaxFaults
    BY <1>14, BoundAssumption DEF TypeOK, Crash, Fault
  <2>2. d \in Docs /\ <<d, worker[w].tries>> \in Messages
    BY <1>2, <1>14 DEF Crash, TypeOK, WorkerState, Messages
  <2>3. WorkersTyped' /\ queue' \in [Messages -> Nat] /\ lost' \subseteq Docs
    BY <1>14, <2>2, StopWorkerType, EnqueueType DEF Crash, TypeOK
  <2> QED
    BY <1>14, <2>1, <2>3 DEF TypeOK, WorkersTyped, Crash
<1> QED
  BY <1>3, <1>4, <1>5, <1>6, <1>7, <1>8, <1>9, <1>10, <1>11, <1>12, <1>13, <1>14
  DEF WorkerStep, WorkerRun

\* Relays, the sweep, the broker and time keep the state well typed.
LEMMA DispatchStepType ==
  ASSUME TypeOK, DispatchStep
  PROVE  TypeOK'
<1> USE DEF rows, stores, transit, history
<1>1. ASSUME NEW k \in Relays, RelayFetch(k) \/ RelayDispatch(k) \/ RelayCommit(k)
      PROVE  TypeOK'
  <2>1. relay' \in [Relays -> [todo : SUBSET Event, done : SUBSET Event]]
    <3>1. CASE RelayFetch(k)
      BY <3>1 DEF TypeOK, RelayFetch
    <3>2. CASE RelayDispatch(k)
      <4>1. PICK e \in relay[k].todo :
              relay' = [relay EXCEPT ![k].todo = @ \ {e}, ![k].done = @ \cup {e}]
        BY <3>2 DEF RelayDispatch
      <4> QED
        BY <4>1 DEF TypeOK
    <3>3. CASE RelayCommit(k)
      BY <3>3 DEF TypeOK, RelayCommit, IdleRelay
    <3> QED
      BY <1>1, <3>1, <3>2, <3>3
  <2>2. queue' \in [Messages -> Nat]
    <3>1. CASE RelayDispatch(k)
      <4>1. PICK e \in Event : Enqueue(<<e.doc, 0>>) \/ UNCHANGED queue
        BY <3>1 DEF RelayDispatch, TypeOK
      <4>2. <<e.doc, 0>> \in Messages
        BY BoundAssumption DEF Event, Messages
      <4> QED
        BY <4>1, <4>2, EnqueueType DEF TypeOK
    <3> QED
      BY <1>1, <3>1 DEF TypeOK, RelayFetch, RelayCommit
  <2>3. outbox' \subseteq Event
    BY <1>1 DEF TypeOK, RelayFetch, RelayDispatch, RelayCommit
  <2> QED
    BY <1>1, <2>1, <2>2, <2>3 DEF TypeOK, RelayFetch, RelayDispatch, RelayCommit, Busy
<1>2. ASSUME NEW k \in Relays, RelayCrash(k)
      PROVE  TypeOK'
  BY <1>2, BoundAssumption DEF TypeOK, RelayCrash, IdleRelay, Fault, Busy
<1>3. CASE Sweep
  <2>1. queue' \in [Messages -> Nat]
    BY <1>3 DEF TypeOK, Sweep
  <2> QED
    BY <1>3, <2>1 DEF TypeOK, Sweep, Busy
<1>4. ASSUME NEW d \in Docs, Age(d)
      PROVE  TypeOK'
  BY <1>4 DEF TypeOK, Age, Busy
<1>5. ASSUME NEW m \in Messages, LoseMessage(m)
      PROVE  TypeOK'
  BY <1>5, BoundAssumption DEF TypeOK, LoseMessage, Fault, Messages, Busy
<1>6. ASSUME NEW w \in Workers, Redeliver(w)
      PROVE  TypeOK'
  <2>1. <<worker[w].doc, worker[w].tries>> \in Messages
    BY <1>6 DEF TypeOK, Redeliver, WorkerState, Messages
  <2>2. queue' \in [Messages -> Nat]
    BY <1>6, <2>1, EnqueueType DEF Redeliver
  <2> QED
    BY <1>6, <2>2, BoundAssumption DEF TypeOK, Redeliver, Fault, Busy
<1> QED
  BY <1>1, <1>2, <1>3, <1>4, <1>5, <1>6 DEF DispatchStep, RelayRun

\* Every step keeps the state well typed.
LEMMA NextType == TypeOK /\ [Next]_vars => TypeOK'
<1> SUFFICES ASSUME TypeOK, [Next]_vars PROVE TypeOK'
  OBVIOUS
<1>1. ASSUME NEW d \in Docs, UpdateLanguage(d)
      PROVE  TypeOK'
  BY <1>1 DEF TypeOK, UpdateLanguage, Busy, rows, stores, transit, history
<1>2. CASE UNCHANGED vars
  BY <1>2 DEF TypeOK, Busy, vars, rows, stores, transit, history
<1> QED
  BY <1>1, <1>2, ApiStepType, WorkerStepType, DispatchStepType DEF Next

\* Type correctness of ingestion (document.py, outbox.py, the task's state):
\* every row, message, event, worker and request is always one of those listed.
THEOREM TypeCorrect == Spec => []TypeOK
BY InitType, NextType, PTL DEF Spec

-----------------------------------------------------------------------------
(* What one step does to the documents and chunks tables. *)

Inserts(d) ==
  /\ ~Held(d)
  /\ status' = [status EXCEPT ![d] = "pending"] /\ UNCHANGED chunks

Updates(d) ==
  /\ Live(d) /\ UNCHANGED chunks
  /\ \E s \in {"pending", "processing", "failed"} : status' = [status EXCEPT ![d] = s]

Deletes(d) ==
  /\ status' = [status EXCEPT ![d] = "deleted"]
  /\ chunks' = [chunks EXCEPT ![d] = {}]

Indexes(d) ==
  /\ Live(d)
  /\ status' = [status EXCEPT ![d] = "indexed"]
  /\ \E w \in Workers :
       /\ worker[w].doc = d
       /\ chunks' = [chunks EXCEPT ![d] = (@ \ worker[w].gone) \cup Output(w)]

\* A task that raised updates its document at most.
LEMMA RaiseRows ==
  ASSUME TypeOK, NEW w \in Workers, Busy(w), Raise(w)
  PROVE  UNCHANGED rows \/ Updates(worker[w].doc)
BY DEF Raise, FailDocument, SetStatus, Updates, rows

\* A worker that holds a document updates or indexes it at most, an idle one
\* leaves both tables alone.
LEMMA WorkerRows ==
  ASSUME TypeOK, NEW w \in Workers, WorkerStep(w)
  PROVE  \/ UNCHANGED rows
         \/ Busy(w) /\ (Updates(worker[w].doc) \/ Indexes(worker[w].doc))
<1> USE DEF rows
<1>1. CASE Busy(w)
  <2>1. CASE ClaimRejected(w) \/ FetchMissing(w) \/ FlushRejected(w) \/ TransientError(w)
    BY <1>1, <2>1, RaiseRows
    DEF ClaimRejected, FetchMissing, FlushRejected, TransientError
  <2>2. CASE Claim(w) \/ ParseFailure(w)
    BY <1>1, <2>2 DEF Claim, ParseFailure, FailDocument, SetStatus, Updates
  <2>3. CASE Commit(w)
    BY <1>1, <2>3 DEF Commit, SetStatus, Indexes
  <2> QED
    BY <1>1, <2>1, <2>2, <2>3
    DEF WorkerStep, WorkerRun, Receive, Fetch, ClearVectors, UpsertVectors,
        FlushChunks, CommitDeleted, Crash
<1>2. CASE ~Busy(w)
  BY <1>2
  DEF WorkerStep, WorkerRun, Busy, Reached, Receive, Claim, ClaimRejected, Fetch,
      FetchMissing, ParseFailure, ClearVectors, UpsertVectors, FlushChunks,
      FlushRejected, Commit, CommitDeleted, TransientError, Crash
<1> QED
  BY <1>1, <1>2

\* Each step inserts, updates, deletes or indexes one document, or leaves both
\* tables alone.
LEMMA RowSteps ==
  ASSUME TypeOK, [Next]_vars
  PROVE  \/ UNCHANGED rows
         \/ \E d \in Docs : Inserts(d) \/ Updates(d) \/ Deletes(d) \/ Indexes(d)
<1> USE DEF rows
<1>1. ASSUME NEW q \in Requests, ApiStep(q), ~At(q, "idle")
      PROVE  LET r == request[q].doc
             IN  UNCHANGED rows \/ Inserts(r) \/ Updates(r) \/ Deletes(r)
  BY <1>1
  DEF ApiStep, At, StartUpload, StartRetry, StartDelete, PutObject, InsertRow,
      InsertRejected, CommitRetry, RetryRejected, DeleteVectors, DeleteObject,
      DeleteRow, RequestDies, SetStatus, Inserts, Updates, Deletes
<1>2. ASSUME NEW q \in Requests, ApiStep(q), At(q, "idle")
      PROVE  UNCHANGED rows
  BY <1>2
  DEF ApiStep, At, StartUpload, StartRetry, StartDelete, PutObject, InsertRow,
      InsertRejected, CommitRetry, RetryRejected, DeleteVectors, DeleteObject,
      DeleteRow, RequestDies
<1>3. CASE DispatchStep \/ \E d \in Docs : UpdateLanguage(d)
  BY <1>3
  DEF DispatchStep, RelayRun, RelayFetch, RelayDispatch, RelayCommit, RelayCrash,
      Sweep, Age, LoseMessage, Redeliver, UpdateLanguage
<1>4. \A q \in Requests : ~At(q, "idle") => request[q].doc \in Docs
  BY DEF TypeOK, At
<1>5. \A w \in Workers : Busy(w) => worker[w].doc \in Docs
  BY DEF TypeOK
<1> QED
  BY <1>1, <1>2, <1>3, <1>4, <1>5, WorkerRows DEF Next, vars

-----------------------------------------------------------------------------
(* What the two tables guarantee. *)

\* Every step keeps chunk rows with their document: a row is inserted without
\* any, updated in place, deleted with its chunk rows, or indexed while it lives.
LEMMA ChunksStep == TypeOK /\ ChunksHaveDocument /\ [Next]_vars => ChunksHaveDocument'
BY RowSteps
DEF TypeOK, ChunksHaveDocument, Live, RowStatus, Unfinished, rows,
    Inserts, Updates, Deletes, Indexes

\* The foreign key at work: no interleaving of deletes and terminal
\* transactions leaves a chunk row without its document.
THEOREM ChunksAlwaysHaveDocument == Spec => []ChunksHaveDocument
<1>1. Init => ChunksHaveDocument
  BY DEF Init, ChunksHaveDocument
<1> QED
  BY <1>1, ChunksStep, TypeCorrect, PTL DEF Spec

\* Every step keeps the chunk rows of an indexed document: only indexing and
\* deleting replace them, and indexing always adds its own.
LEMMA IndexedStep == TypeOK /\ IndexedHasChunks /\ [Next]_vars => IndexedHasChunks'
<1> SUFFICES ASSUME TypeOK, IndexedHasChunks, [Next]_vars
             PROVE  IndexedHasChunks'
  OBVIOUS
<1>1. CASE UNCHANGED rows
  BY <1>1 DEF IndexedHasChunks, rows
<1>2. ASSUME NEW d \in Docs, Inserts(d) \/ Updates(d) \/ Deletes(d)
      PROVE  IndexedHasChunks'
  BY <1>2 DEF TypeOK, IndexedHasChunks, Inserts, Updates, Deletes
<1>3. ASSUME NEW d \in Docs, Indexes(d)
      PROVE  IndexedHasChunks'
  <2>1. PICK w \in Workers :
          /\ worker[w].doc = d
          /\ chunks' = [chunks EXCEPT ![d] = (@ \ worker[w].gone) \cup Output(w)]
    BY <1>3 DEF Indexes
  <2>2. Content[d] \notin Blank => chunks'[d] # {}
    BY <2>1 DEF TypeOK, Output
  <2> QED
    BY <1>3, <2>1, <2>2 DEF TypeOK, IndexedHasChunks, Indexes
<1> QED
  BY <1>1, <1>2, <1>3, RowSteps

\* Indexed is never shown for a document with text and no chunk row, however
\* many runs replace its rows at once (pipeline.py:130-161).
THEOREM IndexedAlwaysHasChunks == Spec => []IndexedHasChunks
<1>1. Init => IndexedHasChunks
  BY DEF Init, IndexedHasChunks
<1> QED
  BY <1>1, IndexedStep, TypeCorrect, PTL DEF Spec

\* Every step keeps contents unique: a row only comes to life where no other
\* holds its content.
LEMMA UniqueStep == TypeOK /\ OneDocumentPerContent /\ [Next]_vars => OneDocumentPerContent'
BY RowSteps
DEF TypeOK, OneDocumentPerContent, Live, Held, RowStatus, Unfinished, rows,
    Inserts, Updates, Deletes, Indexes

\* However uploads, retries, deletes and runs race, no user has two documents
\* with the same bytes (document.py:45-48).
THEOREM AlwaysOneDocumentPerContent == Spec => []OneDocumentPerContent
<1>1. Init => OneDocumentPerContent
  BY DEF Init, OneDocumentPerContent, Live, RowStatus, Unfinished
<1> QED
  BY <1>1, UniqueStep, TypeCorrect, PTL DEF Spec

-----------------------------------------------------------------------------
(* Work is always on its way to an unfinished document. *)

HasWork(d) == status[d] \in Unfinished => WorkComing(d) \/ d \in lost

\* A request only adds events, and only makes a document unfinished with one.
LEMMA ApiStepWork ==
  ASSUME TypeOK, NEW q \in Requests, ApiStep(q), NEW d \in Docs, HasWork(d)
  PROVE  HasWork(d)'
<1>1. CASE InsertRow(q) \/ CommitRetry(q)
  <2>1. PICK r \in Docs :
          Emit("uploaded", r) /\ status' = [status EXCEPT ![r] = "pending"]
    BY <1>1 DEF TypeOK, InsertRow, CommitRetry, At, SetStatus
  <2>2. UNCHANGED <<relay, queue, worker, lost>>
    BY <1>1 DEF InsertRow, CommitRetry, history
  <2>3. WorkComing(r)'
    <3>1. PICK i \in EventIds :
            ~Known(i) /\ outbox' = outbox \cup {[id |-> i, type |-> "uploaded", doc |-> r]}
      BY <2>1 DEF Emit
    <3> DEFINE e == [id |-> i, type |-> "uploaded", doc |-> r]
    <3>2. \A k \in Relays : e \notin relay[k].done
      BY <3>1 DEF Known
    <3>3. e \in outbox' /\ e.type = "uploaded" /\ e.doc = r
      BY <3>1
    <3> HIDE DEF e
    <3> QED
      BY <2>2, <3>2, <3>3 DEF WorkComing
  <2>4. WorkComing(d) => WorkComing(d)'
    <3>1. outbox \subseteq outbox'
      BY <2>1 DEF Emit
    <3> QED
      BY <2>2, <3>1 DEF WorkComing, Holds, Busy
  <2> QED
    BY <2>1, <2>2, <2>3, <2>4 DEF TypeOK, HasWork
<1>2. CASE ~(InsertRow(q) \/ CommitRetry(q))
  <2>1. UNCHANGED <<outbox, relay, queue, worker, lost>>
    BY <1>2
    DEF ApiStep, StartUpload, StartRetry, StartDelete, PutObject, InsertRejected,
        RetryRejected, DeleteVectors, DeleteObject, DeleteRow, RequestDies,
        transit, history
  <2>2. UNCHANGED status \/ \E e : status' = [status EXCEPT ![e] = "deleted"]
    BY <1>2
    DEF ApiStep, StartUpload, StartRetry, StartDelete, PutObject, InsertRejected,
        RetryRejected, DeleteVectors, DeleteObject, DeleteRow, RequestDies,
        SetStatus, rows
  <2>3. status[d]' \in Unfinished => status[d] \in Unfinished
    BY <2>2 DEF TypeOK, Unfinished
  <2> QED
    BY <2>1, <2>3 DEF HasWork, WorkComing, Holds, Busy
<1> QED
  BY <1>1, <1>2

\* No message of d is taken off the queue for good.
QueueKeeps(d) ==
  \A n \in 0..MaxRetries : queue[<<d, n>>] > 0 => queue'[<<d, n>>] > 0

\* A worker that lets go of its document leaves the others' work alone.
LEMMA StopWorkerKeeps ==
  ASSUME TypeOK, NEW w \in Workers, StopWorker(w), NEW d \in Docs, d # worker[w].doc,
         WorkComing(d), UNCHANGED <<outbox, relay>>, QueueKeeps(d)
  PROVE  WorkComing(d)'
<1>1. \A v \in Workers : Holds(v, d) => Holds(v, d)'
  BY DEF TypeOK, StopWorker, Holds, Busy
<1> QED
  BY <1>1 DEF WorkComing, QueueKeeps

\* A message that was just put on the queue is work coming.
LEMMA EnqueueWork ==
  ASSUME TypeOK, NEW d \in Docs, NEW n \in 0..MaxRetries, Enqueue(<<d, n>>)
  PROVE  WorkComing(d)' /\ \A e \in Docs : QueueKeeps(e)
<1>1. \A e \in Docs, k \in 0..MaxRetries : <<e, k>> \in Messages
  BY DEF Messages
<1>2. /\ queue'[<<d, n>>] = queue[<<d, n>>] + 1
      /\ \A m \in Messages : m # <<d, n>> => queue'[m] = queue[m]
      /\ \A m \in Messages : queue[m] \in Nat
  BY <1>1 DEF TypeOK, Enqueue
<1>3. queue'[<<d, n>>] > 0
  BY <1>1, <1>2
<1>4. ASSUME NEW e \in Docs, NEW k \in 0..MaxRetries, queue[<<e, k>>] > 0
      PROVE  queue'[<<e, k>>] > 0
  BY <1>1, <1>2, <1>3, <1>4
<1> QED
  BY <1>3, <1>4 DEF WorkComing, QueueKeeps

\* A task that raised comes back to its document, or fails it.
LEMMA RaiseWork ==
  ASSUME TypeOK, NEW w \in Workers, Busy(w), Raise(w), NEW d \in Docs, HasWork(d)
  PROVE  HasWork(d)'
<1>1. PICK e \in Docs, n \in 0..MaxRetries : e = worker[w].doc /\ n = worker[w].tries
  BY DEF TypeOK, WorkerState
<1>2. StopWorker(w) /\ UNCHANGED <<outbox, relay, lost>>
  BY DEF Raise
<1>3. CASE n < MaxRetries /\ Enqueue(<<e, n + 1>>) /\ UNCHANGED status
  <2>1. n + 1 \in 0..MaxRetries
    BY <1>3, BoundAssumption
  <2>2. WorkComing(e)' /\ QueueKeeps(d)
    BY <1>3, <2>1, EnqueueWork
  <2>3. d # e /\ WorkComing(d) => WorkComing(d)'
    BY <1>1, <1>2, <2>2, StopWorkerKeeps
  <2> QED
    BY <1>2, <1>3, <2>2, <2>3 DEF HasWork
<1>4. CASE FailDocument(e) /\ UNCHANGED queue
  <2>1. \A f \in Docs : status'[f] \in Unfinished => status[f] \in Unfinished /\ f # e
    BY <1>4 DEF TypeOK, FailDocument, SetStatus, Live, RowStatus, Unfinished
  <2>2. QueueKeeps(d)
    BY <1>4 DEF QueueKeeps
  <2>3. d # e /\ WorkComing(d) => WorkComing(d)'
    BY <1>1, <1>2, <2>2, StopWorkerKeeps
  <2> QED
    BY <1>2, <2>1, <2>3 DEF HasWork
<1> QED
  BY <1>1, <1>3, <1>4 DEF Raise

\* A worker keeps its message until the document has come to rest, and gives
\* it back when it cannot go on.
LEMMA WorkerStepWork ==
  ASSUME TypeOK, NEW w \in Workers, WorkerStep(w), NEW d \in Docs, HasWork(d)
  PROVE  HasWork(d)'
<1> USE DEF rows, stores, transit, history
<1>1. ASSUME NEW m \in Messages, Receive(w, m[1], m[2])
      PROVE  HasWork(d)'
  <2>1. PICK e \in Docs, n \in 0..MaxRetries : m[1] = e /\ m[2] = n
    BY DEF Messages
  <2>2. /\ UNCHANGED <<status, outbox, relay, lost>>
        /\ queue' = [queue EXCEPT ![<<e, n>>] = @ - 1]
    BY <1>1, <2>1 DEF Receive
  <2>3. \A v \in Workers : Holds(v, d) => Holds(v, d)'
    BY <1>1 DEF TypeOK, Receive, Reached, Holds, Busy
  <2>4. d # e => \A k \in 0..MaxRetries : queue'[<<d, k>>] = queue[<<d, k>>]
    BY <2>2 DEF TypeOK, Messages
  <2>5. status[e] \in Unfinished => Holds(w, e)'
    BY <1>1, <2>1
    DEF TypeOK, Receive, Holds, Busy, RowStatus, Unfinished
  <2> QED
    BY <2>2, <2>3, <2>4, <2>5 DEF HasWork, WorkComing
<1>2. CASE Claim(w) \/ Fetch(w) \/ ClearVectors(w) \/ UpsertVectors(w) \/ FlushChunks(w)
  <2>1. UNCHANGED <<outbox, relay, queue, lost>>
    BY <1>2 DEF Claim, Fetch, ClearVectors, UpsertVectors, FlushChunks
  <2>2. \A v \in Workers :
          /\ worker'[v].doc = worker[v].doc
          /\ Busy(v) => Busy(v)'
    <3>1. CASE Fetch(w)
      <4>1. PICK r \in Runs : worker' = [worker EXCEPT ![w].run = r, ![w].pc = "clear"]
        BY <3>1 DEF Fetch
      <4> QED
        BY <4>1 DEF TypeOK, Busy, WorkerState
    <3>2. CASE FlushChunks(w)
      BY <3>2 DEF TypeOK, FlushChunks, Busy, WorkerState
    <3>3. CASE Claim(w)
      BY <3>3 DEF TypeOK, Claim, Step, Busy, WorkerState
    <3>4. CASE ClearVectors(w)
      BY <3>4 DEF TypeOK, ClearVectors, Step, Busy, WorkerState
    <3>5. CASE UpsertVectors(w)
      BY <3>5 DEF TypeOK, UpsertVectors, Step, Busy, WorkerState
    <3> QED
      BY <1>2, <3>1, <3>2, <3>3, <3>4, <3>5
  <2>3. d # worker[w].doc => status'[d] = status[d]
    BY <1>2
    DEF TypeOK, Claim, Fetch, ClearVectors, UpsertVectors, FlushChunks, SetStatus
  <2>4. Busy(w)
    BY <1>2
    DEF Claim, Fetch, ClearVectors, UpsertVectors, FlushChunks, Reached, Busy
  <2> QED
    BY <2>1, <2>2, <2>3, <2>4 DEF HasWork, WorkComing, Holds
<1>3. CASE ClaimRejected(w) \/ FetchMissing(w) \/ FlushRejected(w) \/ TransientError(w)
  BY <1>3, RaiseWork
  DEF ClaimRejected, FetchMissing, FlushRejected, TransientError, Reached, Busy
<1>4. CASE ParseFailure(w) \/ Commit(w) \/ CommitDeleted(w)
  <2>1. StopWorker(w) /\ UNCHANGED <<relay, queue, lost>> /\ outbox \subseteq outbox'
    BY <1>4 DEF ParseFailure, Commit, CommitDeleted, Emit
  <2>2. status'[d] \in Unfinished => status[d] \in Unfinished /\ d # worker[w].doc
    BY <1>4
    DEF TypeOK, ParseFailure, Commit, CommitDeleted, Reached, Busy, FailDocument,
        SetStatus, Live, RowStatus, Unfinished
  <2>3. \A v \in Workers : Holds(v, d) /\ d # worker[w].doc => Holds(v, d)'
    BY <2>1 DEF TypeOK, StopWorker, Holds, Busy
  <2> QED
    BY <2>1, <2>2, <2>3 DEF HasWork, WorkComing
<1>5. CASE Crash(w)
  <2>1. PICK e \in Docs, n \in 0..MaxRetries : e = worker[w].doc /\ n = worker[w].tries
    BY <1>5 DEF TypeOK, Crash, WorkerState
  <2>2. StopWorker(w) /\ UNCHANGED <<status, outbox, relay>>
    BY <1>5 DEF Crash
  <2>3. CASE Enqueue(<<e, n>>) /\ UNCHANGED lost
    <3>1. WorkComing(e)' /\ QueueKeeps(d)
      BY <2>3, EnqueueWork
    <3>2. d # e /\ WorkComing(d) => WorkComing(d)'
      BY <2>1, <2>2, <3>1, StopWorkerKeeps
    <3> QED
      BY <2>2, <2>3, <3>1, <3>2 DEF HasWork
  <2>4. CASE lost' = lost \cup {e} /\ UNCHANGED queue
    <3>1. QueueKeeps(d)
      BY <2>4 DEF QueueKeeps
    <3>2. d # e /\ WorkComing(d) => WorkComing(d)'
      BY <2>1, <2>2, <3>1, StopWorkerKeeps
    <3> QED
      BY <2>2, <2>4, <3>2 DEF HasWork
  <2> QED
    BY <1>5, <2>1, <2>3, <2>4 DEF Crash
<1> QED
  BY <1>1, <1>2, <1>3, <1>4, <1>5 DEF WorkerStep, WorkerRun

\* Relays, the sweep and the broker hand work on; what they drop is lost.
LEMMA DispatchStepWork ==
  ASSUME TypeOK, DispatchStep, NEW d \in Docs, HasWork(d)
  PROVE  HasWork(d)'
<1> USE DEF rows, stores, transit, history
<1>1. ASSUME NEW k \in Relays, RelayDispatch(k)
      PROVE  HasWork(d)'
  <2>1. PICK e \in relay[k].todo :
          /\ \/ e.type = "uploaded" /\ Enqueue(<<e.doc, 0>>)
             \/ e.type # "uploaded" /\ UNCHANGED queue
          /\ relay' = [relay EXCEPT ![k].todo = @ \ {e}, ![k].done = @ \cup {e}]
          /\ UNCHANGED <<status, outbox, worker, lost>>
    BY <1>1 DEF RelayDispatch
  <2>2. e \in Event /\ e.doc \in Docs /\ 0 \in 0..MaxRetries
    BY BoundAssumption DEF TypeOK, Event
  <2>3. QueueKeeps(d) /\ (e.type = "uploaded" => WorkComing(e.doc)')
    BY <2>1, <2>2, EnqueueWork DEF QueueKeeps
  <2>4. \A j \in Relays : relay'[j].done \subseteq relay[j].done \cup {e}
    BY <2>1 DEF TypeOK
  <2>5. WorkComing(d) => WorkComing(d)'
    BY <2>1, <2>3, <2>4 DEF WorkComing, QueueKeeps, Holds, Busy
  <2> QED
    BY <2>1, <2>5 DEF HasWork
<1>2. ASSUME NEW k \in Relays, RelayFetch(k) \/ RelayCommit(k) \/ RelayCrash(k)
      PROVE  HasWork(d)'
  <2>1. UNCHANGED <<status, queue, worker, lost>>
    BY <1>2 DEF RelayFetch, RelayCommit, RelayCrash
  <2>2. /\ \A j \in Relays : relay'[j].done \subseteq relay[j].done
        /\ \A e \in outbox : e \in outbox' \/ e \in relay[k].done
    BY <1>2 DEF TypeOK, RelayFetch, RelayCommit, RelayCrash, IdleRelay
  <2> QED
    BY <2>1, <2>2 DEF HasWork, WorkComing, Holds, Busy
<1>3. CASE Sweep
  <2>1. UNCHANGED <<status, outbox, relay, worker>>
    BY <1>3 DEF Sweep
  <2>2. \A e \in Docs, n \in 0..MaxRetries : <<e, n>> \in Messages
    BY DEF Messages
  <2>3. QueueKeeps(d)
    BY <1>3, <2>2 DEF TypeOK, Sweep, QueueKeeps
  <2>4. d \in lost => d \in lost' \/ queue'[<<d, 0>>] > 0
    <3>1. <<d, 0>> \in Messages
      BY <2>2, BoundAssumption
    <3> QED
      BY <1>3, <3>1 DEF TypeOK, Sweep
  <2>5. 0 \in 0..MaxRetries
    BY BoundAssumption
  <2> QED
    BY <2>1, <2>3, <2>4, <2>5 DEF HasWork, WorkComing, QueueKeeps, Holds, Busy
<1>4. ASSUME NEW m \in Messages, LoseMessage(m)
      PROVE  HasWork(d)'
  <2>1. PICK e \in Docs, n \in 0..MaxRetries : m = <<e, n>>
    BY DEF Messages
  <2>2. /\ UNCHANGED <<status, outbox, relay, worker>>
        /\ lost' = lost \cup {e} /\ queue' = [queue EXCEPT ![<<e, n>>] = @ - 1]
    BY <1>4, <2>1 DEF LoseMessage
  <2>3. d # e => QueueKeeps(d)
    BY <2>2 DEF TypeOK, QueueKeeps, Messages
  <2> QED
    BY <2>2, <2>3 DEF HasWork, WorkComing, QueueKeeps, Holds, Busy
<1>5. ASSUME NEW w \in Workers, Redeliver(w)
      PROVE  HasWork(d)'
  <2>1. PICK e \in Docs, n \in 0..MaxRetries : Enqueue(<<e, n>>)
    BY <1>5 DEF TypeOK, Redeliver, WorkerState
  <2>2. QueueKeeps(d)
    BY <2>1, EnqueueWork
  <2>3. UNCHANGED <<status, outbox, relay, worker, lost>>
    BY <1>5 DEF Redeliver
  <2> QED
    BY <2>2, <2>3 DEF HasWork, WorkComing, QueueKeeps, Holds, Busy
<1>6. ASSUME NEW e \in Docs, Age(e)
      PROVE  HasWork(d)'
  BY <1>6 DEF Age, HasWork, WorkComing, Holds, Busy
<1> QED
  BY <1>1, <1>2, <1>3, <1>4, <1>5, <1>6 DEF DispatchStep, RelayRun

\* Every step keeps work coming for each unfinished document.
LEMMA WorkStep == TypeOK /\ UnfinishedHasWork /\ [Next]_vars => UnfinishedHasWork'
<1> SUFFICES ASSUME TypeOK, [Next]_vars, NEW d \in Docs, HasWork(d)
             PROVE  HasWork(d)'
  BY DEF UnfinishedHasWork, HasWork
<1>1. ASSUME NEW e \in Docs, UpdateLanguage(e)
      PROVE  HasWork(d)'
  BY <1>1
  DEF UpdateLanguage, HasWork, WorkComing, Holds, Busy, rows, transit, history
<1>2. CASE UNCHANGED vars
  BY <1>2 DEF HasWork, WorkComing, Holds, Busy, vars, rows, transit, history
<1> QED
  BY <1>1, <1>2, ApiStepWork, WorkerStepWork, DispatchStepWork DEF Next

\* No interleaving of requests, relays, workers, retries, crashes and
\* redeliveries forgets an unfinished document: an undispatched event, a message
\* or a worker is there for it, or a message was lost and the sweep is due
\* (outbox_relay.py:52-67, celery_app.py:35-38, sweep.py:51-101).
THEOREM UnfinishedAlwaysHasWork == Spec => []UnfinishedHasWork
<1>1. Init => UnfinishedHasWork
  BY DEF Init, UnfinishedHasWork, Unfinished
<1> QED
  BY <1>1, WorkStep, TypeCorrect, PTL DEF Spec

-----------------------------------------------------------------------------
(* Runs that never overlapped leave one clean result. *)

Quiet(d) == d \notin overlapped \cup scrubbed

\* What w knows of its document d at each step of the pipeline: nobody else has
\* it, it is not indexed, and the stores hold what the run put there.
RunOwns(w, d) ==
  Holds(w, d) /\ Quiet(d) =>
    /\ \A v \in Workers : Holds(v, d) => v = w
    /\ status[d] # "indexed"
    /\ worker[w].pc = "upsert" => vectors[d] = {}
    /\ worker[w].pc \in {"persist", "commit"} => vectors[d] = Output(w)
    /\ worker[w].pc = "commit" => worker[w].gone = chunks[d]

\* A delete request has announced itself before it removes anything but vectors.
DeletesAnnounced ==
  \A q \in Requests : request[q].pc \in {"object", "row"} => request[q].doc \in scrubbed

SearchInv ==
  /\ DeletesAnnounced
  /\ \A w \in Workers, d \in Docs : RunOwns(w, d)
  /\ IndexedIsSearchable

\* A step that changes nothing about the runs of d, nor its tables, vectors and
\* flags, keeps what is known of it; scrubbing it makes that void.
LEMMA RunsUntouched ==
  ASSUME SearchInv, DeletesAnnounced', UNCHANGED <<worker, overlapped>>,
         scrubbed \subseteq scrubbed',
         \A d \in Docs \ scrubbed' :
           /\ vectors'[d] = vectors[d] /\ chunks'[d] = chunks[d]
           /\ status'[d] = "indexed" => status[d] = "indexed"
  PROVE  SearchInv'
<1>1. ASSUME NEW w \in Workers, NEW d \in Docs PROVE RunOwns(w, d)'
  <2>1. RunOwns(w, d)
    BY DEF SearchInv
  <2> QED
    BY <2>1 DEF RunOwns, Quiet, Holds, Busy, Output
<1>2. ASSUME NEW d \in Docs, status'[d] = "indexed", d \notin overlapped \cup scrubbed'
      PROVE  OneCleanResult(d)'
  BY <1>2 DEF SearchInv, IndexedIsSearchable, OneCleanResult
<1> QED
  BY <1>1, <1>2 DEF SearchInv, IndexedIsSearchable

\* A step of the worker that holds e, quiet or not, concerns only e: what is
\* left to show is what w knows of e then and, if e is indexed, its result.
LEMMA OwnerStep ==
  ASSUME TypeOK, SearchInv, NEW w \in Workers, NEW e \in Docs, Holds(w, e),
         UNCHANGED <<request, scrubbed, overlapped>>,
         \A v \in Workers \ {w} : worker'[v] = worker[v],
         worker'[w].pc = "idle" \/ worker'[w].doc = e,
         \A d \in Docs \ {e} :
           /\ vectors'[d] = vectors[d] /\ chunks'[d] = chunks[d]
           /\ status'[d] = status[d],
         (\A v \in Workers : Holds(v, e) => v = w) => RunOwns(w, e)',
         Quiet(e) /\ status'[e] = "indexed" => OneCleanResult(e)'
  PROVE  SearchInv'
<1>1. DeletesAnnounced'
  BY DEF SearchInv, DeletesAnnounced
<1>2. ASSUME NEW v \in Workers, NEW d \in Docs PROVE RunOwns(v, d)'
  <2>1. RunOwns(v, d) /\ RunOwns(w, e)
    BY DEF SearchInv
  <2>2. \A u \in Workers : Holds(u, d)' => Holds(u, d)
    BY DEF Holds, Busy
  <2>3. CASE d # e
    <3>1. v = w => ~Holds(v, d)'
      BY <2>3 DEF Holds, Busy
    <3>2. v # w => Output(v)' = Output(v)
      BY DEF Output
    <3> QED
      BY <2>1, <2>2, <2>3, <3>1, <3>2 DEF RunOwns, Quiet, Holds, Busy
  <2>4. CASE d = e
    <3>1. Quiet(e) => \A u \in Workers : Holds(u, e) => u = w
      BY <2>1 DEF RunOwns
    <3>2. Quiet(e)' => Quiet(e)
      BY DEF Quiet
    <3>3. CASE v # w
      BY <2>2, <2>4, <3>1, <3>2, <3>3 DEF RunOwns
    <3>4. CASE v = w
      <4>1. CASE Quiet(e)
        BY <2>4, <3>1, <3>4, <4>1
      <4>2. CASE ~Quiet(e)
        BY <2>4, <3>2, <4>2 DEF RunOwns
      <4> QED
        BY <4>1, <4>2
    <3> QED
      BY <3>3, <3>4
  <2> QED
    BY <2>3, <2>4
<1>3. ASSUME NEW d \in Docs, status'[d] = "indexed", Quiet(d)
      PROVE  OneCleanResult(d)'
  BY <1>3 DEF SearchInv, IndexedIsSearchable, OneCleanResult, Quiet
<1> QED
  BY <1>1, <1>2, <1>3 DEF SearchInv, IndexedIsSearchable, Quiet

\* Requests make documents pending or deleted, and remove the artifacts of
\* announced documents only.
LEMMA ApiStepSearch ==
  ASSUME TypeOK, SearchInv, NEW q \in Requests, ApiStep(q)
  PROVE  SearchInv'
<1> USE DEF rows, stores, history
<1>1. UNCHANGED <<worker, overlapped>> /\ scrubbed \subseteq scrubbed'
  BY DEF ApiStep, StartUpload, StartRetry, StartDelete, PutObject, InsertRow,
      InsertRejected, CommitRetry, RetryRejected, DeleteVectors, DeleteObject,
      DeleteRow, RequestDies
<1>2. DeletesAnnounced'
  <2>1. CASE DeleteVectors(q)
    BY <2>1 DEF TypeOK, SearchInv, DeletesAnnounced, DeleteVectors, Goto
  <2>2. CASE DeleteObject(q)
    BY <2>2 DEF TypeOK, SearchInv, DeletesAnnounced, DeleteObject, At, Goto
  <2>3. CASE ~DeleteVectors(q) /\ ~DeleteObject(q)
    <3>1. \E pc \in RequestPC \ {"object", "row"}, d \in Docs \cup {NoDoc} :
            request' = [request EXCEPT ![q] = [pc |-> pc, doc |-> d]]
      BY <2>3
      DEF ApiStep, StartUpload, StartRetry, StartDelete, PutObject, InsertRow,
          InsertRejected, CommitRetry, RetryRejected, DeleteRow, RequestDies,
          Goto, Finish, IdleRequest, At, RequestPC, TypeOK
    <3> QED
      BY <1>1, <3>1 DEF TypeOK, SearchInv, DeletesAnnounced
  <2> QED
    BY <2>1, <2>2, <2>3
<1>3. \A d \in Docs \ scrubbed' : vectors'[d] = vectors[d]
  BY DEF TypeOK, ApiStep, StartUpload, StartRetry, StartDelete, PutObject, InsertRow,
      InsertRejected, CommitRetry, RetryRejected, DeleteVectors, DeleteObject,
      DeleteRow, RequestDies
<1>4. \A d \in Docs \ scrubbed' :
        /\ chunks'[d] = chunks[d]
        /\ status'[d] = "indexed" => status[d] = "indexed"
  <2>1. CASE DeleteRow(q)
    <3>1. request[q].doc \in scrubbed
      BY <2>1 DEF SearchInv, DeletesAnnounced, DeleteRow, At
    <3> QED
      BY <1>1, <2>1, <3>1 DEF TypeOK, DeleteRow, SetStatus
  <2>2. CASE ~DeleteRow(q)
    BY <2>2
    DEF TypeOK, ApiStep, StartUpload, StartRetry, StartDelete, PutObject, InsertRow,
        InsertRejected, CommitRetry, RetryRejected, DeleteVectors, DeleteObject,
        RequestDies, SetStatus
  <2> QED
    BY <2>1, <2>2
<1> QED
  BY <1>1, <1>2, <1>3, <1>4, RunsUntouched

\* Taking a message starts a run that owns its document, or marks the overlap.
LEMMA ReceiveSearch ==
  ASSUME TypeOK, SearchInv, NEW w \in Workers, NEW m \in Messages,
         Receive(w, m[1], m[2])
  PROVE  SearchInv'
<1> USE DEF rows, stores
<1>1. PICK e \in Docs : m[1] = e
  BY DEF Messages
<1>2. UNCHANGED <<status, chunks, vectors, request, scrubbed>>
  BY DEF Receive
<1>3. CASE /\ status[e] # "indexed"
           /\ overlapped' = IF \E v \in Workers : Holds(v, e)
                            THEN overlapped \cup {e} ELSE overlapped
           /\ worker'[w].doc = e /\ worker'[w].pc \in {"claim", "fetch"}
           /\ \A v \in Workers \ {w} : worker'[v] = worker[v]
  <2>1. ASSUME NEW v \in Workers, NEW d \in Docs PROVE RunOwns(v, d)'
    <3>1. RunOwns(v, d)
      BY DEF SearchInv
    <3>2. Quiet(d)' => Quiet(d)
      BY <1>2, <1>3 DEF Quiet
    <3>3. Quiet(e)' => \A u \in Workers : ~Holds(u, e)
      BY <1>3 DEF Quiet
    <3>4. \A u \in Workers \ {w} : Holds(u, d)' <=> Holds(u, d)
      BY <1>3 DEF Holds, Busy
    <3>5. d # e => ~Holds(w, d)'
      BY <1>3 DEF Holds
    <3>6. v # w => Output(v)' = Output(v)
      BY <1>3 DEF Output
    <3>7. CASE d # e
      <4>1. v # w /\ Quiet(d)' =>
              \A u \in Workers : Holds(v, d)' /\ Holds(u, d)' => u = v
        BY <3>1, <3>2, <3>4, <3>5, <3>7 DEF RunOwns
      <4> QED
        BY <1>2, <1>3, <3>1, <3>2, <3>4, <3>5, <3>6, <3>7, <4>1 DEF RunOwns
    <3>8. CASE d = e
      BY <1>2, <1>3, <3>3, <3>4, <3>8 DEF RunOwns
    <3> QED
      BY <3>7, <3>8
  <2>2. IndexedIsSearchable'
    BY <1>2, <1>3 DEF SearchInv, IndexedIsSearchable, OneCleanResult
  <2> QED
    BY <1>2, <2>1, <2>2 DEF SearchInv, DeletesAnnounced
<1>4. CASE UNCHANGED <<worker, overlapped>>
  BY <1>2, <1>4, RunsUntouched DEF SearchInv, DeletesAnnounced
<1> QED
  <2>1. CASE UNCHANGED <<worker, overlapped>>
    BY <1>4, <2>1
  <2>2. CASE ~UNCHANGED <<worker, overlapped>>
    <3>1. /\ status[e] # "indexed"
          /\ overlapped' = IF \E v \in Workers : Holds(v, e)
                           THEN overlapped \cup {e} ELSE overlapped
          /\ worker' = [worker EXCEPT ![w] =
               [pc    |-> IF status[e] = "processing" THEN "fetch" ELSE "claim",
                doc   |-> e,
                tries |-> m[2],
                run   |-> NoRun,
                gone  |-> {}]]
      BY <1>1, <2>2 DEF Receive
    <3>2. /\ worker'[w].doc = e /\ worker'[w].pc \in {"claim", "fetch"}
          /\ \A v \in Workers \ {w} : worker'[v] = worker[v]
      BY <3>1 DEF TypeOK
    <3> QED
      BY <1>3, <3>1, <3>2
  <2> QED
    BY <2>1, <2>2

\* A worker that lets go of its document without indexing it.
LEMMA ReleaseSearch ==
  ASSUME TypeOK, SearchInv, NEW w \in Workers, NEW e \in Docs, Holds(w, e),
         StopWorker(w), UNCHANGED <<chunks, vectors, request, scrubbed, overlapped>>,
         \/ UNCHANGED status
         \/ \E s \in {"pending", "processing", "failed"} :
              status' = [status EXCEPT ![e] = s]
  PROVE  SearchInv'
<1>1. worker'[w].pc = "idle" /\ \A v \in Workers \ {w} : worker'[v] = worker[v]
  BY DEF TypeOK, StopWorker, IdleWorker
<1>2. RunOwns(w, e)'
  BY <1>1 DEF RunOwns, Holds, Busy
<1>3. \A d \in Docs \ {e} : status'[d] = status[d]
  BY DEF TypeOK
<1>4. status'[e] = "indexed" => status[e] = "indexed"
  BY DEF TypeOK
<1>5. Quiet(e) => status[e] # "indexed"
  BY DEF SearchInv, RunOwns
<1> QED
  BY <1>1, <1>2, <1>3, <1>4, <1>5, OwnerStep

\* A task that raised only lets go of its document.
LEMMA RaiseSearch ==
  ASSUME TypeOK, SearchInv, NEW w \in Workers, Busy(w), Raise(w)
  PROVE  SearchInv'
<1>1. PICK e \in Docs : e = worker[w].doc /\ Holds(w, e)
  BY DEF TypeOK, Holds
<1>2. UNCHANGED status \/ status' = [status EXCEPT ![e] = "failed"]
  BY <1>1 DEF Raise, FailDocument, SetStatus
<1> QED
  BY <1>1, <1>2, ReleaseSearch DEF Raise, stores

\* A run's own steps leave in the stores exactly what its result needs.
LEMMA PipelineSearch ==
  ASSUME TypeOK, SearchInv, NEW w \in Workers,
         \/ Claim(w) \/ Fetch(w) \/ ClearVectors(w) \/ UpsertVectors(w)
         \/ FlushChunks(w) \/ Commit(w) \/ CommitDeleted(w)
  PROVE  SearchInv'
<1> USE DEF rows, stores, history
<1>1. PICK e \in Docs : e = worker[w].doc /\ Holds(w, e)
  BY DEF TypeOK, Claim, Fetch, ClearVectors, UpsertVectors, FlushChunks, Commit,
      CommitDeleted, Reached, Holds, Busy
<1>2. RunOwns(w, e)
  BY DEF SearchInv
<1>3. Quiet(e) => status[e] # "indexed"
  BY <1>1, <1>2 DEF RunOwns
<1>4. UNCHANGED <<request, scrubbed, overlapped>>
  BY DEF Claim, Fetch, ClearVectors, UpsertVectors, FlushChunks, Commit, CommitDeleted
<1> DEFINE Alone == \A v \in Workers : Holds(v, e) => v = w
<1>5. CASE Claim(w)
  <2>1. /\ worker' = [worker EXCEPT ![w].pc = "fetch"]
        /\ status' = [status EXCEPT ![e] = "processing"]
        /\ UNCHANGED <<chunks, vectors>>
    BY <1>1, <1>5 DEF Claim, Step, SetStatus
  <2>2. /\ worker'[w].pc = "fetch" /\ worker'[w].doc = e
        /\ \A v \in Workers \ {w} : worker'[v] = worker[v]
    BY <1>1, <2>1 DEF TypeOK, WorkerState
  <2>3. status'[e] = "processing" /\ \A d \in Docs \ {e} : status'[d] = status[d]
    BY <2>1 DEF TypeOK
  <2>4. Alone => RunOwns(w, e)'
    BY <2>2, <2>3 DEF RunOwns, Holds, Busy
  <2> QED
    BY <1>1, <1>4, <2>1, <2>2, <2>3, <2>4, OwnerStep
<1>6. CASE Fetch(w)
  <2>1. PICK r \in Runs : worker' = [worker EXCEPT ![w].run = r, ![w].pc = "clear"]
    BY <1>6 DEF Fetch
  <2>2. /\ worker'[w].pc = "clear" /\ worker'[w].doc = e
        /\ \A v \in Workers \ {w} : worker'[v] = worker[v]
    BY <1>1, <2>1 DEF TypeOK, WorkerState
  <2>3. UNCHANGED <<status, chunks, vectors>>
    BY <1>6 DEF Fetch
  <2>4. Alone => RunOwns(w, e)'
    BY <1>3, <1>4, <2>2, <2>3 DEF RunOwns, Quiet, Holds, Busy
  <2> QED
    BY <1>1, <1>3, <1>4, <2>2, <2>3, <2>4, OwnerStep
<1>7. CASE ClearVectors(w)
  <2>1. /\ worker' = [worker EXCEPT ![w].pc = "upsert"]
        /\ vectors' = [vectors EXCEPT ![e] = {}]
        /\ UNCHANGED <<status, chunks>>
    BY <1>1, <1>7 DEF ClearVectors, Step
  <2>2. /\ worker'[w].pc = "upsert" /\ worker'[w].doc = e
        /\ \A v \in Workers \ {w} : worker'[v] = worker[v]
    BY <1>1, <2>1 DEF TypeOK, WorkerState
  <2>3. vectors'[e] = {} /\ \A d \in Docs \ {e} : vectors'[d] = vectors[d]
    BY <2>1 DEF TypeOK
  <2>4. Alone => RunOwns(w, e)'
    BY <1>3, <1>4, <2>1, <2>2, <2>3 DEF RunOwns, Quiet, Holds, Busy
  <2> QED
    BY <1>1, <1>3, <1>4, <2>1, <2>2, <2>3, <2>4, OwnerStep
<1>8. CASE UpsertVectors(w)
  <2>1. /\ worker' = [worker EXCEPT ![w].pc = "persist"]
        /\ vectors' = [vectors EXCEPT ![e] = @ \cup Output(w)]
        /\ UNCHANGED <<status, chunks>>
    BY <1>1, <1>8 DEF UpsertVectors, Step
  <2>2. /\ worker'[w].pc = "persist" /\ worker'[w].doc = e
        /\ worker'[w].run = worker[w].run
        /\ \A v \in Workers \ {w} : worker'[v] = worker[v]
    BY <1>1, <2>1 DEF TypeOK, WorkerState
  <2>3. /\ Quiet(e) => vectors'[e] = Output(w)
        /\ \A d \in Docs \ {e} : vectors'[d] = vectors[d]
    BY <1>1, <1>2, <1>8, <2>1 DEF TypeOK, RunOwns, UpsertVectors, Reached
  <2>4. Output(w)' = Output(w)
    BY <1>1, <2>2 DEF Output
  <2>5. Alone => RunOwns(w, e)'
    BY <1>3, <1>4, <2>1, <2>2, <2>3, <2>4 DEF RunOwns, Quiet, Holds, Busy
  <2> QED
    BY <1>1, <1>3, <1>4, <2>1, <2>2, <2>3, <2>5, OwnerStep
<1>9. CASE FlushChunks(w)
  <2>1. /\ worker' = [worker EXCEPT ![w].gone = chunks[e], ![w].pc = "commit"]
        /\ UNCHANGED <<status, chunks, vectors>>
    BY <1>1, <1>9 DEF FlushChunks
  <2>2. /\ worker'[w].pc = "commit" /\ worker'[w].doc = e
        /\ worker'[w].gone = chunks[e] /\ worker'[w].run = worker[w].run
        /\ \A v \in Workers \ {w} : worker'[v] = worker[v]
    BY <1>1, <2>1 DEF TypeOK, WorkerState
  <2>3. Output(w)' = Output(w)
    BY <1>1, <2>2 DEF Output
  <2>4. Quiet(e) => vectors[e] = Output(w)
    BY <1>1, <1>2, <1>9 DEF RunOwns, FlushChunks, Reached
  <2>5. Alone => RunOwns(w, e)'
    BY <1>3, <1>4, <2>1, <2>2, <2>3, <2>4 DEF RunOwns, Quiet, Holds, Busy
  <2> QED
    BY <1>1, <1>3, <1>4, <2>1, <2>2, <2>5, OwnerStep
<1>10. CASE Commit(w)
  <2>1. /\ StopWorker(w) /\ UNCHANGED vectors
        /\ status' = [status EXCEPT ![e] = "indexed"]
        /\ chunks' = [chunks EXCEPT ![e] = (@ \ worker[w].gone) \cup Output(w)]
    BY <1>1, <1>10 DEF Commit, SetStatus
  <2>2. worker'[w].pc = "idle" /\ \A v \in Workers \ {w} : worker'[v] = worker[v]
    BY <2>1 DEF TypeOK, StopWorker, IdleWorker
  <2>3. \A d \in Docs \ {e} : status'[d] = status[d] /\ chunks'[d] = chunks[d]
    BY <2>1 DEF TypeOK
  <2>4. RunOwns(w, e)'
    BY <2>2 DEF RunOwns, Holds, Busy
  <2>5. Quiet(e) => vectors[e] = Output(w) /\ worker[w].gone = chunks[e]
    BY <1>1, <1>2, <1>10 DEF RunOwns, Commit, Reached
  <2>6. Quiet(e) => vectors'[e] = Output(w) /\ chunks'[e] = Output(w)
    BY <2>1, <2>5 DEF TypeOK
  <2>7. worker[w].run \in Runs
    BY <1>10 DEF TypeOK, Commit, Reached, Writing
  <2>8. Quiet(e) => OneCleanResult(e)'
    BY <1>1, <2>6, <2>7 DEF OneCleanResult, Output
  <2> QED
    BY <1>1, <1>4, <2>1, <2>2, <2>3, <2>4, <2>8, OwnerStep
<1>11. CASE CommitDeleted(w)
  <2>1. /\ StopWorker(w) /\ UNCHANGED <<status, chunks>>
        /\ vectors' = [vectors EXCEPT ![e] = {}]
    BY <1>1, <1>11 DEF CommitDeleted
  <2>2. worker'[w].pc = "idle" /\ \A v \in Workers \ {w} : worker'[v] = worker[v]
    BY <2>1 DEF TypeOK, StopWorker, IdleWorker
  <2>3. \A d \in Docs \ {e} : vectors'[d] = vectors[d]
    BY <2>1 DEF TypeOK
  <2>4. RunOwns(w, e)'
    BY <2>2 DEF RunOwns, Holds, Busy
  <2> QED
    BY <1>1, <1>3, <1>4, <2>1, <2>2, <2>3, <2>4, OwnerStep
<1> QED
  BY <1>5, <1>6, <1>7, <1>8, <1>9, <1>10, <1>11

\* A worker's steps keep the search invariant.
LEMMA WorkerStepSearch ==
  ASSUME TypeOK, SearchInv, NEW w \in Workers, WorkerStep(w)
  PROVE  SearchInv'
<1>1. CASE ClaimRejected(w) \/ FetchMissing(w) \/ FlushRejected(w) \/ TransientError(w)
  BY <1>1, RaiseSearch
  DEF ClaimRejected, FetchMissing, FlushRejected, TransientError, Reached, Busy
<1>2. CASE ParseFailure(w) \/ Crash(w)
  <2>1. PICK e \in Docs : e = worker[w].doc /\ Holds(w, e)
    BY <1>2 DEF TypeOK, ParseFailure, Crash, Reached, Holds, Busy
  <2>2. /\ StopWorker(w) /\ UNCHANGED <<chunks, vectors, request, scrubbed, overlapped>>
        /\ UNCHANGED status \/ status' = [status EXCEPT ![e] = "failed"]
    BY <1>2, <2>1
    DEF ParseFailure, Crash, FailDocument, SetStatus, rows, stores, history
  <2> QED
    BY <2>1, <2>2, ReleaseSearch
<1> QED
  BY <1>1, <1>2, ReceiveSearch, PipelineSearch DEF WorkerStep, WorkerRun

\* Every step keeps the search invariant.
LEMMA SearchStep == TypeOK /\ SearchInv /\ [Next]_vars => SearchInv'
<1> SUFFICES ASSUME TypeOK, SearchInv, [Next]_vars PROVE SearchInv'
  OBVIOUS
<1>1. CASE \/ DispatchStep
           \/ \E d \in Docs : UpdateLanguage(d)
           \/ UNCHANGED vars
  <2>1. UNCHANGED <<status, chunks, vectors, worker, request, scrubbed, overlapped>>
    BY <1>1
    DEF DispatchStep, RelayRun, RelayFetch, RelayDispatch, RelayCommit, RelayCrash,
        Sweep, Age, LoseMessage, Redeliver, UpdateLanguage, vars, rows, stores, history
  <2> QED
    BY <2>1, RunsUntouched DEF SearchInv, DeletesAnnounced
<1> QED
  BY <1>1, ApiStepSearch, WorkerStepSearch DEF Next

\* The idempotence of the pipeline (pipeline.py:9-17): through any failures,
\* crashes, retries and redeliveries, as long as no two runs of a document
\* overlapped and nobody set out to delete it, its being indexed means that its
\* chunk rows and its vectors are exactly those of one run.
THEOREM IndexedAlwaysSearchable == Spec => []IndexedIsSearchable
<1>1. Init => SearchInv
  BY DEF Init, SearchInv, DeletesAnnounced, IdleRequest, IdleWorker, RunOwns, Holds,
      Busy, IndexedIsSearchable
<1>2. SearchInv => IndexedIsSearchable
  BY DEF SearchInv
<1> QED
  BY <1>1, <1>2, SearchStep, TypeCorrect, PTL DEF Spec

-----------------------------------------------------------------------------
(* Originals, with one request at a time. *)

OneRequest == \A p, q \in Requests : p = q

\* A request that is about to insert has stored the original; one that deletes
\* finds its document until it has removed the row itself.
RequestsSafe ==
  \A q \in Requests :
    /\ request[q].pc = "insert" => Content[request[q].doc] \in objects
    /\ request[q].pc \in {"vectors", "object", "row"} => Live(request[q].doc)
    /\ request[q].pc \in {"object", "row"} => request[q].doc \in scrubbed

OriginalInv == OriginalIsStored /\ RequestsSafe

\* Workers, relays and the sweep remove no original, and bring no row to life or
\* to its end.
LEMMA OthersKeepOriginals ==
  ASSUME TypeOK, OriginalInv, [Next]_vars, \A q \in Requests : ~ApiStep(q)
  PROVE  OriginalInv'
<1>1. UNCHANGED <<objects, request, scrubbed>>
  BY DEF Next, vars, UpdateLanguage, WorkerStep, WorkerRun, Receive, Claim, ClaimRejected,
      Fetch, FetchMissing, ParseFailure, ClearVectors, UpsertVectors, FlushChunks,
      FlushRejected, Commit, CommitDeleted, TransientError, Crash, Raise, DispatchStep,
      RelayRun, RelayFetch, RelayDispatch, RelayCommit, RelayCrash, Sweep, Age,
      LoseMessage, Redeliver, stores, history
<1>2. ASSUME NEW d \in Docs PROVE Live(d)' <=> Live(d)
  <2>1. ASSUME NEW w \in Workers, WorkerStep(w) PROVE Live(d)' <=> Live(d)
    <3>1. Busy(w) => worker[w].doc \in Docs
      BY DEF TypeOK
    <3> QED
      BY <2>1, <3>1, WorkerRows
      DEF TypeOK, rows, Updates, Indexes, Live, RowStatus, Unfinished
  <2>2. CASE DispatchStep \/ (\E e \in Docs : UpdateLanguage(e)) \/ UNCHANGED vars
    BY <2>2
    DEF DispatchStep, RelayRun, RelayFetch, RelayDispatch, RelayCommit, RelayCrash,
        Sweep, Age, LoseMessage, Redeliver, UpdateLanguage, vars, rows, Live
  <2> QED
    BY <2>1, <2>2 DEF Next
<1>3. \A q \in Requests : request[q].pc # "idle" => request[q].doc \in Docs
  BY DEF TypeOK
<1> QED
  BY <1>1, <1>2, <1>3 DEF OriginalInv, OriginalIsStored, RequestsSafe

\* A request that stores or removes an original is the only one there is.
LEMMA RequestKeepsOriginals ==
  ASSUME OneRequest, TypeOK, OneDocumentPerContent, OriginalInv,
         NEW q \in Requests, ApiStep(q)
  PROVE  OriginalInv'
<1> DEFINE r == request[q].doc
<1> USE DEF rows, stores, history, OneRequest
<1>1. request[q].pc # "idle" => r \in Docs
  BY DEF TypeOK
<1>2. CASE PutObject(q)
  BY <1>1, <1>2
  DEF TypeOK, OriginalInv, OriginalIsStored, RequestsSafe, PutObject, At, Goto, Live
<1>3. CASE InsertRow(q)
  BY <1>1, <1>3
  DEF TypeOK, OriginalInv, OriginalIsStored, RequestsSafe, InsertRow, At, Finish,
      IdleRequest, SetStatus, Live
<1>4. CASE CommitRetry(q)
  BY <1>1, <1>4
  DEF TypeOK, OriginalInv, OriginalIsStored, RequestsSafe, CommitRetry, At, Finish,
      IdleRequest, SetStatus, Live
<1>5. CASE DeleteVectors(q)
  BY <1>1, <1>5
  DEF TypeOK, OriginalInv, OriginalIsStored, RequestsSafe, DeleteVectors, At, Goto, Live
<1>6. CASE DeleteObject(q)
  <2>1. r \in Docs /\ r \in scrubbed /\ Live(r)
    BY <1>1, <1>6 DEF OriginalInv, RequestsSafe, DeleteObject, At
  <2>2. \A d \in Docs \ scrubbed : Live(d) => Content[d] # Content[r]
    BY <2>1 DEF OneDocumentPerContent
  <2> QED
    BY <1>6, <2>1, <2>2
    DEF TypeOK, OriginalInv, OriginalIsStored, RequestsSafe, DeleteObject, At, Goto, Live
<1>7. CASE DeleteRow(q)
  BY <1>1, <1>7
  DEF TypeOK, OriginalInv, OriginalIsStored, RequestsSafe, DeleteRow, At, Finish,
      IdleRequest, SetStatus, Live, RowStatus, Unfinished
<1>8. CASE \/ \E d \in Docs : StartUpload(q, d) \/ StartRetry(q, d) \/ StartDelete(q, d)
           \/ InsertRejected(q) \/ RetryRejected(q) \/ RequestDies(q)
  BY <1>8
  DEF TypeOK, OriginalInv, OriginalIsStored, RequestsSafe, StartUpload, StartRetry,
      StartDelete, InsertRejected, RetryRejected, RequestDies, At, Goto, Finish,
      IdleRequest, Live
<1> QED
  BY <1>2, <1>3, <1>4, <1>5, <1>6, <1>7, <1>8 DEF ApiStep

\* A document nobody asked to delete has its original, so that it can be retried
\* for ever (ingestion_service.py:160), as long as requests come one at a time.
THEOREM OriginalAlwaysStored == OneRequest => (Spec => []OriginalIsStored)
<1> SUFFICES ASSUME OneRequest PROVE Spec => []OriginalIsStored
  OBVIOUS
<1>1. Init => OriginalInv
  BY DEF Init, OriginalInv, OriginalIsStored, RequestsSafe, IdleRequest, Live, RowStatus,
      Unfinished
<1>2. TypeOK /\ OneDocumentPerContent /\ OriginalInv /\ [Next]_vars => OriginalInv'
  BY OthersKeepOriginals, RequestKeepsOriginals
<1>3. OriginalInv => OriginalIsStored
  BY DEF OriginalInv
<1> QED
  BY <1>1, <1>2, <1>3, TypeCorrect, AlwaysOneDocumentPerContent, PTL DEF Spec

-----------------------------------------------------------------------------
(* The life of a document, with one worker and documents with text.  A     *)
(* retry is taken to find its document not ready yet when it commits:      *)
(* nothing in its UPDATE sees to it, and it makes a ready document wait    *)
(* again.                                                                  *)

Plain ==
  /\ \A v, w \in Workers : v = w
  /\ Blank = {}

InTime == \A q \in Requests : CommitRetry(q) => status[request[q].doc] # "indexed"

RetriesInTime == [][InTime]_vars

\* Rows appear only when a document is ready, which nothing processes again; a
\* request keeps the id of its upload to itself.
LifeInv ==
  /\ overlapped = {}
  /\ \A d \in Docs : chunks[d] # {} => status[d] = "indexed"
  /\ \A w \in Workers : Busy(w) => status[worker[w].doc] # "indexed"
  /\ \A q \in Requests :
       /\ request[q].pc \in {"retry", "vectors", "object", "row"} => status[request[q].doc] # "unborn"
       /\ request[q].pc \in {"put", "insert"} =>
            /\ status[request[q].doc] = "unborn"
            /\ \A p \in Requests : request[p].doc = request[q].doc => p = q

\* A request inserts the row of its own fresh id, and deletes a row only after it
\* found one.
LEMMA RequestKeepsLife ==
  ASSUME Plain, TypeOK, LifeInv, InTime, NEW q \in Requests, ApiStep(q)
  PROVE  LifeInv'
<1> DEFINE r == request[q].doc
<1> USE DEF rows, stores, history
<1>1. request[q].pc # "idle" => r \in Docs
  BY DEF TypeOK
<1>2. CASE \E d \in Docs : StartUpload(q, d)
  BY <1>2 DEF TypeOK, LifeInv, StartUpload, At, Goto, Busy
<1>3. CASE \E d \in Docs : StartDelete(q, d) \/ StartRetry(q, d)
  BY <1>3
  DEF TypeOK, LifeInv, StartDelete, StartRetry, At, Goto, Busy, Live, RowStatus, Unfinished
<1>4. CASE PutObject(q) \/ DeleteVectors(q) \/ DeleteObject(q)
  BY <1>1, <1>4 DEF TypeOK, LifeInv, PutObject, DeleteVectors, DeleteObject, At, Goto, Busy
<1>5. CASE InsertRow(q)
  BY <1>1, <1>5, NoneAssumption
  DEF TypeOK, LifeInv, InsertRow, At, Finish, IdleRequest, SetStatus, Busy
<1>6. CASE DeleteRow(q)
  BY <1>1, <1>6, NoneAssumption
  DEF TypeOK, LifeInv, DeleteRow, At, Finish, IdleRequest, SetStatus, Busy
<1>7. CASE InsertRejected(q) \/ RetryRejected(q) \/ RequestDies(q)
  BY <1>1, <1>7, NoneAssumption
  DEF TypeOK, LifeInv, InsertRejected, RetryRejected, RequestDies, At, Finish, IdleRequest, Busy
<1>8. CASE CommitRetry(q)
  <2>1. r \in Docs /\ status[r] # "indexed" /\ chunks[r] = {} /\ status[r] # "unborn"
    BY <1>1, <1>8 DEF TypeOK, LifeInv, InTime, CommitRetry, At
  <2> QED
    BY <1>8, <2>1, NoneAssumption
    DEF TypeOK, LifeInv, CommitRetry, At, Finish, IdleRequest, SetStatus, Busy
<1> QED
  BY <1>2, <1>3, <1>4, <1>5, <1>6, <1>7, <1>8 DEF ApiStep

\* Short of its commit a worker only updates the row of its document.
LEMMA WorkerUpdates ==
  ASSUME TypeOK, NEW w \in Workers, WorkerStep(w), Busy(w), ~Commit(w)
  PROVE  UNCHANGED rows \/ Updates(worker[w].doc)
<1>1. CASE ClaimRejected(w) \/ FetchMissing(w) \/ FlushRejected(w) \/ TransientError(w)
  BY <1>1, RaiseRows DEF ClaimRejected, FetchMissing, FlushRejected, TransientError
<1>2. CASE Claim(w) \/ ParseFailure(w)
  BY <1>2 DEF Claim, ParseFailure, FailDocument, SetStatus, Updates, rows
<1> QED
  BY <1>1, <1>2
  DEF WorkerStep, WorkerRun, Receive, Fetch, ClearVectors, UpsertVectors, FlushChunks,
      CommitDeleted, Crash

\* The only worker takes documents that are not ready, and lets go of one when it
\* becomes so.
LEMMA WorkerKeepsLife ==
  ASSUME Plain, TypeOK, LifeInv, NEW w \in Workers, WorkerStep(w)
  PROVE  LifeInv'
<1> DEFINE e == worker[w].doc
<1>1. UNCHANGED request
  BY DEF WorkerStep, WorkerRun, Receive, Claim, ClaimRejected, Fetch, FetchMissing,
      ParseFailure, ClearVectors, UpsertVectors, FlushChunks, FlushRejected, Commit,
      CommitDeleted, TransientError, Crash, Raise
<1>2. CASE Busy(w)
  <2>1. e \in Docs /\ status[e] # "indexed" /\ chunks[e] = {}
    BY <1>2 DEF TypeOK, LifeInv
  <2>2. UNCHANGED rows \/ Updates(e) \/ Indexes(e)
    BY WorkerRows
  <2>3. UNCHANGED overlapped
    BY <1>2
    DEF Busy, Reached, WorkerStep, WorkerRun, Receive, Claim, ClaimRejected, Fetch,
        FetchMissing, ParseFailure, ClearVectors, UpsertVectors, FlushChunks,
        FlushRejected, Commit, CommitDeleted, TransientError, Crash, Raise, history
  <2>4. worker' = [worker EXCEPT ![w] = IdleWorker] \/ worker'[w].doc = e
    <3>1. CASE Claim(w) \/ ClearVectors(w) \/ UpsertVectors(w)
      BY <3>1 DEF TypeOK, WorkerState, Claim, ClearVectors, UpsertVectors, Step
    <3>2. CASE Fetch(w)
      BY <3>2 DEF TypeOK, WorkerState, Fetch
    <3>3. CASE FlushChunks(w)
      BY <3>3 DEF TypeOK, WorkerState, FlushChunks
    <3>4. \/ worker' = [worker EXCEPT ![w] = IdleWorker]
          \/ Claim(w) \/ Fetch(w) \/ ClearVectors(w) \/ UpsertVectors(w) \/ FlushChunks(w)
      BY <1>2
      DEF Busy, Reached, WorkerStep, WorkerRun, Receive, ClaimRejected,
          FetchMissing, ParseFailure, FlushRejected, Commit, CommitDeleted,
          TransientError, Crash, Raise, StopWorker
    <3> QED
      BY <3>1, <3>2, <3>3, <3>4
  <2>5. status'[e] = "indexed" => ~Busy(w)'
    <3>1. CASE Commit(w)
      BY <3>1 DEF TypeOK, Commit, StopWorker, Busy, IdleWorker
    <3>2. CASE ~Commit(w)
      BY <1>2, <2>1, <3>2, WorkerUpdates DEF TypeOK, Updates, rows
    <3> QED
      BY <3>1, <3>2
  <2> QED
    BY <1>1, <2>1, <2>2, <2>3, <2>4, <2>5
    DEF Plain, TypeOK, LifeInv, Updates, Indexes, Live, RowStatus, Unfinished, Busy, IdleWorker, rows
<1>3. CASE ~Busy(w)
  <2>1. PICK m \in Messages : Receive(w, m[1], m[2])
    BY <1>3
    DEF Busy, Reached, WorkerStep, WorkerRun, Claim, ClaimRejected, Fetch,
        FetchMissing, ParseFailure, ClearVectors, UpsertVectors, FlushChunks,
        FlushRejected, Commit, CommitDeleted, TransientError, Crash
  <2> QED
    BY <1>1, <1>3, <2>1 DEF Plain, TypeOK, LifeInv, Receive, Holds, Busy, rows
<1> QED
  BY <1>2, <1>3

LEMMA LifeStep == Plain /\ TypeOK /\ LifeInv /\ [Next]_vars /\ [InTime]_vars => LifeInv'
<1> SUFFICES ASSUME Plain, TypeOK, LifeInv, [Next]_vars, [InTime]_vars PROVE LifeInv'
  OBVIOUS
<1>1. CASE DispatchStep \/ (\E d \in Docs : UpdateLanguage(d)) \/ UNCHANGED vars
  <2>1. UNCHANGED <<status, chunks, worker, request, overlapped>>
    BY <1>1
    DEF DispatchStep, RelayRun, RelayFetch, RelayDispatch, RelayCommit, RelayCrash,
        Sweep, Age, LoseMessage, Redeliver, UpdateLanguage, vars, rows, history
  <2> QED
    BY <2>1 DEF LifeInv, Busy
<1> QED
  BY <1>1, RequestKeepsLife, WorkerKeepsLife DEF Next

-----------------------------------------------------------------------------
(* Each step of ingestion is one of the lifecycle, or none of its business. *)

\* The stage a document is in follows its status.
LEMMA Stages ==
  ASSUME NEW d \in Docs
  PROVE  /\ status[d] = "unborn" => Life(d) = "absent"
         /\ status[d] \in Unfinished => Life(d) = "waiting"
         /\ status[d] = "indexed" => Life(d) = "ready"
         /\ status[d] = "failed" => Life(d) = "failed"
         /\ status[d] = "deleted" => Life(d) = "removed"
         /\ status'[d] = "unborn" => Life(d)' = "absent"
         /\ status'[d] \in Unfinished => Life(d)' = "waiting"
         /\ status'[d] = "indexed" => Life(d)' = "ready"
         /\ status'[d] = "failed" => Life(d)' = "failed"
         /\ status'[d] = "deleted" => Life(d)' = "removed"
BY DEF Life, Unfinished

\* Without rows, or without points, nothing of it is visible; with the rows and
\* points of one run all of it is.
LEMMA Sights ==
  ASSUME NEW d \in Docs
  PROVE  /\ chunks[d] = {} \/ vectors[d] = {} => Visible(d) = "none"
         /\ chunks'[d] = {} \/ vectors'[d] = {} => Visible(d)' = "none"
         /\ \A r : chunks'[d] = {r} => Visible(d)' = IF r \in vectors'[d] THEN "all" ELSE "none"
BY DEF Visible

\* A step that touches neither tables, points nor removals is not seen.
LEMMA Unseen ==
  ASSUME UNCHANGED <<status, chunks, vectors, scrubbed>>
  PROVE  UNCHANGED Lifecycle!vars
BY DEF Lifecycle!vars, Life, Visible

\* The stages of all documents, and what can be seen of each.
Lives == [d \in Docs |-> Life(d)]
Shown == [d \in Docs |-> Visible(d)]

\* Writing the status of one document moves no other.
LEMMA OthersStay ==
  ASSUME NEW e \in Docs, NEW s, status \in [Docs -> Status],
         status' = [status EXCEPT ![e] = s]
  PROVE  \A d \in Docs \ {e} : Life(d)' = Life(d)
<1>1. \A d \in Docs \ {e} : status'[d] = status[d]
  OBVIOUS
<1> QED
  BY <1>1 DEF Life

LEMMA LifeMoves ==
  ASSUME NEW e \in Docs, NEW a, Life(e)' = a,
         \A d \in Docs \ {e} : Life(d)' = Life(d)
  PROVE  Lives' = [Lives EXCEPT ![e] = a]
<1>1. \A d \in Docs : Life(d)' = IF d = e THEN a ELSE Life(d)
  OBVIOUS
<1> QED
  BY <1>1 DEF Lives

LEMMA SightMoves ==
  ASSUME NEW e \in Docs, NEW a, Visible(e)' = a,
         \A d \in Docs \ {e} : Visible(d)' = Visible(d)
  PROVE  Shown' = [Shown EXCEPT ![e] = a]
<1>1. \A d \in Docs : Visible(d)' = IF d = e THEN a ELSE Visible(d)
  OBVIOUS
<1> QED
  BY <1>1 DEF Shown

\* An insert submits content its owner does not have, a retry reopens the document,
\* the first call of a delete hides it, and the last one removes it.
LEMMA RequestLives ==
  ASSUME Plain, TypeOK, LifeInv, DeletesAnnounced, InTime, NEW q \in Requests, ApiStep(q)
  PROVE  [Lifecycle!Next]_(Lifecycle!vars)
<1> USE DEF rows, stores, history
<1>0. PICK r : r = request[q].doc
  OBVIOUS
<1>1. request[q].pc # "idle" => r \in Docs
  BY <1>0 DEF TypeOK
<1>2. CASE InsertRow(q)
  <2>1. r \in Docs /\ status[r] = "unborn" /\ chunks[r] = {} /\ ~Held(r)
    BY <1>0, <1>1, <1>2 DEF LifeInv, InsertRow, At
  <2>2. /\ status' = [status EXCEPT ![r] = "pending"]
        /\ UNCHANGED <<chunks, vectors, scrubbed>>
    BY <1>0, <1>2 DEF InsertRow, SetStatus
  <2>3. \A d \in Docs : Visible(d)' = Visible(d)
    BY <2>2 DEF Visible
  <2>4. Life(r) = "absent" /\ Lives' = [Lives EXCEPT ![r] = "waiting"]
    <3>1. status'[r] = "pending"
      BY <2>1, <2>2 DEF TypeOK
    <3>2. Life(r) = "absent" /\ Life(r)' = "waiting"
      BY <2>1, <3>1, Stages DEF Unfinished
    <3>3. \A d \in Docs \ {r} : Life(d)' = Life(d)
      BY <2>1, <2>2, OthersStay DEF TypeOK
    <3> QED
      BY <2>1, <3>2, <3>3, LifeMoves
  <2>5. \A e \in Docs : Lifecycle!Present(e) => ~SameBytes(r, e)
    <3> SUFFICES ASSUME NEW e \in Docs, Lifecycle!Present(e) PROVE ~SameBytes(r, e)
      OBVIOUS
    <3>1. Life(e) \in {"waiting", "ready", "failed"}
      BY DEF Lifecycle!Present
    <3>2. Live(e)
      BY <3>1, Stages DEF TypeOK, Status, Live
    <3> QED
      BY <2>1, <3>2 DEF Held, SameBytes
  <2>6. Lifecycle!Submit(r)
    BY <2>1, <2>2, <2>3, <2>4, <2>5 DEF Lifecycle!Submit, Lives, Shown
  <2> QED
    BY <2>1, <2>6 DEF Lifecycle!Next
<1>3. CASE DeleteVectors(q)
  <2>1. r \in Docs /\ status[r] # "unborn"
    BY <1>0, <1>1, <1>3 DEF LifeInv, DeleteVectors, At
  <2>2. /\ vectors' = [vectors EXCEPT ![r] = {}] /\ scrubbed' = scrubbed \cup {r}
        /\ UNCHANGED <<status, chunks>>
    BY <1>0, <1>3 DEF DeleteVectors
  <2>3. Life(r) # "absent" /\ UNCHANGED Lives
    <3>1. Life(r) # "absent"
      BY <2>1, Stages DEF TypeOK, Status, RowStatus
    <3>2. \A d \in Docs : Life(d)' = Life(d)
      BY <2>2 DEF Life
    <3> QED
      BY <3>1, <3>2 DEF Lives
  <2>4. Shown' = [Shown EXCEPT ![r] = "none"]
    <3>1. Visible(r)' = "none"
      BY <2>1, <2>2, Sights DEF TypeOK
    <3>2. \A d \in Docs \ {r} : Visible(d)' = Visible(d)
      BY <2>2 DEF TypeOK, Visible
    <3> QED
      BY <2>1, <3>1, <3>2, SightMoves
  <2>5. Lifecycle!Hide(r)
    BY <2>1, <2>2, <2>3, <2>4 DEF Lifecycle!Hide, Lives, Shown
  <2> QED
    BY <2>1, <2>5 DEF Lifecycle!Next
<1>4. CASE DeleteRow(q)
  <2>1. /\ r \in Docs /\ r \in scrubbed /\ status[r] # "unborn"
        /\ chunks[r] # {} => status[r] = "indexed"
    BY <1>0, <1>1, <1>4 DEF LifeInv, DeletesAnnounced, DeleteRow, At
  <2>2. /\ status' = [status EXCEPT ![r] = "deleted"] /\ chunks' = [chunks EXCEPT ![r] = {}]
        /\ UNCHANGED <<vectors, scrubbed>>
    BY <1>0, <1>4 DEF DeleteRow, SetStatus
  <2>3. CASE status[r] = "deleted"
    <3>1. UNCHANGED <<status, chunks>>
      BY <2>1, <2>2, <2>3 DEF TypeOK
    <3> QED
      BY <2>2, <3>1, Unseen
  <2>4. CASE status[r] # "deleted"
    <3>1. Lifecycle!Present(r)
      <4>1. Life(r) \in {"waiting", "ready", "failed"}
        BY <2>1, <2>4, Stages DEF TypeOK, Status, RowStatus
      <4> QED
        BY <2>1, <4>1 DEF Lifecycle!Present
    <3>2. Lives' = [Lives EXCEPT ![r] = "removed"]
      <4>1. status'[r] = "deleted"
        BY <2>1, <2>2 DEF TypeOK
      <4>2. Life(r)' = "removed"
        BY <2>1, <4>1, Stages
      <4>3. \A d \in Docs \ {r} : Life(d)' = Life(d)
        BY <2>1, <2>2, OthersStay DEF TypeOK
      <4> QED
        BY <2>1, <4>2, <4>3, LifeMoves
    <3>3. Shown' = [Shown EXCEPT ![r] = "none"]
      <4>1. chunks'[r] = {}
        BY <2>1, <2>2 DEF TypeOK
      <4>2. Visible(r)' = "none"
        BY <2>1, <4>1, Sights
      <4>3. \A d \in Docs \ {r} : Visible(d)' = Visible(d)
        BY <2>2 DEF TypeOK, Visible
      <4> QED
        BY <2>1, <4>2, <4>3, SightMoves
    <3>4. Lifecycle!Remove(r)
      BY <2>1, <2>2, <3>1, <3>2, <3>3 DEF Lifecycle!Remove, Lives, Shown
    <3> QED
      BY <2>1, <3>4 DEF Lifecycle!Next
  <2> QED
    BY <2>3, <2>4
<1>5. CASE CommitRetry(q)
  <2>1. r \in Docs /\ Live(r) /\ status[r] # "indexed"
    BY <1>0, <1>1, <1>5 DEF InTime, CommitRetry, At
  <2>2. /\ status' = [status EXCEPT ![r] = "pending"]
        /\ UNCHANGED <<chunks, vectors, scrubbed>>
    BY <1>0, <1>5 DEF CommitRetry, SetStatus
  <2>3. UNCHANGED Shown
    BY <2>2 DEF Shown, Visible
  <2>4. Life(r) \in {"waiting", "failed"} /\ Life(r)' = "waiting"
    <3>1. status'[r] = "pending"
      BY <2>1, <2>2 DEF TypeOK
    <3> QED
      BY <2>1, <3>1, Stages DEF Live, RowStatus, Unfinished
  <2>5. \A d \in Docs \ {r} : Life(d)' = Life(d)
    BY <2>1, <2>2, OthersStay DEF TypeOK
  <2>6. CASE Life(r) = "failed"
    <3>1. Lives' = [Lives EXCEPT ![r] = "waiting"]
      BY <2>1, <2>4, <2>5, LifeMoves
    <3>2. Lifecycle!Reopen(r)
      BY <2>1, <2>2, <2>3, <2>6, <3>1 DEF Lifecycle!Reopen, Lives, Shown
    <3> QED
      BY <2>1, <3>2 DEF Lifecycle!Next
  <2>7. CASE Life(r) = "waiting"
    <3>1. UNCHANGED Lives
      BY <2>4, <2>5, <2>7 DEF Lives
    <3> QED
      BY <2>2, <2>3, <3>1 DEF Lifecycle!vars, Lives, Shown
  <2> QED
    BY <2>4, <2>6, <2>7
<1>6. CASE ~(InsertRow(q) \/ DeleteVectors(q) \/ DeleteRow(q) \/ CommitRetry(q))
  <2>1. UNCHANGED <<status, chunks, vectors, scrubbed>>
    BY <1>6
    DEF ApiStep, StartUpload, StartRetry, StartDelete, PutObject,
        InsertRejected, RetryRejected, DeleteObject, RequestDies
  <2> QED
    BY <2>1, Unseen
<1> QED
  BY <1>2, <1>3, <1>4, <1>5, <1>6

\* The terminal transaction publishes a document; a claim reopens a failed one, a
\* failure gives it up, and what a run does to the points before is not seen.
LEMMA WorkerLives ==
  ASSUME Plain, TypeOK, LifeInv, SearchInv, NEW w \in Workers, WorkerStep(w)
  PROVE  [Lifecycle!Next]_(Lifecycle!vars)
<1> USE DEF rows, stores, history
<1>0. PICK e : e = worker[w].doc
  OBVIOUS
<1>1. CASE ~Busy(w)
  <2>1. UNCHANGED <<status, chunks, vectors, scrubbed>>
    BY <1>1
    DEF Busy, Reached, WorkerStep, WorkerRun, Receive, Claim, ClaimRejected, Fetch,
        FetchMissing, ParseFailure, ClearVectors, UpsertVectors, FlushChunks,
        FlushRejected, Commit, CommitDeleted, TransientError, Crash
  <2> QED
    BY <2>1, Unseen
<1>2. CASE Commit(w)
  <2>1. e \in Docs /\ Live(e) /\ status[e] # "indexed" /\ chunks[e] = {}
    BY <1>0, <1>2 DEF TypeOK, LifeInv, Commit, Reached, Busy
  <2>2. Output(w) = {worker[w].run}
    BY DEF Plain, Output
  <2>3. /\ status' = [status EXCEPT ![e] = "indexed"]
        /\ chunks' = [chunks EXCEPT ![e] = {worker[w].run}]
        /\ UNCHANGED <<vectors, scrubbed>>
    BY <1>0, <1>2, <2>1, <2>2 DEF Commit, SetStatus
  <2>4. Life(e) \in {"waiting", "failed"} /\ Lives' = [Lives EXCEPT ![e] = "ready"]
    <3>1. Life(e) \in {"waiting", "failed"}
      BY <2>1, Stages DEF Live, RowStatus
    <3>2. status'[e] = "indexed"
      BY <2>1, <2>3 DEF TypeOK
    <3>3. Life(e)' = "ready"
      BY <2>1, <3>2, Stages
    <3>4. \A d \in Docs \ {e} : Life(d)' = Life(d)
      BY <2>1, <2>3, OthersStay DEF TypeOK
    <3> QED
      BY <2>1, <3>1, <3>3, <3>4, LifeMoves
  <2>5. /\ Visible(e)' \in {"none", "all"}
        /\ e \notin scrubbed => Visible(e)' = "all"
    <3>1. chunks'[e] = {worker[w].run}
      BY <2>1, <2>3 DEF TypeOK
    <3>2. e \notin scrubbed => worker[w].run \in vectors'[e]
      BY <1>0, <1>2, <2>1, <2>2, <2>3
      DEF LifeInv, SearchInv, RunOwns, Holds, Busy, Quiet, Commit, Reached
    <3> QED
      BY <2>1, <3>1, <3>2, Sights
  <2>6. \A d \in Docs \ {e} : Visible(d)' = Visible(d)
    BY <2>3 DEF TypeOK, Visible
  <2>7. Shown' = [Shown EXCEPT ![e] = Visible(e)']
    BY <2>1, <2>6, SightMoves
  <2>8. Lifecycle!Publish(e)
    BY <2>1, <2>3, <2>4, <2>5, <2>7 DEF Lifecycle!Publish, Lives, Shown
  <2> QED
    BY <2>1, <2>8 DEF Lifecycle!Next
<1>3. CASE Busy(w) /\ ~Commit(w)
  <2>1. e \in Docs /\ status[e] # "indexed" /\ chunks[e] = {}
    BY <1>0, <1>3 DEF TypeOK, LifeInv
  <2>2. UNCHANGED rows \/ Updates(e)
    BY <1>0, <1>3, WorkerUpdates
  <2>3. UNCHANGED scrubbed /\ \A d \in Docs \ {e} : vectors'[d] = vectors[d]
    BY <1>0, <1>3
    DEF TypeOK, Busy, Reached, WorkerStep, WorkerRun, Receive, Claim, ClaimRejected, Fetch,
        FetchMissing, ParseFailure, ClearVectors, UpsertVectors, FlushChunks,
        FlushRejected, CommitDeleted, TransientError, Crash, Raise
  <2>4. UNCHANGED Shown
    <3>1. Visible(e) = "none" /\ Visible(e)' = "none"
      BY <2>1, <2>2, Sights DEF Updates
    <3>2. \A d \in Docs \ {e} : Visible(d)' = Visible(d)
      BY <2>2, <2>3 DEF Updates, Visible
    <3> QED
      BY <3>1, <3>2 DEF Shown
  <2>5. CASE UNCHANGED status
    <3>1. UNCHANGED Lives
      BY <2>5 DEF Lives, Life
    <3> QED
      BY <2>3, <2>4, <3>1 DEF Lifecycle!vars, Lives, Shown
  <2>6. CASE Updates(e)
    <3>1. \A d \in Docs \ {e} : Life(d)' = Life(d)
      BY <2>1, <2>6, OthersStay DEF TypeOK, Updates
    <3>2. Life(e) \in {"waiting", "failed"} /\ Life(e)' \in {"waiting", "failed"}
      <4>1. status[e] \in Unfinished \cup {"failed"} /\ status'[e] \in Unfinished \cup {"failed"}
        BY <2>1, <2>6 DEF TypeOK, Updates, Live, RowStatus, Unfinished
      <4> QED
        BY <2>1, <4>1, Stages
    <3>3. Lives' = [Lives EXCEPT ![e] = Life(e)']
      BY <2>1, <3>1, LifeMoves
    <3>4. CASE Life(e)' = Life(e)
      <4>1. UNCHANGED Lives
        BY <2>1, <3>1, <3>4 DEF Lives
      <4> QED
        BY <2>3, <2>4, <4>1 DEF Lifecycle!vars, Lives, Shown
    <3>5. CASE Life(e) = "waiting" /\ Life(e)' = "failed"
      <4>1. Lifecycle!GiveUp(e)
        BY <2>1, <2>3, <2>4, <3>3, <3>5 DEF Lifecycle!GiveUp, Lives, Shown
      <4> QED
        BY <2>1, <4>1 DEF Lifecycle!Next
    <3>6. CASE Life(e) = "failed" /\ Life(e)' = "waiting"
      <4>1. Lifecycle!Reopen(e)
        BY <2>1, <2>3, <2>4, <3>3, <3>6 DEF Lifecycle!Reopen, Lives, Shown
      <4> QED
        BY <2>1, <4>1 DEF Lifecycle!Next
    <3> QED
      BY <3>2, <3>4, <3>5, <3>6
  <2> QED
    BY <2>2, <2>5, <2>6
<1> QED
  BY <1>1, <1>2, <1>3

\* Ingestion of documents with text by one worker is the lifecycle its users are
\* promised, for any number of requests that upload, patch, retry and delete, and
\* through any failures, as long as no retry commits after its document has become
\* ready: nothing is seen of a document until it is ready, all of it from then on until
\* its removal begins, and no bytes are there twice.
THEOREM LifecycleImplemented == Plain => (Spec /\ RetriesInTime => ImplementsLifecycle)
<1> SUFFICES ASSUME Plain PROVE Spec /\ RetriesInTime => ImplementsLifecycle
  OBVIOUS
<1>1. Init => LifeInv /\ SearchInv
  BY NoneAssumption
  DEF Init, LifeInv, SearchInv, DeletesAnnounced, IdleRequest, IdleWorker, RunOwns, Holds,
      Busy, IndexedIsSearchable
<1>2. Init => Lifecycle!Init
  BY Stages, Sights DEF Init, Lifecycle!Init
<1>3. TypeOK /\ LifeInv /\ SearchInv /\ [Next]_vars /\ [InTime]_vars => LifeInv' /\ SearchInv'
  BY LifeStep, SearchStep
<1>4. TypeOK /\ LifeInv /\ SearchInv /\ [Next]_vars /\ [InTime]_vars
        => [Lifecycle!Next]_(Lifecycle!vars)
  <2> SUFFICES ASSUME TypeOK, LifeInv, SearchInv, [Next]_vars, [InTime]_vars
               PROVE  [Lifecycle!Next]_(Lifecycle!vars)
    OBVIOUS
  <2>1. CASE DispatchStep \/ (\E d \in Docs : UpdateLanguage(d)) \/ UNCHANGED vars
    <3>1. UNCHANGED <<status, chunks, vectors, scrubbed>>
      BY <2>1
      DEF DispatchStep, RelayRun, RelayFetch, RelayDispatch, RelayCommit, RelayCrash,
          Sweep, Age, LoseMessage, Redeliver, UpdateLanguage, vars, rows, stores, history
    <3> QED
      BY <3>1, Unseen
  <2>2. InTime \/ UNCHANGED vars
    OBVIOUS
  <2> QED
    BY <2>1, <2>2, RequestLives, WorkerLives DEF Next, SearchInv
<1> QED
  BY <1>1, <1>2, <1>3, <1>4, TypeCorrect, PTL
  DEF Spec, RetriesInTime, ImplementsLifecycle, Lifecycle!Spec

\* Where nobody retries, that holds of every behaviour.
THEOREM LifecycleWithoutRetries ==
  Plain /\ "retry" \notin Operations => (Spec => ImplementsLifecycle)
<1> SUFFICES ASSUME Plain, "retry" \notin Operations PROVE Spec => ImplementsLifecycle
  OBVIOUS
<1> DEFINE NoRetry == \A q \in Requests : request[q].pc # "retry"
<1>1. Init => NoRetry
  BY DEF Init, IdleRequest
<1>2. TypeOK /\ NoRetry /\ [Next]_vars => NoRetry'
  <2> SUFFICES ASSUME TypeOK, NoRetry, [Next]_vars PROVE NoRetry'
    OBVIOUS
  <2>1. CASE DispatchStep \/ (\E d \in Docs : UpdateLanguage(d)) \/ UNCHANGED vars
    BY <2>1
    DEF DispatchStep, RelayRun, RelayFetch, RelayDispatch, RelayCommit, RelayCrash,
        Sweep, Age, LoseMessage, Redeliver, UpdateLanguage, vars
  <2>2. ASSUME NEW w \in Workers, WorkerStep(w) PROVE NoRetry'
    BY <2>2
    DEF WorkerStep, WorkerRun, Receive, Claim, ClaimRejected, Fetch, FetchMissing,
        ParseFailure, ClearVectors, UpsertVectors, FlushChunks, FlushRejected, Commit,
        CommitDeleted, TransientError, Crash, Raise
  <2>3. ASSUME NEW q \in Requests, ApiStep(q) PROVE NoRetry'
    BY <2>3
    DEF TypeOK, ApiStep, StartUpload, StartRetry, StartDelete, PutObject, InsertRow,
        InsertRejected, CommitRetry, RetryRejected, DeleteVectors, DeleteObject,
        DeleteRow, RequestDies, At, Goto, Finish, IdleRequest
  <2> QED
    BY <2>1, <2>2, <2>3 DEF Next
<1>3. NoRetry /\ [Next]_vars => [InTime]_vars
  BY DEF InTime, CommitRetry, At
<1> HIDE DEF NoRetry
<1> QED
  BY <1>1, <1>2, <1>3, LifecycleImplemented, TypeCorrect, PTL DEF Spec, RetriesInTime
-----------------------------------------------------------------------------
(* Re-embedding next to ingestion.                                         *)

\* The next document of a list.
LEMMA OnwardType ==
  ASSUME task \in Task, Onward
  PROVE  /\ task' \in Task
         /\ TaskAt("idle")' => task' = NoTask
         /\ task'.pc \in {"idle", "load"}
         /\ task'.pc = "load" => task'.doc \in Docs
<1>1. CASE task' = NoTask
  BY <1>1 DEF NoTask, Task, TaskAt
<1>2. ASSUME NEW d \in task.todo,
             task' = [task EXCEPT !.pc = "load", !.doc = d, !.rows = {}, !.todo = @ \ {d}]
      PROVE  task' \in Task /\ task'.pc = "load" /\ task'.doc = d /\ d \in Docs
  BY <1>2 DEF Task
<1> QED
  BY <1>1, <1>2 DEF Onward, NoTask, TaskAt

\* A step of the maintenance task is one of these; each keeps ingestion's types.
LEMMA MaintenanceTypes ==
  ASSUME ReembedTypeOK, MaintenanceStep
  PROVE  TypeOK'
<1> USE DEF rows, stores, transit, history, vars
<1>1. TypeOK /\ task \in Task
  BY DEF ReembedTypeOK
<1>2. ASSUME UNCHANGED <<status, chunks, objects, outbox, relay, queue, worker, request,
                          scrubbed, overlapped, lost>>,
             stale' \subseteq stale, vectors' \in [Docs -> SUBSET Runs],
             faults' \in 0..MaxFaults
      PROVE  TypeOK'
  BY <1>1, <1>2 DEF TypeOK, Busy
<1>3. CASE (\E d \in Docs : StartOne(d)) \/ StartAll \/ ListIndexed \/ LoadRows
  BY <1>1, <1>2, <1>3 DEF StartOne, StartAll, ListIndexed, LoadRows, TypeOK
<1>4. CASE Recreate \/ DropPoints
  BY <1>1, <1>2, <1>4 DEF Recreate, DropPoints, TypeOK
<1>5. CASE WritePoints
  <2>1. vectors' \in [Docs -> SUBSET Runs]
    BY <1>1, <1>5 DEF WritePoints, TypeOK, Task
  <2> QED
    BY <1>1, <1>2, <1>5, <2>1 DEF WritePoints, TypeOK
<1>6. CASE Stamp
  BY <1>1, <1>2, <1>6 DEF Stamp, TypeOK
<1>7. CASE TaskFails
  <2>1. faults' \in 0..MaxFaults
    BY <1>1, <1>7, BoundAssumption DEF TaskFails, Fault, TypeOK
  <2> QED
    BY <1>1, <1>2, <1>7, <2>1 DEF TaskFails, TypeOK
<1> QED
  BY <1>3, <1>4, <1>5, <1>6, <1>7 DEF MaintenanceStep

\* What the task is about, after each of its steps.
TaskTyped ==
  /\ task \in Task
  /\ TaskAt("idle") => task = NoTask
  /\ task.pc \in {"recreate", "list"} => task.whole
  /\ task.pc \in {"load", "clear", "upsert", "stamp"} => task.doc \in Docs

LEMMA TaskTypes ==
  ASSUME ReembedTypeOK, MaintenanceStep
  PROVE  TaskTyped'
<1> USE DEF TaskTyped
<1>1. TaskTyped /\ TypeOK
  BY DEF ReembedTypeOK
<1>2. NoTask \in Task
  BY DEF NoTask, Task
<1>3. ASSUME NEW d \in Docs, StartOne(d) PROVE TaskTyped'
  BY <1>2, <1>3 DEF StartOne, NoTask, Task, TaskAt
<1>4. CASE StartAll
  BY <1>2, <1>4 DEF StartAll, NoTask, Task, TaskAt
<1>5. CASE Recreate
  BY <1>1, <1>5 DEF Recreate, Task, TaskAt
<1>6. CASE ListIndexed
  <2> DEFINE found == {d \in Docs : status[d] = "indexed"}
  <2>1. CASE task' = NoTask
    BY <1>2, <2>1 DEF NoTask
  <2>2. ASSUME NEW d \in found,
               task' = [task EXCEPT !.pc = "load", !.doc = d, !.todo = found \ {d}]
        PROVE  TaskTyped'
    BY <1>1, <2>2 DEF Task, TaskAt
  <2> QED
    BY <1>6, <2>1, <2>2 DEF ListIndexed
<1>7. CASE LoadRows
  <2>1. CASE task' = [task EXCEPT !.pc = "clear", !.rows = chunks[task.doc]]
    <3>1. task.doc \in Docs /\ chunks[task.doc] \in SUBSET Runs
      BY <1>1, <1>7 DEF LoadRows, TaskAt, TypeOK
    <3> QED
      BY <1>1, <2>1, <3>1 DEF Task, TaskAt
  <2>2. CASE Onward
    BY <1>1, <2>2, OnwardType
  <2> QED
    BY <1>7, <2>1, <2>2 DEF LoadRows
<1>8. CASE DropPoints \/ WritePoints
  BY <1>1, <1>8 DEF DropPoints, WritePoints, Task, TaskAt
<1>9. CASE Stamp
  BY <1>1, <1>9, OnwardType DEF Stamp
<1>10. CASE TaskFails
  <2>1. CASE task' = NoTask
    BY <1>2, <2>1 DEF NoTask
  <2>2. CASE task' = [NoTask EXCEPT !.pc = "recreate", !.whole = TRUE]
    BY <2>2 DEF NoTask, Task, TaskAt
  <2>3. CASE ~task.whole /\ task' = [NoTask EXCEPT !.pc = "load", !.doc = task.doc]
    <3>1. task.doc \in Docs
      BY <1>1, <1>10, <2>3 DEF TaskFails, TaskAt, Task
    <3> QED
      BY <2>3, <3>1 DEF NoTask, Task, TaskAt
  <2> QED
    BY <1>10, <2>1, <2>2, <2>3 DEF TaskFails
<1> QED
  BY <1>3, <1>4, <1>5, <1>6, <1>7, <1>8, <1>9, <1>10 DEF MaintenanceStep

LEMMA ReembedTypeStep == ReembedTypeOK /\ [ReembedNext]_allVars => ReembedTypeOK'
<1> SUFFICES ASSUME ReembedTypeOK, [ReembedNext]_allVars PROVE ReembedTypeOK'
  OBVIOUS
<1>1. met' \subseteq Docs /\ broken' \subseteq Docs
  BY DEF ReembedTypeOK, ReembedNext, IngestionStep, Meet, InWork, MaintenanceStep,
      StartOne, StartAll, Recreate, ListIndexed, LoadRows, DropPoints, WritePoints,
      Stamp, TaskFails, allVars, maintenance
<1>2. CASE MaintenanceStep
  BY <1>1, <1>2, MaintenanceTypes, TaskTypes DEF ReembedTypeOK, TaskTyped
<1>3. CASE IngestionStep \/ UNCHANGED allVars
  <2>1. [Next]_vars /\ task' = task
    BY <1>3 DEF IngestionStep, allVars, maintenance
  <2>2. TypeOK'
    BY <2>1, NextType DEF ReembedTypeOK
  <2> QED
    BY <1>1, <2>1, <2>2 DEF ReembedTypeOK, TaskAt
<1> QED
  BY <1>2, <1>3 DEF ReembedNext

LEMMA ReembedInitType == ReembedInit => ReembedTypeOK
BY InitType DEF ReembedInit, ReembedTypeOK, NoTask, Task, TaskAt

\* Ingestion and the re-embedding task stay well typed: the task always has a document in
\* hand where it needs one, and only the whole rebuild drops the collection
\* (reembed.py:33-120).
THEOREM ReembedTypeCorrect == ReembedSpec => []ReembedTypeOK
BY ReembedInitType, ReembedTypeStep, PTL DEF ReembedSpec

-----------------------------------------------------------------------------
(* A rebuild gives back what it takes. *)

\* d, which no two runs and no delete have touched, was not at work where the task was.
Spared(d) == Quiet(d) /\ d \notin met

\* The chunk rows of d are those of one run.
CleanRows(d) ==
  IF Content[d] \in Blank THEN chunks[d] = {} ELSE \E r \in Runs : chunks[d] = {r}

\* What a run w knows of the tables of its document d, ...
RunHolds(w, d) ==
  Holds(w, d) /\ Quiet(d) =>
    /\ \A v \in Workers : Holds(v, d) => v = w
    /\ status[d] # "indexed"
    /\ worker[w].pc = "commit" => worker[w].gone = chunks[d]

\* ... and of its points, as long as it does not meet the task.
RunFills(w, d) ==
  Holds(w, d) /\ Spared(d) =>
    /\ d \notin Loaded
    /\ worker[w].pc = "upsert" => vectors[d] = {}
    /\ worker[w].pc \in {"persist", "commit"} => vectors[d] = Output(w)

\* What the task knows of the document whose rows it has loaded.
TaskFills(d) ==
  d \in Loaded /\ Spared(d) =>
    /\ task.rows = chunks[d]
    /\ CleanRows(d)
    /\ task.pc = "upsert" => vectors[d] = {}

\* An indexed document has clean rows, and points unless the task still owes them.
RowsKept(d) == status[d] = "indexed" /\ Quiet(d) => CleanRows(d)
Rebuilt(d) ==
  status[d] = "indexed" /\ Spared(d) /\ d \notin broken /\ ~Due(d) => vectors[d] = chunks[d]

DocInv(d) == RowsKept(d) /\ TaskFills(d) /\ Rebuilt(d)
RunInv(w, d) == RunHolds(w, d) /\ RunFills(w, d)

RebuildInv ==
  /\ DeletesAnnounced
  /\ \A d \in Docs : DocInv(d)
  /\ \A w \in Workers, d \in Docs : RunInv(w, d)

\* A document about which no step is taken keeps what is known of it.
LEMMA DocUntouched ==
  ASSUME NEW d \in Docs, DocInv(d), UNCHANGED <<task, broken>>,
         scrubbed \subseteq scrubbed', overlapped \subseteq overlapped', met \subseteq met',
         d \notin scrubbed' =>
           /\ vectors'[d] = vectors[d] /\ chunks'[d] = chunks[d]
           /\ status'[d] = "indexed" => status[d] = "indexed"
  PROVE  DocInv(d)'
<1>1. /\ Spared(d)' => Spared(d)
      /\ Quiet(d)' => Quiet(d) /\ d \notin scrubbed'
      /\ Spared(d)' => Quiet(d)'
  BY DEF Spared, Quiet
<1>2. (Loaded' = Loaded) /\ (Due(d)' <=> Due(d))
  BY DEF Loaded, Due, TaskAt
<1>3. Quiet(d)' /\ CleanRows(d) => CleanRows(d)'
  BY <1>1 DEF CleanRows
<1> QED
  BY <1>1, <1>2, <1>3 DEF DocInv, RowsKept, TaskFills, Rebuilt

\* Steps that leave every run where it is.
LEMMA RunsRest ==
  ASSUME RebuildInv, DeletesAnnounced', UNCHANGED <<worker, overlapped, task, broken>>,
         scrubbed \subseteq scrubbed', met \subseteq met',
         \A d \in Docs \ scrubbed' :
           /\ vectors'[d] = vectors[d] /\ chunks'[d] = chunks[d]
           /\ status'[d] = "indexed" => status[d] = "indexed"
  PROVE  RebuildInv'
<1>1. ASSUME NEW w \in Workers, NEW d \in Docs PROVE RunInv(w, d)'
  <2>1. RunInv(w, d)
    BY DEF RebuildInv
  <2>2. Loaded' = Loaded
    BY DEF Loaded
  <2> QED
    BY <2>1, <2>2 DEF RunInv, RunHolds, RunFills, Spared, Quiet, Holds, Busy, Output
<1>2. ASSUME NEW d \in Docs PROVE DocInv(d)'
  BY <1>2, DocUntouched DEF RebuildInv
<1> QED
  BY <1>1, <1>2 DEF RebuildInv

\* A step of the worker that holds e concerns only e: what is left to show is what it
\* knows of e then and, if e is indexed, its result.
LEMMA RunMoves ==
  ASSUME TypeOK, RebuildInv, NEW w \in Workers, NEW e \in Docs, Holds(w, e),
         UNCHANGED <<request, scrubbed, overlapped, task, broken>>, met \subseteq met',
         \A v \in Workers \ {w} : worker'[v] = worker[v],
         worker'[w].pc = "idle" \/ worker'[w].doc = e,
         \A d \in Docs \ {e} :
           /\ vectors'[d] = vectors[d] /\ chunks'[d] = chunks[d]
           /\ status'[d] = status[d],
         (\A v \in Workers : Holds(v, e) => v = w) /\ Quiet(e) => RunHolds(w, e)',
         e \notin Loaded /\ Spared(e) => RunFills(w, e)',
         Quiet(e) /\ status'[e] = "indexed" => CleanRows(e)',
         Spared(e) /\ status'[e] = "indexed" => vectors'[e] = chunks'[e]
  PROVE  RebuildInv'
<1>1. DeletesAnnounced'
  BY DEF RebuildInv, DeletesAnnounced
<1>2. Loaded' = Loaded
  BY DEF Loaded
<1>3. (\A d \in Docs : Spared(d)' => Spared(d)) /\ (\A d \in Docs : Quiet(d)' <=> Quiet(d))
  BY DEF Spared, Quiet
<1>4. RunHolds(w, e) /\ RunFills(w, e)
  BY DEF RebuildInv, RunInv
<1>5. ASSUME NEW v \in Workers, NEW d \in Docs PROVE RunInv(v, d)'
  <2>1. RunHolds(v, d) /\ RunFills(v, d)
    BY DEF RebuildInv, RunInv
  <2>2. \A u \in Workers : Holds(u, d)' => Holds(u, d)
    BY DEF Holds, Busy
  <2>3. CASE d # e
    <3>1. v = w => ~Holds(v, d)'
      BY <2>3 DEF Holds, Busy
    <3>2. v # w => Output(v)' = Output(v) /\ worker'[v] = worker[v]
      BY DEF Output
    <3>3. v # w => RunHolds(v, d)'
      BY <1>3, <2>1, <2>2, <2>3, <3>2 DEF RunHolds
    <3>4. v # w => RunFills(v, d)'
      BY <1>2, <1>3, <2>1, <2>2, <2>3, <3>2 DEF RunFills
    <3> QED
      BY <3>1, <3>3, <3>4 DEF RunInv, RunHolds, RunFills
  <2>4. CASE d = e /\ v # w
    <3>1. Quiet(e) => ~Holds(v, e)
      BY <1>4, <2>4 DEF RunHolds
    <3>2. Spared(e) => Quiet(e)
      BY DEF Spared
    <3> QED
      BY <1>3, <2>2, <2>4, <3>1, <3>2 DEF RunInv, RunHolds, RunFills
  <2>5. CASE d = e /\ v = w
    <3>1. RunHolds(w, e)'
      <4>1. CASE Quiet(e)
        BY <1>4, <4>1 DEF RunHolds
      <4>2. CASE ~Quiet(e)
        BY <1>3, <4>2 DEF RunHolds
      <4> QED
        BY <4>1, <4>2
    <3>2. RunFills(w, e)'
      <4>1. CASE Spared(e)
        BY <1>4, <4>1 DEF RunFills
      <4>2. CASE ~Spared(e)
        BY <1>3, <4>2 DEF RunFills
      <4> QED
        BY <4>1, <4>2
    <3> QED
      BY <2>5, <3>1, <3>2 DEF RunInv
  <2> QED
    BY <2>3, <2>4, <2>5
<1>6. ASSUME NEW d \in Docs PROVE DocInv(d)'
  <2>1. CASE d # e
    BY <2>1, DocUntouched DEF RebuildInv
  <2>2. CASE d = e
    <3>1. TaskFills(e)'
      BY <1>2, <1>3, <1>4 DEF TaskFills, RunFills
    <3>2. RowsKept(e)' /\ Rebuilt(e)'
      BY <1>3 DEF RowsKept, Rebuilt
    <3> QED
      BY <2>2, <3>1, <3>2 DEF DocInv
  <2> QED
    BY <2>1, <2>2
<1> QED
  BY <1>1, <1>5, <1>6 DEF RebuildInv

\* Requests make documents pending or deleted, and remove the artifacts of announced
\* documents only.
LEMMA ApiStepRebuild ==
  ASSUME TypeOK, RebuildInv, NEW q \in Requests, ApiStep(q),
         UNCHANGED <<task, broken>>, met \subseteq met'
  PROVE  RebuildInv'
<1> USE DEF rows, stores, history
<1>1. UNCHANGED <<worker, overlapped>> /\ scrubbed \subseteq scrubbed'
  BY DEF ApiStep, StartUpload, StartRetry, StartDelete, PutObject, InsertRow,
      InsertRejected, CommitRetry, RetryRejected, DeleteVectors, DeleteObject,
      DeleteRow, RequestDies
<1>2. DeletesAnnounced'
  <2>1. CASE DeleteVectors(q)
    BY <2>1 DEF TypeOK, RebuildInv, DeletesAnnounced, DeleteVectors, Goto
  <2>2. CASE DeleteObject(q)
    BY <2>2 DEF TypeOK, RebuildInv, DeletesAnnounced, DeleteObject, At, Goto
  <2>3. CASE ~DeleteVectors(q) /\ ~DeleteObject(q)
    <3>1. \E pc \in RequestPC \ {"object", "row"}, d \in Docs \cup {NoDoc} :
            request' = [request EXCEPT ![q] = [pc |-> pc, doc |-> d]]
      BY <2>3
      DEF ApiStep, StartUpload, StartRetry, StartDelete, PutObject, InsertRow,
          InsertRejected, CommitRetry, RetryRejected, DeleteRow, RequestDies,
          Goto, Finish, IdleRequest, At, RequestPC, TypeOK
    <3> QED
      BY <1>1, <3>1 DEF TypeOK, RebuildInv, DeletesAnnounced
  <2> QED
    BY <2>1, <2>2, <2>3
<1>3. \A d \in Docs \ scrubbed' : vectors'[d] = vectors[d]
  BY DEF TypeOK, ApiStep, StartUpload, StartRetry, StartDelete, PutObject, InsertRow,
      InsertRejected, CommitRetry, RetryRejected, DeleteVectors, DeleteObject,
      DeleteRow, RequestDies
<1>4. \A d \in Docs \ scrubbed' :
        /\ chunks'[d] = chunks[d]
        /\ status'[d] = "indexed" => status[d] = "indexed"
  <2>1. CASE DeleteRow(q)
    <3>1. request[q].doc \in scrubbed
      BY <2>1 DEF RebuildInv, DeletesAnnounced, DeleteRow, At
    <3> QED
      BY <1>1, <2>1, <3>1 DEF TypeOK, DeleteRow, SetStatus
  <2>2. CASE ~DeleteRow(q)
    BY <2>2
    DEF TypeOK, ApiStep, StartUpload, StartRetry, StartDelete, PutObject, InsertRow,
        InsertRejected, CommitRetry, RetryRejected, DeleteVectors, DeleteObject,
        RequestDies, SetStatus
  <2> QED
    BY <2>1, <2>2
<1> QED
  BY <1>1, <1>2, <1>3, <1>4, RunsRest

\* Taking a message starts a run that holds its document, marks the overlap, or meets
\* the task.
LEMMA ReceiveRebuild ==
  ASSUME TypeOK, RebuildInv, NEW w \in Workers, NEW m \in Messages,
         Receive(w, m[1], m[2]), UNCHANGED <<task, broken>>, Meet
  PROVE  RebuildInv'
<1> USE DEF rows, stores
<1>1. PICK e \in Docs : m[1] = e
  BY DEF Messages
<1>2. UNCHANGED <<status, chunks, vectors, request, scrubbed>>
  BY DEF Receive
<1>3. Loaded' = Loaded /\ met' = met \cup (InWork' \cap Loaded')
  BY DEF Loaded, Meet
<1>4. CASE UNCHANGED <<worker, overlapped>>
  BY <1>2, <1>3, <1>4, RunsRest DEF RebuildInv, DeletesAnnounced
<1>5. CASE ~UNCHANGED <<worker, overlapped>>
  <2>1. /\ status[e] # "indexed"
        /\ overlapped' = IF \E v \in Workers : Holds(v, e)
                         THEN overlapped \cup {e} ELSE overlapped
        /\ worker' = [worker EXCEPT ![w] =
             [pc    |-> IF status[e] = "processing" THEN "fetch" ELSE "claim",
              doc   |-> e,
              tries |-> m[2],
              run   |-> NoRun,
              gone  |-> {}]]
    BY <1>1, <1>5 DEF Receive
  <2>2. /\ worker'[w].doc = e /\ worker'[w].pc \in {"claim", "fetch"}
        /\ \A v \in Workers \ {w} : worker'[v] = worker[v]
    BY <2>1 DEF TypeOK
  <2>3. \A d \in Docs : (Quiet(d)' => Quiet(d)) /\ (Spared(d)' => Spared(d) /\ Quiet(d)')
    BY <1>2, <1>3, <2>1 DEF Quiet, Spared
  <2>4. Quiet(e)' => \A u \in Workers : ~Holds(u, e)
    BY <2>1 DEF Quiet
  <2>5. \A u \in Workers \ {w}, d \in Docs : Holds(u, d)' <=> Holds(u, d)
    BY <2>2 DEF Holds, Busy
  <2>6. \A d \in Docs \ {e} : ~Holds(w, d)'
    BY <2>2 DEF Holds
  <2>7. Spared(e)' => e \notin Loaded'
    <3>1. e \in InWork'
      BY <2>2 DEF InWork, Holds, Busy
    <3> QED
      BY <1>3, <3>1 DEF Spared
  <2>8. ASSUME NEW v \in Workers, NEW d \in Docs PROVE RunInv(v, d)'
    <3>1. RunHolds(v, d) /\ RunFills(v, d)
      BY DEF RebuildInv, RunInv
    <3>2. CASE d # e /\ v # w
      <4>1. worker'[v] = worker[v] /\ Output(v)' = Output(v)
        BY <2>2, <3>2 DEF Output
      <4>2. Quiet(d)' => \A u \in Workers : Holds(v, d)' /\ Holds(u, d)' => u = v
        BY <2>3, <2>5, <2>6, <3>1, <3>2 DEF RunHolds
      <4>3. RunHolds(v, d)'
        BY <1>2, <2>3, <2>5, <3>1, <3>2, <4>1, <4>2 DEF RunHolds
      <4>4. RunFills(v, d)'
        BY <1>2, <1>3, <2>3, <2>5, <3>1, <3>2, <4>1 DEF RunFills
      <4> QED
        BY <4>3, <4>4 DEF RunInv
    <3>3. CASE d # e /\ v = w
      BY <2>6, <3>3 DEF RunInv, RunHolds, RunFills
    <3>4. CASE d = e /\ v # w
      BY <2>3, <2>4, <2>5, <3>4 DEF RunInv, RunHolds, RunFills
    <3>5. CASE d = e /\ v = w
      <4>1. RunHolds(w, e)'
        BY <1>2, <2>1, <2>2, <2>4, <2>5 DEF RunHolds
      <4>2. RunFills(w, e)'
        BY <2>2, <2>7 DEF RunFills
      <4> QED
        BY <3>5, <4>1, <4>2 DEF RunInv
    <3> QED
      BY <3>2, <3>3, <3>4, <3>5
  <2>9. ASSUME NEW d \in Docs PROVE DocInv(d)'
    <3>1. overlapped \subseteq overlapped' /\ met \subseteq met'
      BY <1>3, <2>1
    <3> QED
      BY <1>2, <3>1, DocUntouched DEF RebuildInv
  <2> QED
    BY <1>2, <2>8, <2>9 DEF RebuildInv, DeletesAnnounced
<1> QED
  BY <1>4, <1>5

\* A worker that lets go of its document without indexing it.
LEMMA ReleaseRebuild ==
  ASSUME TypeOK, RebuildInv, NEW w \in Workers, NEW e \in Docs, Holds(w, e),
         StopWorker(w),
         UNCHANGED <<chunks, vectors, request, scrubbed, overlapped, task, broken>>,
         met \subseteq met',
         \/ UNCHANGED status
         \/ \E s \in {"pending", "processing", "failed"} :
              status' = [status EXCEPT ![e] = s]
  PROVE  RebuildInv'
<1>1. worker'[w].pc = "idle" /\ \A v \in Workers \ {w} : worker'[v] = worker[v]
  BY DEF TypeOK, StopWorker, IdleWorker
<1>2. RunHolds(w, e)' /\ RunFills(w, e)'
  BY <1>1 DEF RunHolds, RunFills, Holds, Busy
<1>3. \A d \in Docs \ {e} : status'[d] = status[d]
  BY DEF TypeOK
<1>4. status'[e] = "indexed" => status[e] = "indexed"
  BY DEF TypeOK
<1>5. Quiet(e) => status[e] # "indexed"
  BY DEF RebuildInv, RunInv, RunHolds
<1>6. Spared(e) => Quiet(e)
  BY DEF Spared
<1> QED
  BY <1>1, <1>2, <1>3, <1>4, <1>5, <1>6, RunMoves

\* A task that raised only lets go of its document.
LEMMA RaiseRebuild ==
  ASSUME TypeOK, RebuildInv, NEW w \in Workers, Busy(w), Raise(w),
         UNCHANGED <<task, broken>>, met \subseteq met'
  PROVE  RebuildInv'
<1>1. PICK e \in Docs : e = worker[w].doc /\ Holds(w, e)
  BY DEF TypeOK, Holds
<1>2. UNCHANGED status \/ status' = [status EXCEPT ![e] = "failed"]
  BY <1>1 DEF Raise, FailDocument, SetStatus
<1> QED
  BY <1>1, <1>2, ReleaseRebuild DEF Raise, stores

\* A run's own steps leave in the stores exactly what its result needs.
LEMMA PipelineRebuild ==
  ASSUME TypeOK, RebuildInv, NEW w \in Workers, UNCHANGED <<task, broken>>, met \subseteq met',
         \/ Claim(w) \/ Fetch(w) \/ ClearVectors(w) \/ UpsertVectors(w)
         \/ FlushChunks(w) \/ Commit(w) \/ CommitDeleted(w)
  PROVE  RebuildInv'
<1> USE DEF rows, stores, history
<1>1. PICK e \in Docs : e = worker[w].doc /\ Holds(w, e)
  BY DEF TypeOK, Claim, Fetch, ClearVectors, UpsertVectors, FlushChunks, Commit,
      CommitDeleted, Reached, Holds, Busy
<1>2. RunHolds(w, e) /\ RunFills(w, e)
  BY DEF RebuildInv, RunInv
<1>3. (Quiet(e) => status[e] # "indexed") /\ (Spared(e) => Quiet(e))
  BY <1>1, <1>2 DEF RunHolds, Spared
<1>4. UNCHANGED <<request, scrubbed, overlapped>>
  BY DEF Claim, Fetch, ClearVectors, UpsertVectors, FlushChunks, Commit, CommitDeleted
<1>5. (Loaded' = Loaded) /\ (Spared(e)' => Spared(e)) /\ (Quiet(e)' <=> Quiet(e))
  BY <1>4 DEF Loaded, Spared, Quiet
<1> DEFINE Alone == \A v \in Workers : Holds(v, e) => v = w
\* What is left when the run goes on and the document does not become indexed.
<1>6. ASSUME worker'[w].doc = e, \A v \in Workers \ {w} : worker'[v] = worker[v],
             UNCHANGED chunks, \A d \in Docs \ {e} : status'[d] = status[d] /\ vectors'[d] = vectors[d],
             status'[e] = "indexed" => status[e] = "indexed",
             worker'[w].pc = "commit" => worker'[w].gone = chunks[e],
             e \notin Loaded /\ Spared(e) => RunFills(w, e)'
      PROVE  RebuildInv'
  <2>1. Alone /\ Quiet(e) => RunHolds(w, e)'
    BY <1>3, <1>5, <1>6 DEF RunHolds, Holds, Busy
  <2> QED
    BY <1>1, <1>3, <1>4, <1>6, <2>1, RunMoves
<1>7. CASE Claim(w)
  <2>1. /\ worker' = [worker EXCEPT ![w].pc = "fetch"]
        /\ status' = [status EXCEPT ![e] = "processing"]
        /\ UNCHANGED <<chunks, vectors>>
    BY <1>1, <1>7 DEF Claim, Step, SetStatus
  <2>2. /\ worker'[w].pc = "fetch" /\ worker'[w].doc = e
        /\ \A v \in Workers \ {w} : worker'[v] = worker[v]
    BY <1>1, <2>1 DEF TypeOK, WorkerState
  <2>3. status'[e] = "processing" /\ \A d \in Docs \ {e} : status'[d] = status[d]
    BY <2>1 DEF TypeOK
  <2>4. e \notin Loaded => RunFills(w, e)'
    BY <1>5, <2>2 DEF RunFills
  <2> QED
    BY <1>6, <2>1, <2>2, <2>3, <2>4
<1>8. CASE Fetch(w)
  <2>1. PICK r \in Runs : worker' = [worker EXCEPT ![w].run = r, ![w].pc = "clear"]
    BY <1>8 DEF Fetch
  <2>2. /\ worker'[w].pc = "clear" /\ worker'[w].doc = e
        /\ \A v \in Workers \ {w} : worker'[v] = worker[v]
    BY <1>1, <2>1 DEF TypeOK, WorkerState
  <2>3. UNCHANGED <<status, chunks, vectors>>
    BY <1>8 DEF Fetch
  <2>4. e \notin Loaded => RunFills(w, e)'
    BY <1>5, <2>2 DEF RunFills
  <2> QED
    BY <1>6, <2>2, <2>3, <2>4
<1>9. CASE ClearVectors(w)
  <2>1. /\ worker' = [worker EXCEPT ![w].pc = "upsert"]
        /\ vectors' = [vectors EXCEPT ![e] = {}]
        /\ UNCHANGED <<status, chunks>>
    BY <1>1, <1>9 DEF ClearVectors, Step
  <2>2. /\ worker'[w].pc = "upsert" /\ worker'[w].doc = e
        /\ \A v \in Workers \ {w} : worker'[v] = worker[v]
    BY <1>1, <2>1 DEF TypeOK, WorkerState
  <2>3. vectors'[e] = {} /\ \A d \in Docs \ {e} : vectors'[d] = vectors[d]
    BY <2>1 DEF TypeOK
  <2>4. e \notin Loaded => RunFills(w, e)'
    BY <1>5, <2>2, <2>3 DEF RunFills
  <2> QED
    BY <1>6, <2>1, <2>2, <2>3, <2>4
<1>10. CASE UpsertVectors(w)
  <2>1. /\ worker' = [worker EXCEPT ![w].pc = "persist"]
        /\ vectors' = [vectors EXCEPT ![e] = @ \cup Output(w)]
        /\ UNCHANGED <<status, chunks>>
    BY <1>1, <1>10 DEF UpsertVectors, Step
  <2>2. /\ worker'[w].pc = "persist" /\ worker'[w].doc = e
        /\ worker'[w].run = worker[w].run
        /\ \A v \in Workers \ {w} : worker'[v] = worker[v]
    BY <1>1, <2>1 DEF TypeOK, WorkerState
  <2>3. /\ Spared(e) => vectors'[e] = Output(w)
        /\ \A d \in Docs \ {e} : vectors'[d] = vectors[d]
    BY <1>1, <1>2, <1>10, <2>1 DEF TypeOK, RunFills, UpsertVectors, Reached
  <2>4. Output(w)' = Output(w)
    BY <1>1, <2>2 DEF Output
  <2>5. e \notin Loaded => RunFills(w, e)'
    BY <1>5, <2>2, <2>3, <2>4 DEF RunFills
  <2> QED
    BY <1>6, <2>1, <2>2, <2>3, <2>5
<1>11. CASE FlushChunks(w)
  <2>1. /\ worker' = [worker EXCEPT ![w].gone = chunks[e], ![w].pc = "commit"]
        /\ UNCHANGED <<status, chunks, vectors>>
    BY <1>1, <1>11 DEF FlushChunks
  <2>2. /\ worker'[w].pc = "commit" /\ worker'[w].doc = e
        /\ worker'[w].gone = chunks[e] /\ worker'[w].run = worker[w].run
        /\ \A v \in Workers \ {w} : worker'[v] = worker[v]
    BY <1>1, <2>1 DEF TypeOK, WorkerState
  <2>3. Output(w)' = Output(w)
    BY <1>1, <2>2 DEF Output
  <2>4. Spared(e) => vectors[e] = Output(w)
    BY <1>1, <1>2, <1>11 DEF RunFills, FlushChunks, Reached
  <2>5. e \notin Loaded => RunFills(w, e)'
    BY <1>5, <2>1, <2>2, <2>3, <2>4 DEF RunFills
  <2> QED
    BY <1>6, <2>1, <2>2, <2>5
<1>12. CASE Commit(w)
  <2>1. /\ StopWorker(w) /\ UNCHANGED vectors
        /\ status' = [status EXCEPT ![e] = "indexed"]
        /\ chunks' = [chunks EXCEPT ![e] = (@ \ worker[w].gone) \cup Output(w)]
    BY <1>1, <1>12 DEF Commit, SetStatus
  <2>2. worker'[w].pc = "idle" /\ \A v \in Workers \ {w} : worker'[v] = worker[v]
    BY <2>1 DEF TypeOK, StopWorker, IdleWorker
  <2>3. \A d \in Docs \ {e} : status'[d] = status[d] /\ chunks'[d] = chunks[d]
    BY <2>1 DEF TypeOK
  <2>4. RunHolds(w, e)' /\ RunFills(w, e)'
    BY <2>2 DEF RunHolds, RunFills, Holds, Busy
  <2>5. Quiet(e) => worker[w].gone = chunks[e]
    BY <1>1, <1>2, <1>12 DEF RunHolds, Commit, Reached
  <2>6. Quiet(e) => chunks'[e] = Output(w)
    BY <2>1, <2>5 DEF TypeOK
  <2>7. Spared(e) => vectors[e] = Output(w)
    BY <1>1, <1>2, <1>12 DEF RunFills, Commit, Reached
  <2>8. worker[w].run \in Runs
    BY <1>12 DEF TypeOK, Commit, Reached, Writing
  <2>9. Quiet(e) => CleanRows(e)'
    BY <1>1, <2>6, <2>8 DEF CleanRows, Output
  <2>10. Spared(e) => vectors'[e] = chunks'[e]
    BY <1>3, <2>1, <2>6, <2>7
  <2> QED
    BY <1>1, <1>4, <2>1, <2>2, <2>3, <2>4, <2>9, <2>10, RunMoves
<1>13. CASE CommitDeleted(w)
  <2>1. /\ StopWorker(w) /\ UNCHANGED <<status, chunks>>
        /\ vectors' = [vectors EXCEPT ![e] = {}]
    BY <1>1, <1>13 DEF CommitDeleted
  <2>2. worker'[w].pc = "idle" /\ \A v \in Workers \ {w} : worker'[v] = worker[v]
    BY <2>1 DEF TypeOK, StopWorker, IdleWorker
  <2>3. \A d \in Docs \ {e} : vectors'[d] = vectors[d]
    BY <2>1 DEF TypeOK
  <2>4. RunHolds(w, e)' /\ RunFills(w, e)'
    BY <2>2 DEF RunHolds, RunFills, Holds, Busy
  <2> QED
    BY <1>1, <1>3, <1>4, <2>1, <2>2, <2>3, <2>4, RunMoves
<1> QED
  BY <1>7, <1>8, <1>9, <1>10, <1>11, <1>12, <1>13

\* Ingestion's steps.
LEMMA IngestionRebuild ==
  ASSUME TypeOK, RebuildInv, IngestionStep
  PROVE  RebuildInv'
<1> USE DEF history
<1>1. Next /\ UNCHANGED <<task, broken>> /\ met \subseteq met' /\ Meet
  BY DEF IngestionStep, Meet
<1>2. ASSUME NEW q \in Requests, ApiStep(q) PROVE RebuildInv'
  BY <1>1, <1>2, ApiStepRebuild
<1>3. CASE DispatchStep \/ \E d \in Docs : UpdateLanguage(d)
  <2>1. UNCHANGED <<status, chunks, vectors, worker, request, scrubbed, overlapped>>
    BY <1>3
    DEF DispatchStep, RelayRun, RelayFetch, RelayDispatch, RelayCommit, RelayCrash,
        Sweep, Age, LoseMessage, Redeliver, UpdateLanguage, rows, stores
  <2> QED
    BY <1>1, <2>1, RunsRest DEF RebuildInv, DeletesAnnounced
<1>4. ASSUME NEW w \in Workers, WorkerStep(w) PROVE RebuildInv'
  <2>1. CASE ClaimRejected(w) \/ FetchMissing(w) \/ FlushRejected(w) \/ TransientError(w)
    BY <1>1, <2>1, RaiseRebuild
    DEF ClaimRejected, FetchMissing, FlushRejected, TransientError, Reached, Busy
  <2>2. CASE ParseFailure(w) \/ Crash(w)
    <3>1. PICK e \in Docs : e = worker[w].doc /\ Holds(w, e)
      BY <2>2 DEF TypeOK, ParseFailure, Crash, Reached, Holds, Busy
    <3>2. /\ StopWorker(w) /\ UNCHANGED <<chunks, vectors, request, scrubbed, overlapped>>
          /\ UNCHANGED status \/ status' = [status EXCEPT ![e] = "failed"]
      BY <2>2, <3>1 DEF ParseFailure, Crash, FailDocument, SetStatus, rows, stores
    <3> QED
      BY <1>1, <3>1, <3>2, ReleaseRebuild
  <2>3. ASSUME NEW m \in Messages, Receive(w, m[1], m[2]) PROVE RebuildInv'
    BY <1>1, <2>3, ReceiveRebuild
  <2>4. CASE \/ Claim(w) \/ Fetch(w) \/ ClearVectors(w) \/ UpsertVectors(w)
             \/ FlushChunks(w) \/ Commit(w) \/ CommitDeleted(w)
    BY <1>1, <2>4, PipelineRebuild
  <2> QED
    BY <1>4, <2>1, <2>2, <2>3, <2>4 DEF WorkerStep, WorkerRun
<1> QED
  BY <1>1, <1>2, <1>3, <1>4 DEF Next

-----------------------------------------------------------------------------
\* A step of the task touches no run and no row: what is left to show is what it does to
\* the points.
LEMMA TaskMoves ==
  ASSUME RebuildInv,
         UNCHANGED <<status, chunks, worker, request, scrubbed, overlapped>>,
         met \subseteq met',
         \A w \in Workers, d \in Docs :
           Holds(w, d) /\ Spared(d)' => d \notin Loaded' /\ vectors'[d] = vectors[d],
         \A d \in Docs : TaskFills(d)' /\ Rebuilt(d)'
  PROVE  RebuildInv'
<1>1. DeletesAnnounced'
  BY DEF RebuildInv, DeletesAnnounced
<1>2. \A d \in Docs : (Quiet(d)' <=> Quiet(d)) /\ (Spared(d)' => Spared(d))
  BY DEF Quiet, Spared
<1>3. ASSUME NEW d \in Docs PROVE DocInv(d)'
  <2>1. RowsKept(d)
    BY DEF RebuildInv, DocInv
  <2>2. RowsKept(d)'
    BY <1>2, <2>1 DEF RowsKept, CleanRows
  <2> QED
    BY <2>2 DEF DocInv
<1>4. ASSUME NEW w \in Workers, NEW d \in Docs PROVE RunInv(w, d)'
  <2>1. RunHolds(w, d) /\ RunFills(w, d)
    BY DEF RebuildInv, RunInv
  <2>2. (\A v \in Workers : Holds(v, d)' <=> Holds(v, d)) /\ Output(w)' = Output(w)
    BY DEF Holds, Busy, Output
  <2>3. RunHolds(w, d)'
    BY <1>2, <2>1, <2>2 DEF RunHolds
  <2>4. RunFills(w, d)'
    BY <1>2, <2>1, <2>2 DEF RunFills
  <2> QED
    BY <2>3, <2>4 DEF RunInv
<1> QED
  BY <1>1, <1>3, <1>4 DEF RebuildInv

\* Going on to the next document leaves none out.
LEMMA OnwardDue ==
  ASSUME Onward, task \in Task, TaskAt("load") \/ TaskAt("stamp")
  PROVE  /\ Loaded' = {}
         /\ \A d \in Docs : Due(d) => Due(d)' \/ (TaskAt("load") /\ d = task.doc)
<1>1. CASE task.todo = {} /\ task' = NoTask
  BY <1>1 DEF NoTask, Loaded, Due, TaskAt
<1>2. ASSUME NEW d \in task.todo,
             task' = [task EXCEPT !.pc = "load", !.doc = d, !.rows = {}, !.todo = @ \ {d}]
      PROVE  /\ Loaded' = {}
             /\ \A e \in Docs : Due(e) => Due(e)' \/ (TaskAt("load") /\ e = task.doc)
  <2>1. task'.pc = "load" /\ task'.doc = d /\ task'.todo = task.todo \ {d} /\ task'.whole = task.whole
    BY <1>2 DEF Task
  <2> QED
    BY <2>1 DEF Loaded, Due, TaskAt
<1> QED
  BY <1>1, <1>2 DEF Onward

\* Steps that write nothing to the vector store and end with no rows in hand.
LEMMA TaskTurns ==
  ASSUME RebuildInv,
         UNCHANGED <<status, chunks, vectors, worker, request, scrubbed, overlapped>>,
         met \subseteq met', broken \subseteq broken', Loaded' = {},
         \A d \in Docs : status[d] = "indexed" /\ Due(d) => Due(d)' \/ d \in broken'
  PROVE  RebuildInv'
<1>1. ASSUME NEW d \in Docs PROVE TaskFills(d)' /\ Rebuilt(d)'
  <2>1. Rebuilt(d) /\ (Spared(d)' => Spared(d))
    BY DEF RebuildInv, DocInv, Spared, Quiet
  <2> QED
    BY <2>1 DEF TaskFills, Rebuilt
<1> QED
  BY <1>1, TaskMoves

LEMMA MaintenanceRebuild ==
  ASSUME ReembedTypeOK, RebuildInv, MaintenanceStep
  PROVE  RebuildInv'
<1> USE DEF rows, stores, transit, history, vars
<1>1. TypeOK /\ TaskTyped
  BY DEF ReembedTypeOK, TaskTyped
<1>2. \A d \in Docs : RowsKept(d) /\ TaskFills(d) /\ Rebuilt(d)
  BY DEF RebuildInv, DocInv
<1>3. \A w \in Workers, d \in Docs : Holds(w, d) /\ Spared(d) => d \notin Loaded
  BY DEF RebuildInv, RunInv, RunFills
<1>4. CASE (\E d \in Docs : StartOne(d)) \/ StartAll
  <2>1. UNCHANGED <<vars, met, broken>> /\ task = NoTask
    BY <1>1, <1>4 DEF StartOne, StartAll, TaskTyped
  <2>2. \A d \in Docs : ~Due(d)
    BY <2>1 DEF NoTask, Due, TaskAt
  <2>3. Loaded' = {}
    BY <1>4 DEF StartOne, StartAll, NoTask, Loaded
  <2> QED
    BY <2>1, <2>2, <2>3, TaskTurns
<1>5. CASE Recreate
  <2>1. /\ UNCHANGED <<status, chunks, worker, request, scrubbed, overlapped>>
        /\ met' = met \cup InWork /\ task'.pc = "list"
    BY <1>1, <1>5 DEF Recreate, TaskTyped, Task
  <2>2. \A w \in Workers, d \in Docs : Holds(w, d) => ~Spared(d)'
    BY <2>1 DEF InWork, Spared
  <2>3. \A d \in Docs : Due(d)' /\ d \notin Loaded'
    BY <2>1 DEF Due, TaskAt, Loaded
  <2>4. \A d \in Docs : TaskFills(d)' /\ Rebuilt(d)'
    BY <2>3 DEF TaskFills, Rebuilt
  <2> QED
    BY <2>1, <2>2, <2>4, TaskMoves
<1>6. CASE ListIndexed
  <2> DEFINE found == {d \in Docs : status[d] = "indexed"}
  <2>1. UNCHANGED <<vars, met, broken>> /\ task.whole
    BY <1>1, <1>6 DEF ListIndexed, TaskTyped, TaskAt
  <2>2. CASE found = {}
    <3>1. task' = NoTask
      BY <1>6, <2>2 DEF ListIndexed
    <3>2. Loaded' = {}
      BY <3>1 DEF NoTask, Loaded
    <3> QED
      BY <2>1, <2>2, <3>2, TaskTurns
  <2>3. CASE found # {}
    <3>1. PICK d \in found : task' = [task EXCEPT !.pc = "load", !.doc = d, !.todo = found \ {d}]
      BY <1>6, <2>3 DEF ListIndexed
    <3>2. /\ task'.pc = "load" /\ task'.doc = d /\ task'.todo = found \ {d} /\ task'.whole
      BY <1>1, <2>1, <3>1 DEF TaskTyped, Task
    <3>3. (Loaded' = {}) /\ \A e \in found : Due(e)'
      BY <3>2 DEF Loaded, Due, TaskAt
    <3> QED
      BY <2>1, <3>3, TaskTurns
  <2> QED
    BY <2>2, <2>3
<1>7. CASE LoadRows
  <2>1. UNCHANGED <<vars, broken>> /\ TaskAt("load") /\ met \subseteq met'
        /\ met' = met \cup (InWork' \cap Loaded') /\ task.doc \in Docs
    BY <1>1, <1>7 DEF LoadRows, Meet, TaskTyped, TaskAt
  <2>2. CASE status[task.doc] = "indexed"
    <3>1. task' = [task EXCEPT !.pc = "clear", !.rows = chunks[task.doc]]
      BY <1>7, <2>2 DEF LoadRows
    <3>2. /\ task'.pc = "clear" /\ task'.doc = task.doc /\ task'.rows = chunks[task.doc]
          /\ task'.todo = task.todo /\ task'.whole = task.whole
      BY <1>1, <3>1 DEF TaskTyped, Task
    <3>3. Loaded' = {task.doc}
      BY <2>1, <3>2 DEF Loaded
    <3>4. InWork' = InWork
      BY <2>1 DEF InWork, Holds, Busy
    <3>5. \A w \in Workers, d \in Docs : Holds(w, d) /\ Spared(d)' => d \notin Loaded'
      BY <2>1, <3>4 DEF Spared, InWork
    <3>6. ASSUME NEW d \in Docs PROVE TaskFills(d)'
      <4>1. d \in Loaded' /\ Spared(d)' => d = task.doc /\ Quiet(d)
        BY <2>1, <3>3 DEF Spared, Quiet
      <4>2. d \in Loaded' /\ Spared(d)' => CleanRows(d)'
        BY <1>2, <2>1, <2>2, <4>1 DEF RowsKept, CleanRows
      <4> QED
        BY <2>1, <3>2, <4>1, <4>2 DEF TaskFills
    <3>7. ASSUME NEW d \in Docs PROVE Rebuilt(d)'
      <4>1. Due(d) => Due(d)'
        BY <2>1, <3>2 DEF Due, TaskAt
      <4>2. Spared(d)' => Spared(d)
        BY <2>1 DEF Spared, Quiet
      <4> QED
        BY <1>2, <2>1, <4>1, <4>2 DEF Rebuilt
    <3> QED
      BY <2>1, <3>5, <3>6, <3>7, TaskMoves
  <2>3. CASE status[task.doc] # "indexed"
    <3>1. Onward
      BY <1>7, <2>3 DEF LoadRows
    <3>2. (Loaded' = {}) /\ \A d \in Docs : Due(d) => Due(d)' \/ d = task.doc
      BY <1>1, <2>1, <3>1, OnwardDue DEF TaskTyped
    <3> QED
      BY <2>1, <2>3, <3>2, TaskTurns
  <2> QED
    BY <2>2, <2>3
<1>8. CASE DropPoints
  <2>1. /\ UNCHANGED <<status, chunks, worker, request, scrubbed, overlapped, met, broken>>
        /\ task.pc = "clear" /\ task.doc \in Docs
        /\ task' = [task EXCEPT !.pc = "upsert"]
        /\ vectors' = [vectors EXCEPT ![task.doc] = {}]
    BY <1>1, <1>8 DEF DropPoints, TaskTyped, TaskAt
  <2>2. /\ task'.pc = "upsert" /\ task'.doc = task.doc /\ task'.rows = task.rows
        /\ task'.todo = task.todo /\ task'.whole = task.whole
        /\ vectors'[task.doc] = {} /\ \A d \in Docs \ {task.doc} : vectors'[d] = vectors[d]
    BY <1>1, <2>1 DEF TaskTyped, Task, TypeOK
  <2>3. Loaded' = {task.doc} /\ Loaded = {task.doc}
    BY <2>1, <2>2 DEF Loaded
  <2>4. \A d \in Docs : (Spared(d)' <=> Spared(d)) /\ (CleanRows(d)' <=> CleanRows(d))
    BY <2>1 DEF Spared, Quiet, CleanRows
  <2>5. \A w \in Workers, d \in Docs :
          Holds(w, d) /\ Spared(d)' => d \notin Loaded' /\ vectors'[d] = vectors[d]
    BY <1>3, <2>2, <2>3, <2>4
  <2>6. ASSUME NEW d \in Docs PROVE TaskFills(d)'
    BY <1>2, <2>1, <2>2, <2>3, <2>4 DEF TaskFills
  <2>7. ASSUME NEW d \in Docs PROVE Rebuilt(d)'
    <3>1. Due(task.doc)' /\ (d # task.doc /\ Due(d) => Due(d)')
      BY <2>1, <2>2 DEF Due, TaskAt
    <3> QED
      BY <1>2, <2>1, <2>2, <2>4, <3>1 DEF Rebuilt
  <2> QED
    BY <2>1, <2>5, <2>6, <2>7, TaskMoves
<1>9. CASE WritePoints
  <2>1. /\ UNCHANGED <<status, chunks, worker, request, scrubbed, overlapped, met>>
        /\ task.pc = "upsert" /\ task.doc \in Docs
        /\ broken' = broken \ {task.doc}
        /\ task' = [task EXCEPT !.pc = "stamp"]
        /\ vectors' = [vectors EXCEPT ![task.doc] = @ \cup task.rows]
    BY <1>1, <1>9 DEF WritePoints, TaskTyped, TaskAt
  <2>2. /\ task'.pc = "stamp" /\ task'.doc = task.doc
        /\ task'.todo = task.todo /\ task'.whole = task.whole
        /\ vectors'[task.doc] = vectors[task.doc] \cup task.rows
        /\ \A d \in Docs \ {task.doc} : vectors'[d] = vectors[d]
    BY <1>1, <2>1 DEF TaskTyped, Task, TypeOK
  <2>3. Loaded' = {} /\ Loaded = {task.doc}
    BY <2>1, <2>2 DEF Loaded
  <2>4. \A d \in Docs : Spared(d)' <=> Spared(d)
    BY <2>1 DEF Spared, Quiet
  <2>5. \A w \in Workers, d \in Docs :
          Holds(w, d) /\ Spared(d)' => d \notin Loaded' /\ vectors'[d] = vectors[d]
    BY <1>3, <2>2, <2>3, <2>4
  <2>6. ASSUME NEW d \in Docs PROVE TaskFills(d)'
    BY <2>3 DEF TaskFills
  <2>7. ASSUME NEW d \in Docs PROVE Rebuilt(d)'
    <3>1. Spared(task.doc) => vectors'[task.doc] = chunks[task.doc]
      BY <1>2, <2>1, <2>2, <2>3 DEF TaskFills
    <3>2. d # task.doc /\ Due(d) => Due(d)'
      BY <2>1, <2>2 DEF Due, TaskAt
    <3> QED
      BY <1>2, <2>1, <2>2, <2>4, <3>1, <3>2 DEF Rebuilt
  <2> QED
    BY <2>1, <2>5, <2>6, <2>7, TaskMoves
<1>10. CASE Stamp
  <2>1. /\ UNCHANGED <<status, chunks, vectors, worker, request, scrubbed, overlapped, met, broken>>
        /\ TaskAt("stamp") /\ Onward
    BY <1>10 DEF Stamp
  <2>2. (Loaded' = {}) /\ \A d \in Docs : Due(d) => Due(d)'
    BY <1>1, <2>1, OnwardDue DEF TaskTyped, TaskAt
  <2> QED
    BY <2>1, <2>2, TaskTurns
<1>11. CASE TaskFails
  <2>1. /\ UNCHANGED <<status, chunks, vectors, worker, request, scrubbed, overlapped, met>>
        /\ broken' = broken \cup {d \in Docs : Due(d)}
    BY <1>11 DEF TaskFails
  <2>2. task'.pc \in {"idle", "recreate", "load"}
    <3>1. CASE task' = NoTask
      BY <3>1 DEF NoTask
    <3>2. CASE task' = [NoTask EXCEPT !.pc = "recreate", !.whole = TRUE]
      BY <3>2 DEF NoTask
    <3>3. CASE task' = [NoTask EXCEPT !.pc = "load", !.doc = task.doc]
      BY <3>3 DEF NoTask
    <3> QED
      BY <1>11, <3>1, <3>2, <3>3 DEF TaskFails
  <2>3. Loaded' = {}
    BY <2>2 DEF Loaded
  <2> QED
    BY <2>1, <2>3, TaskTurns
<1> QED
  BY <1>4, <1>5, <1>6, <1>7, <1>8, <1>9, <1>10, <1>11 DEF MaintenanceStep

\* For any number of documents and workers, and whatever is uploaded, processed, retried
\* or deleted meanwhile, a rebuild gives back what it takes: an indexed document that no
\* task is about to fill has the rows and points of exactly one run, unless a worker was
\* at it when the collection went or while the task held its rows, two runs overlapped, a
\* delete took it, or the task failed (reembed.py:105-118).
THEOREM RebuiltAlwaysSearchable == ReembedSpec => []RebuiltIsSearchable
<1>1. ReembedInit => RebuildInv
  BY DEF ReembedInit, Init, RebuildInv, DeletesAnnounced, IdleRequest, IdleWorker, RunInv,
      RunHolds, RunFills, Holds, Busy, DocInv, RowsKept, TaskFills, Rebuilt, Loaded, NoTask
<1>2. ReembedTypeOK /\ RebuildInv /\ [ReembedNext]_allVars => RebuildInv'
  <2> SUFFICES ASSUME ReembedTypeOK, RebuildInv, [ReembedNext]_allVars PROVE RebuildInv'
    OBVIOUS
  <2>1. CASE IngestionStep
    BY <2>1, IngestionRebuild DEF ReembedTypeOK
  <2>2. CASE MaintenanceStep
    BY <2>2, MaintenanceRebuild
  <2>3. CASE UNCHANGED allVars
    BY <2>3, RunsRest
    DEF allVars, maintenance, vars, rows, stores, history, RebuildInv, DeletesAnnounced
  <2> QED
    BY <2>1, <2>2, <2>3 DEF ReembedNext
<1>3. RebuildInv => RebuiltIsSearchable
  BY DEF RebuildInv, DocInv, RowsKept, Rebuilt, RebuiltIsSearchable, OneCleanResult,
      CleanRows, Spared, Quiet
<1> QED
  BY <1>1, <1>2, <1>3, ReembedInitType, ReembedTypeStep, PTL DEF ReembedSpec
=============================================================================
