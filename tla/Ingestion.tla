------------------------------ MODULE Ingestion ------------------------------
(***************************************************************************)
(* Document ingestion end to end: API requests, the outbox relay, the      *)
(* sweep, the broker and the pipeline workers acting on shared stores.     *)
(***************************************************************************)
EXTENDS DocumentApi, IngestWorker, Dispatch

Init ==
  /\ status  = [d \in Docs |-> "unborn"]
  /\ chunks  = [d \in Docs |-> {}]
  /\ vectors = [d \in Docs |-> {}]
  /\ objects = {}
  /\ outbox  = {}
  /\ relay   = [k \in Relays |-> IdleRelay]
  /\ queue   = [m \in Messages |-> 0]
  /\ stale   = {}
  /\ worker  = [w \in Workers |-> IdleWorker]
  /\ request = [q \in Requests |-> IdleRequest]
  /\ scrubbed = {} /\ overlapped = {} /\ lost = {}
  /\ faults  = 0

Next ==
  \/ \E q \in Requests : ApiStep(q)
  \/ \E d \in Docs : UpdateLanguage(d)
  \/ \E w \in Workers : WorkerStep(w)
  \/ DispatchStep

Spec == Init /\ [][Next]_vars

(***************************************************************************)
(* Fairness.  Celery keeps a worker with a message running; the broker     *)
(* hands messages out first in, first out, so none is overtaken for ever   *)
(* however often users retry other documents; beat fires the relay and the *)
(* sweep for ever; time passes.  Nothing makes a user send a request or an *)
(* API process finish one, and no failure has to happen.                   *)
(***************************************************************************)
Fairness ==
  /\ \A w \in Workers : WF_vars(WorkerRun(w))
  /\ \A m \in Messages : SF_vars(\E w \in Workers : Receive(w, m[1], m[2]))
  /\ \A k \in Relays : WF_vars(RelayRun(k))
  /\ WF_vars(Sweep)
  /\ \A d \in Docs : WF_vars(Age(d))

FairSpec == Spec /\ Fairness

-----------------------------------------------------------------------------
\* A chunk row never outlives its document, whatever a delete and a run in
\* their terminal transactions do to each other (pipeline.py, document_service.py).
ChunksHaveDocument == \A d \in Docs : chunks[d] # {} => Live(d)

\* An indexed document with text has chunk rows, also while other runs of it
\* are replacing them.
IndexedHasChunks ==
  \A d \in Docs :
    status[d] = "indexed" /\ Content[d] \notin Blank => chunks[d] # {}

\* Runs of d that never overlapped leave one clean result: the rows and the
\* points of an indexed document are exactly those of one run, through any
\* number of failures, crashes and redeliveries (pipeline.py:9-17).
OneCleanResult(d) ==
  IF Content[d] \in Blank
  THEN chunks[d] = {} /\ vectors[d] = {}
  ELSE \E r \in Runs : chunks[d] = {r} /\ vectors[d] = {r}

IndexedIsSearchable ==
  \A d \in Docs :
    status[d] = "indexed" /\ d \notin overlapped \cup scrubbed => OneCleanResult(d)

\* Work still on its way for d: an event no open relay transaction has
\* dispatched, a queued message, or a worker.
WorkComing(d) ==
  \/ \E e \in outbox : /\ e.type = "uploaded" /\ e.doc = d
                        /\ \A k \in Relays : e \notin relay[k].done
  \/ \E n \in 0..MaxRetries : queue[<<d, n>>] > 0
  \/ \E w \in Workers : Holds(w, d)

\* A document that is pending or processing always has work coming, unless a
\* message of it was lost and the sweep has not replaced it yet.
UnfinishedHasWork ==
  \A d \in Docs : status[d] \in Unfinished => WorkComing(d) \/ d \in lost

\* A user never has two documents with the same bytes, however uploads race.
OneDocumentPerContent ==
  \A d, e \in Docs :
    Live(d) /\ Live(e) /\ Content[d] = Content[e] => d = e

\* Every accepted document comes to rest: indexed, failed or deleted.
EveryDocumentSettles ==
  \A d \in Docs : status[d] \in Unfinished ~> status[d] \notin Unfinished

-----------------------------------------------------------------------------
\* What retrieval can return of d: a point counts only if its chunk row exists
\* (RetrievalService._hydrate drops the others).
Visible(d) ==
  IF chunks[d] \cap vectors[d] = {} THEN "none"
  ELSE IF chunks[d] \subseteq vectors[d] THEN "all" ELSE "part"

Life(d) ==
  CASE status[d] = "unborn"     -> "absent"
    [] status[d] \in Unfinished -> "waiting"
    [] status[d] = "indexed"    -> "ready"
    [] status[d] = "failed"     -> "failed"
    [] status[d] = "deleted"    -> "removed"

SameBytes(d, e) == Content[d] = Content[e]

Lifecycle == INSTANCE DocumentLifecycle WITH
  SameContent <- SameBytes,
  life        <- [d \in Docs |-> Life(d)],
  visible     <- [d \in Docs |-> Visible(d)],
  removing    <- scrubbed

\* With one worker, ingestion of documents with text is the lifecycle its users
\* are promised, unless a retry commits after a redelivered run has made its
\* document ready.
ImplementsLifecycle == Lifecycle!Spec

-----------------------------------------------------------------------------
\* sweep.py:15 and pipeline.py:12: re-enqueuing a document still in flight is
\* harmless, and no run leaves it indexed with missing vectors: once nothing
\* has it in hand, an indexed document has the points of its chunk rows.
IndexedHasVectors ==
  \A d \in Docs \ scrubbed :
    status[d] = "indexed" /\ ~InHand(d) => chunks[d] \subseteq vectors[d]

\* ingestion_service.py:160: the original bytes of a document nobody asked to
\* delete are in object storage.
OriginalIsStored ==
  \A d \in Docs \ scrubbed : Live(d) => Content[d] \in objects
=============================================================================
