------------------------------ MODULE Dispatch ------------------------------
(***************************************************************************)
(* Everything that moves work towards the workers without doing it: the    *)
(* outbox relay and the stuck-document sweep, whose ticks Celery beat      *)
(* enqueues for any worker, the broker, and the passing of time.           *)
(***************************************************************************)
EXTENDS IngestionState

\* Bound: new messages of d are accepted while fewer than MaxCopies of each wait.
QueueRoom(d) == \A n \in 0..MaxRetries : queue[<<d, n>>] < MaxCopies

\* A relay transaction reads one batch.  A tick is a task any worker may run,
\* and the read takes no lock: ticks that overlap read the same events.
RelayFetch(k) ==
  /\ relay[k] = IdleRelay
  /\ \E batch \in SUBSET outbox :
       /\ batch # {}
       /\ batch = outbox \/ Cardinality(batch) = BatchSize
       /\ Cardinality(batch) <= BatchSize
       /\ relay' = [relay EXCEPT ![k].todo = batch]
  /\ UNCHANGED <<rows, stores, outbox, queue, stale, worker, request, history>>

\* One event of the batch: an upload becomes a task, others have no consumer.
RelayDispatch(k) ==
  \E e \in relay[k].todo :
    /\ \/ /\ e.type = "uploaded"
          /\ QueueRoom(e.doc)
          /\ Enqueue(<<e.doc, 0>>)
       \/ /\ e.type # "uploaded"
          /\ UNCHANGED queue
    /\ relay' = [relay EXCEPT ![k].todo = @ \ {e}, ![k].done = @ \cup {e}]
    /\ UNCHANGED <<rows, stores, outbox, stale, worker, request, history>>

\* Variant with a bug: the stamps commit before the events are dispatched.
RelayCommitEarly(k) ==
  /\ relay[k] # IdleRelay
  /\ outbox' = outbox \ (relay[k].todo \cup relay[k].done)
  /\ relay'  = [relay EXCEPT ![k] = IdleRelay]
  /\ UNCHANGED <<rows, stores, queue, stale, worker, request, history>>

\* The stamps of the whole batch commit once every event is dispatched.
RelayCommit(k) ==
  /\ relay[k].todo = {} /\ relay[k].done # {}
  /\ outbox' = outbox \ relay[k].done
  /\ relay'  = [relay EXCEPT ![k] = IdleRelay]
  /\ UNCHANGED <<rows, stores, queue, stale, worker, request, history>>

\* A relay dies or a dispatch raises: what it sent stays sent, nothing is
\* stamped, and a later tick starts over.
RelayCrash(k) ==
  /\ relay[k] # IdleRelay
  /\ Fault
  /\ relay' = [relay EXCEPT ![k] = IdleRelay]
  /\ UNCHANGED <<rows, stores, outbox, queue, stale, worker, request,
                 scrubbed, overlapped, lost>>

\* Some event, message or worker still has d in hand.
InHand(d) ==
  \/ \E e \in outbox : e.type = "uploaded" /\ e.doc = d
  \/ \E n \in 0..MaxRetries : queue[<<d, n>>] > 0
  \/ \E w \in Workers : Holds(w, d)

\* ingest_stuck_threshold_seconds pass without an UPDATE of the row.
Age(d) ==
  /\ status[d] \in Unfinished
  /\ d \notin stale
  /\ PatientSweep => ~InHand(d)
  /\ stale' = stale \cup {d}
  /\ UNCHANGED <<rows, stores, transit, worker, request, history>>

\* Variant with a bug: a document whose worker vanished is not looked for.
SweepPendingOnly ==
  LET stuck == {d \in stale : status[d] = "pending"} IN
  /\ stuck # {}
  /\ \A d \in stuck : QueueRoom(d)
  /\ queue' = [m \in Messages |->
                 IF m[1] \in stuck /\ m[2] = 0 THEN queue[m] + 1 ELSE queue[m]]
  /\ lost' = lost \ stuck
  /\ UNCHANGED <<rows, stores, outbox, relay, stale, worker, request,
                 scrubbed, overlapped, faults>>

\* One tick: every stale unfinished document gets a new message.  The rows are
\* not updated, so the next tick finds them again.
Sweep ==
  LET stuck == {d \in stale : status[d] \in Unfinished} IN
  /\ stuck # {}
  /\ \A d \in stuck : QueueRoom(d)
  /\ queue' = [m \in Messages |->
                 IF m[1] \in stuck /\ m[2] = 0 THEN queue[m] + 1 ELSE queue[m]]
  /\ lost' = lost \ stuck
  /\ UNCHANGED <<rows, stores, outbox, relay, stale, worker, request,
                 scrubbed, overlapped, faults>>

\* The broker restarts without a message it had accepted.
LoseMessage(m) ==
  /\ queue[m] > 0
  /\ Fault
  /\ queue' = [queue EXCEPT ![m] = @ - 1]
  /\ lost'  = lost \cup {m[1]}
  /\ UNCHANGED <<rows, stores, outbox, relay, stale, worker, request,
                 scrubbed, overlapped>>

\* The visibility timeout of a message expires while its worker is still busy.
Redeliver(w) ==
  /\ Busy(w)
  /\ Fault
  /\ Enqueue(<<worker[w].doc, worker[w].tries>>)
  /\ UNCHANGED <<rows, stores, outbox, relay, stale, worker, request,
                 scrubbed, overlapped, lost>>

RelayRun(k) == RelayFetch(k) \/ RelayDispatch(k) \/ RelayCommit(k)

DispatchStep ==
  \/ \E k \in Relays : RelayRun(k) \/ RelayCrash(k)
  \/ Sweep
  \/ \E d \in Docs : Age(d)
  \/ \E m \in Messages : LoseMessage(m)
  \/ \E w \in Workers : Redeliver(w)
=============================================================================
