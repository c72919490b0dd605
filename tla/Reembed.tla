------------------------------ MODULE Reembed ------------------------------
(***************************************************************************)
(* Re-embedding next to ingestion: one maintenance task that replaces the  *)
(* points of an indexed document from its chunk rows, or that drops the    *)
(* whole collection and then does so for every indexed document.  It takes *)
(* no claim on a document and is not retried when it fails.                *)
(*                                                                         *)
(* Abstractions.  The chunk rows a task holds are the runs they are of, as *)
(* in IngestionState; a document has fewer rows than list_by_document      *)
(* returns at most.  Points of the old model and of the new one are told   *)
(* apart by nothing but their being there.                                 *)
(***************************************************************************)
EXTENDS Ingestion

VARIABLES
  task,    \* the maintenance task
  met,     \* history: documents a worker held at the recreation, or between load and write
  broken   \* history: documents whose points a task dropped and did not replace

maintenance == <<task, met, broken>>
allVars     == <<vars, maintenance>>

-----------------------------------------------------------------------------
Task ==
  [pc    : {"idle", "recreate", "list", "load", "clear", "upsert", "stamp"},
   whole : BOOLEAN,               \* reembed_all
   doc   : Docs \cup {NoDoc},     \* the document in hand
   rows  : SUBSET Runs,           \* its chunk rows, as they were loaded
   todo  : SUBSET Docs]           \* documents still to come
NoTask == [pc |-> "idle", whole |-> FALSE, doc |-> NoDoc, rows |-> {}, todo |-> {}]

TaskAt(pc) == task.pc = pc

\* The document whose rows the task holds and has not written yet, and those that
\* workers are at; it is noted where the two meet.
Loaded == {d \in Docs : task.doc = d /\ task.pc \in {"clear", "upsert"}}
InWork == {d \in Docs : \E w \in Workers : Holds(w, d)}
Meet   == met' = met \cup (InWork' \cap Loaded')

\* Variant with a bug: the last document of the list is left out.
OnwardShort ==
  \/ Cardinality(task.todo) <= 1 /\ task' = NoTask
  \/ \E d \in task.todo :
       /\ Cardinality(task.todo) > 1
       /\ task' = [task EXCEPT !.pc = "load", !.doc = d, !.rows = {}, !.todo = @ \ {d}]

\* The next document of the list, in any order, or the end.
Onward ==
  \/ task.todo = {} /\ task' = NoTask
  \/ \E d \in task.todo :
       task' = [task EXCEPT !.pc = "load", !.doc = d, !.rows = {}, !.todo = @ \ {d}]

\* An operator enqueues one document, or the whole corpus.
StartOne(d) ==
  /\ TaskAt("idle") /\ status[d] # "unborn"
  /\ task' = [NoTask EXCEPT !.pc = "load", !.doc = d]
  /\ UNCHANGED <<vars, met, broken>>

StartAll ==
  /\ TaskAt("idle")
  /\ task' = [NoTask EXCEPT !.pc = "recreate", !.whole = TRUE]
  /\ UNCHANGED <<vars, met, broken>>

\* Drop the collection and create it empty.
Recreate ==
  /\ TaskAt("recreate")
  /\ vectors' = [d \in Docs |-> {}]
  /\ met' = met \cup InWork
  /\ task' = [task EXCEPT !.pc = "list"]
  /\ UNCHANGED <<rows, objects, transit, stale, worker, request, history, broken>>

ListIndexed ==
  /\ TaskAt("list")
  /\ LET found == {d \in Docs : status[d] = "indexed"} IN
     IF found = {} THEN task' = NoTask
     ELSE \E d \in found :
            task' = [task EXCEPT !.pc = "load", !.doc = d, !.todo = found \ {d}]
  /\ UNCHANGED <<vars, met, broken>>

\* Read the document and its rows, then embed; one not indexed is passed over.
LoadRows ==
  /\ TaskAt("load")
  /\ IF status[task.doc] = "indexed"
       THEN task' = [task EXCEPT !.pc = "clear", !.rows = chunks[task.doc]]
     ELSE Onward
  /\ UNCHANGED <<vars, broken>>
  /\ Meet

\* Drop the points of the document, then write the new ones.
DropPoints ==
  /\ TaskAt("clear")
  /\ vectors' = [vectors EXCEPT ![task.doc] = {}]
  /\ task' = [task EXCEPT !.pc = "upsert"]
  /\ UNCHANGED <<rows, objects, transit, stale, worker, request, history, met, broken>>

WritePoints ==
  /\ TaskAt("upsert")
  /\ vectors' = [vectors EXCEPT ![task.doc] = @ \cup task.rows]
  /\ task' = [task EXCEPT !.pc = "stamp"]
  /\ broken' = broken \ {task.doc}
  /\ UNCHANGED <<rows, objects, transit, stale, worker, request, history, met>>

\* Stamp embed_model, which moves updated_at when the model changed; nothing if
\* the document has gone.
Stamp ==
  /\ TaskAt("stamp")
  /\ IF Live(task.doc) THEN stale' \in {stale, stale \ {task.doc}} ELSE stale' = stale
  /\ Onward
  /\ UNCHANGED <<rows, stores, transit, worker, request, history, met, broken>>

\* Documents this task has emptied, or is about to fill.
Due(d) ==
  \/ TaskAt("list")
  \/ task.whole /\ ~TaskAt("recreate") /\ (d \in task.todo \/ (d = task.doc /\ ~TaskAt("stamp")))
  \/ TaskAt("upsert") /\ d = task.doc

\* A store or the embedder fails: the task ends there.  Or the process dies: the
\* message comes back and the task begins again.
TaskFails ==
  /\ ~TaskAt("idle") /\ Fault
  /\ broken' = broken \cup {d \in Docs : Due(d)}
  /\ \/ task' = NoTask
     \/ task.whole /\ task' = [NoTask EXCEPT !.pc = "recreate", !.whole = TRUE]
     \/ ~task.whole /\ task' = [NoTask EXCEPT !.pc = "load", !.doc = task.doc]
  /\ UNCHANGED <<rows, stores, transit, stale, worker, request, scrubbed, overlapped, lost, met>>

MaintenanceStep ==
  \/ \E d \in Docs : StartOne(d)
  \/ StartAll \/ Recreate \/ ListIndexed
  \/ LoadRows \/ DropPoints \/ WritePoints \/ Stamp \/ TaskFails

ReembedInit == Init /\ task = NoTask /\ met = {} /\ broken = {}

\* Requests, workers, relays and the sweep go on meanwhile.
IngestionStep == Next /\ UNCHANGED <<task, broken>> /\ Meet

ReembedNext == IngestionStep \/ MaintenanceStep

ReembedSpec == ReembedInit /\ [][ReembedNext]_allVars

-----------------------------------------------------------------------------
ReembedTypeOK ==
  /\ TypeOK
  /\ task \in Task /\ met \subseteq Docs /\ broken \subseteq Docs
  /\ TaskAt("idle") => task = NoTask
  /\ task.pc \in {"recreate", "list"} => task.whole
  /\ task.pc \in {"load", "clear", "upsert", "stamp"} => task.doc \in Docs

\* Re-embedding gives back what it takes: an indexed document that no task is about to
\* fill has the points of exactly one run, its own rows', whatever was uploaded,
\* processed, retried or deleted meanwhile (reembed.py:105-118), unless a worker was at
\* that very document when the collection went or while the task held its rows, a
\* delete took it, or the task failed.
RebuiltIsSearchable ==
  \A d \in Docs \ (overlapped \cup scrubbed \cup met \cup broken) :
    status[d] = "indexed" /\ ~Due(d) => OneCleanResult(d)
=============================================================================
