------------------------------ MODULE EvalRuns ------------------------------
(***************************************************************************)
(* Evaluation runs: an admin or the CLI commits a pending row, a Celery    *)
(* task of the eval worker scores the dataset case by case and commits the *)
(* outcome, and a sweep re-enqueues rows that have not ended.  All runs    *)
(* share one system user, its fixture document (rows and vectors) and that *)
(* user's one reading-progress row.                                        *)
(*                                                                         *)
(* Abstractions.                                                           *)
(*   - One dataset with one fixture document.  A case is the page it sets  *)
(*     before it asks, or Whole when it asks about the whole document.     *)
(*   - A case's scores are what they were measured against: the page bound *)
(*     the retrieval used and whether it searched the fixture's vectors.   *)
(*   - updated_at is left out: an open row may be past the threshold of    *)
(*     the sweep at any time, as a dataset may take longer to score.       *)
(***************************************************************************)
EXTENDS Naturals, Sequences, FiniteSets

CONSTANTS
  Evals,      \* evaluation_runs ids
  Workers,    \* processes of the eval worker
  Clis,       \* "python -m api.evaluation.run --sync" processes
  Cases,      \* the dataset: its cases' current_page, or Whole
  Whole,      \* a case without current_page
  NoEval,     \* no run
  MaxCopies,  \* bound: copies of a message the sweep may add to
  MaxFaults   \* bound: failures injected by the environment

Executors == Workers \cup Clis
NoPage    == 0     \* the eval user has no progress row

ASSUME CaseAssumption ==
  Cases \in Seq((Nat \ {NoPage}) \cup {Whole}) /\ Cases # <<>> /\ Whole \notin Nat
ASSUME NoneAssumption == NoEval \notin Evals /\ Workers \cap Clis = {}
ASSUME BoundAssumption == MaxCopies \in Nat /\ MaxFaults \in Nat

VARIABLES
  row,        \* evaluation_runs: status, scored cases, whether error is set
  accepted,   \* rows committed whose message is not sent yet
  queue,      \* copies of the message of each run
  seeded,     \* the system user and the fixture rows are committed
  points,     \* the fixture's vectors are in the collection
  page,       \* current_page of the fixture document, or NoPage
  job,        \* what each executor is doing
  overlapped, \* history: runs that two executors held at once
  crowded,    \* history: runs executed next to another execution
  hit,        \* history: runs a failure reached while they were executed
  wiped,      \* history: runs under way when the collection was emptied
  faults      \* history: failures injected so far

history == <<overlapped, crowded, hit, wiped, faults>>
fixture == <<seeded, points, page>>
vars    == <<row, accepted, queue, fixture, job, history>>

-----------------------------------------------------------------------------
Open    == {"pending", "running"}
Ended   == {"completed", "failed"}
Pages   == {Cases[i] : i \in DOMAIN Cases} \ {Whole}
Score   == [bound : Pages \cup {NoPage, Whole}, searched : BOOLEAN]
Row     == [status : Open \cup Ended \cup {"absent"}, cases : Seq(Score), error : BOOLEAN]
JobPC   == {"idle", "claim", "look", "insert", "seed", "case", "write", "score",
            "commit", "fail", "hook"}
Job     == [pc : JobPC, run : Evals \cup {NoEval}, local : Pages \cup {NoPage},
            done : Seq(Score), error : BOOLEAN]
IdleJob == [pc |-> "idle", run |-> NoEval, local |-> NoPage, done |-> <<>>, error |-> FALSE]

Busy(w)      == job[w].pc # "idle"
At(w, pc)    == job[w].pc = pc
Step(w, pc)  == job' = [job EXCEPT ![w].pc = pc]
Mine(w)      == row[job[w].run]
Question(w)     == Cases[Len(job[w].done) + 1]     \* the case w is at

Stop(w) == job' = [job EXCEPT ![w] = IdleJob]

Fault == faults < MaxFaults /\ faults' = faults + 1

Update(r, new) == row' = [row EXCEPT ![r] = new]

-----------------------------------------------------------------------------
\* POST /evaluations/run, or the CLI without --sync: the pending row is committed.
EnqueueRun(r) ==
  /\ row[r].status = "absent"
  /\ row' = [row EXCEPT ![r].status = "pending"]
  /\ accepted' = accepted \cup {r}
  /\ UNCHANGED <<queue, fixture, job, history>>

\* Then its message is sent.
Dispatch(r) ==
  /\ r \in accepted
  /\ accepted' = accepted \ {r}
  /\ queue' = [queue EXCEPT ![r] = @ + 1]
  /\ UNCHANGED <<row, fixture, job, history>>

\* The broker is down, which is logged only, or the process dies before it sends.
DispatchFails(r) ==
  /\ r \in accepted
  /\ Fault
  /\ accepted' = accepted \ {r}
  /\ UNCHANGED <<row, queue, fixture, job, overlapped, crowded, hit, wiped>>

\* An executor takes up r, having loaded its row.
Start(w, r) ==
  /\ job' = [job EXCEPT ![w] = [IdleJob EXCEPT
       !.pc    = IF row[r].status = "running" THEN "look" ELSE "claim",
       !.run   = r,
       !.error = row[r].error]]
  /\ LET others == {v \in Executors : Busy(v)} IN
       /\ overlapped' = overlapped \cup {q \in {r} : \E v \in others : job[v].run = r}
       /\ crowded' = IF others = {} THEN crowded
                     ELSE crowded \cup {r} \cup {job[v].run : v \in others}

\* The CLI with --sync commits a pending row and executes it itself.
SyncRun(c, r) ==
  /\ At(c, "idle")
  /\ row[r].status = "absent"
  /\ row' = [row EXCEPT ![r].status = "pending"]
  /\ Start(c, r)
  /\ UNCHANGED <<accepted, queue, fixture, hit, wiped, faults>>

\* Variant with a bug: a run that has ended is executed again.
ReceiveEnded(w, r) ==
  /\ At(w, "idle")
  /\ queue[r] > 0
  /\ queue' = [queue EXCEPT ![r] = @ - 1]
  /\ Start(w, r)
  /\ UNCHANGED <<row, accepted, fixture, hit, wiped, faults>>

\* A worker takes the message of r.  A run that has ended is skipped.  One that
\* is running needs no UPDATE: the ORM sees no change.
Receive(w, r) ==
  /\ At(w, "idle")
  /\ queue[r] > 0
  /\ queue' = [queue EXCEPT ![r] = @ - 1]
  /\ \/ row[r].status \in Open /\ Start(w, r)
     \/ row[r].status \in Ended /\ UNCHANGED <<job, overlapped, crowded>>
  /\ UNCHANGED <<row, accepted, fixture, hit, wiped, faults>>

\* Commit "running", whatever the row says by now.
Claim(w) ==
  /\ At(w, "claim")
  /\ Update(job[w].run, [Mine(w) EXCEPT !.status = "running"])
  /\ Step(w, "look")
  /\ UNCHANGED <<accepted, queue, fixture, history>>

\* Variant with a bug: every run inserts the user and the fixture.
LookNever(w) ==
  /\ At(w, "look")
  /\ Step(w, "insert")
  /\ UNCHANGED <<row, accepted, queue, fixture, history>>

\* No system user yet: this run will insert it with the fixture.
LookMissing(w) ==
  /\ At(w, "look")
  /\ ~seeded
  /\ Step(w, "insert")
  /\ UNCHANGED <<row, accepted, queue, fixture, history>>

\* The fixture rows exist: its vectors are upserted again.
Reindex(w) ==
  /\ At(w, "look")
  /\ seeded
  /\ points' = TRUE
  /\ Step(w, "case")
  /\ UNCHANGED <<row, accepted, queue, seeded, page, history>>

\* INSERT user and fixture, whose ids are the same for every run.  It waits
\* for an open transaction that has inserted them.
Insert(w) ==
  /\ At(w, "insert")
  /\ \A v \in Executors : ~At(v, "seed")
  /\ Step(w, IF seeded THEN "fail" ELSE "seed")
  /\ UNCHANGED <<row, accepted, queue, fixture, history>>

\* Upsert the vectors, then commit the rows.
Seed(w) ==
  /\ At(w, "seed")
  /\ points' = TRUE
  /\ seeded' = TRUE
  /\ Step(w, "case")
  /\ UNCHANGED <<row, accepted, queue, page, history>>

-----------------------------------------------------------------------------
\* A case with a page loads the progress row first.
ReadPosition(w) ==
  /\ At(w, "case") /\ Question(w) # Whole
  /\ job' = [job EXCEPT ![w].pc = "write", ![w].local = page]
  /\ UNCHANGED <<row, accepted, queue, fixture, history>>

\* Variant with a bug: the position never goes back.
WriteForward(w) ==
  /\ At(w, "write")
  /\ page' = IF job[w].local < Question(w) THEN Question(w) ELSE page
  /\ Step(w, "score")
  /\ UNCHANGED <<row, accepted, queue, seeded, points, history>>

\* record_position.  A second INSERT of the row violates its unique key; an
\* UPDATE is sent only if the page differs from the one that was loaded.
WritePosition(w) ==
  /\ At(w, "write")
  /\ IF job[w].local = NoPage /\ page # NoPage
     THEN Step(w, "fail") /\ UNCHANGED page
     ELSE /\ page' = IF job[w].local = Question(w) THEN page ELSE Question(w)
          /\ Step(w, "score")
  /\ UNCHANGED <<row, accepted, queue, seeded, points, history>>

\* Retrieve, ask the agent, judge the answer.  The bound is read anew.
ScoreCase(w) ==
  /\ At(w, "score") \/ (At(w, "case") /\ Question(w) = Whole)
  /\ LET score == [bound    |-> IF Question(w) = Whole THEN Whole ELSE page,
                   searched |-> points]
         done  == Append(job[w].done, score)
     IN job' = [job EXCEPT
          ![w].done  = done,
          ![w].pc    = IF Len(done) = Len(Cases) THEN "commit" ELSE "case"]
  /\ UNCHANGED <<row, accepted, queue, fixture, history>>

\* Variant with a bug: status and scores are committed one after the other.
CompleteFirst(w) ==
  /\ At(w, "commit")
  /\ Update(job[w].run, [Mine(w) EXCEPT !.status = "completed"])
  /\ Stop(w)
  /\ UNCHANGED <<accepted, queue, fixture, history>>

\* Commit the scores.  error is set to NULL, which is sent only if it was not
\* NULL when the row was loaded.
Complete(w) ==
  /\ At(w, "commit")
  /\ Update(job[w].run,
       [status |-> "completed", cases |-> job[w].done,
        error  |-> IF job[w].error THEN FALSE ELSE Mine(w).error])
  /\ Stop(w)
  /\ UNCHANGED <<accepted, queue, fixture, history>>

\* Roll back, load the row again and commit the failure.
Fail(w) ==
  /\ At(w, "fail")
  /\ Update(job[w].run, [status |-> "failed", cases |-> <<>>, error |-> TRUE])
  /\ Stop(w)
  /\ UNCHANGED <<accepted, queue, fixture, history>>

\* on_failure, in a session of its own: only a run that has not ended fails.
MarkFailed(w) ==
  /\ At(w, "hook")
  /\ IF Mine(w).status \in Ended
     THEN UNCHANGED row
     ELSE Update(job[w].run, [Mine(w) EXCEPT !.status = "failed", !.error = TRUE])
  /\ Stop(w)
  /\ UNCHANGED <<accepted, queue, fixture, history>>

-----------------------------------------------------------------------------
\* A store or a model fails while the dataset is scored.
CaseRaises(w) ==
  /\ job[w].pc \in {"look", "insert", "seed", "case", "write", "score"}
  /\ Fault
  /\ hit' = hit \cup {job[w].run}
  /\ Step(w, "fail")
  /\ UNCHANGED <<row, accepted, queue, fixture, overlapped, crowded, wiped>>

\* The database fails outside of that: the task raises, and Celery calls its
\* hook; the CLI just ends.
CommitRaises(w) ==
  /\ job[w].pc \in {"claim", "commit", "fail"}
  /\ Fault
  /\ hit' = hit \cup {job[w].run}
  /\ IF w \in Workers THEN Step(w, "hook") ELSE Stop(w)
  /\ UNCHANGED <<row, accepted, queue, fixture, overlapped, crowded, wiped>>

\* The process dies, or the hook fails too.  A message that was not
\* acknowledged comes back, unless the loss of the child counts as one.
Crash(w) ==
  /\ Busy(w)
  /\ Fault
  /\ Stop(w)
  /\ \/ UNCHANGED queue
     \/ /\ w \in Workers
        /\ queue' = [queue EXCEPT ![job[w].run] = @ + 1]
  /\ UNCHANGED <<row, accepted, fixture, overlapped, crowded, hit, wiped>>

\* The broker hands a message out again, or restarts without it.
Redeliver(w) ==
  /\ w \in Workers /\ Busy(w)
  /\ Fault
  /\ queue' = [queue EXCEPT ![job[w].run] = @ + 1]
  /\ UNCHANGED <<row, accepted, fixture, job, overlapped, crowded, hit, wiped>>

LoseMessage(r) ==
  /\ queue[r] > 0
  /\ Fault
  /\ queue' = [queue EXCEPT ![r] = @ - 1]
  /\ UNCHANGED <<row, accepted, fixture, job, overlapped, crowded, hit, wiped>>

\* The collection is dropped and recreated (another embedding model).
WipeVectors ==
  /\ points
  /\ Fault
  /\ points' = FALSE
  /\ wiped' = wiped \cup {job[w].run : w \in {v \in Executors : Busy(v)}}
  /\ UNCHANGED <<row, accepted, queue, seeded, page, job, overlapped, crowded, hit>>

\* Variant with a bug: only running rows count as stuck.
SweepRunning(r) ==
  /\ row[r].status = "running"
  /\ queue[r] < MaxCopies
  /\ queue' = [queue EXCEPT ![r] = @ + 1]
  /\ UNCHANGED <<row, accepted, fixture, job, history>>

\* A tick of the sweep re-enqueues an open row past the threshold.  It finds it
\* at every tick, as taking up a running row again does not touch updated_at.
Sweep(r) ==
  /\ row[r].status \in Open
  /\ queue[r] < MaxCopies
  /\ queue' = [queue EXCEPT ![r] = @ + 1]
  /\ UNCHANGED <<row, accepted, fixture, job, history>>

-----------------------------------------------------------------------------
Execute(w) ==
  \/ Claim(w)
  \/ LookMissing(w) \/ Reindex(w) \/ Insert(w) \/ Seed(w)
  \/ ReadPosition(w) \/ WritePosition(w) \/ ScoreCase(w)
  \/ Complete(w) \/ Fail(w) \/ MarkFailed(w)

Init ==
  /\ row      = [r \in Evals |-> [status |-> "absent", cases |-> <<>>, error |-> FALSE]]
  /\ accepted = {}
  /\ queue    = [r \in Evals |-> 0]
  /\ seeded   = FALSE /\ points = FALSE /\ page = NoPage
  /\ job      = [w \in Executors |-> IdleJob]
  /\ overlapped = {} /\ crowded = {} /\ hit = {} /\ wiped = {}
  /\ faults   = 0

Next ==
  \/ \E r \in Evals :
       \/ EnqueueRun(r) \/ Dispatch(r) \/ DispatchFails(r)
       \/ LoseMessage(r) \/ Sweep(r)
       \/ \E c \in Clis : SyncRun(c, r)
       \/ \E w \in Workers : Receive(w, r)
  \/ \E w \in Executors :
       Execute(w) \/ CaseRaises(w) \/ CommitRaises(w) \/ Crash(w) \/ Redeliver(w)
  \/ WipeVectors

Spec == Init /\ [][Next]_vars

(***************************************************************************)
(* Fairness.  A process goes on with the run it has taken up, unless it    *)
(* dies; the queue is first in, first out; beat fires the sweep for ever.  *)
(* Nobody has to start a run.                                              *)
(***************************************************************************)
FairSpec ==
  /\ Spec
  /\ \A w \in Executors : WF_vars(Execute(w))
  /\ \A r \in Evals : /\ SF_vars(\E w \in Workers : Receive(w, r))
                      /\ WF_vars(Sweep(r))

-----------------------------------------------------------------------------
TypeOK ==
  /\ row \in [Evals -> Row]
  /\ accepted \subseteq Evals
  /\ queue \in [Evals -> Nat]
  /\ seeded \in BOOLEAN /\ points \in BOOLEAN
  /\ page \in Pages \cup {NoPage}
  /\ job \in [Executors -> Job]
  /\ \A w \in Executors : Busy(w) <=> job[w].run # NoEval
  /\ overlapped \subseteq crowded /\ crowded \subseteq Evals
  /\ hit \subseteq Evals /\ wiped \subseteq Evals
  /\ faults \in 0..MaxFaults

\* What a run reports fits its status, through crashes, overlapping executions
\* and the failure hook: a completed run has a score for every case, a failed one
\* says why; without overlap a completed run carries no error, a failed one no
\* scores and an unfinished one neither (models/evaluation.py:53).
OutcomeIsConsistent ==
  \A r \in Evals :
    /\ row[r].status = "completed" => Len(row[r].cases) = Len(Cases)
    /\ row[r].status = "failed" => row[r].error
    /\ r \notin overlapped =>
         /\ row[r].error <=> row[r].status = "failed"
         /\ row[r].cases = <<>> <=> row[r].status # "completed"

\* Every case was scored in its place.  It searched the fixture's vectors, which
\* are upserted again although their rows exist, unless the collection was
\* emptied during the run; and in a run that no other execution accompanied it
\* was bounded by the page the dataset gives, although all runs share one progress
\* row and an aborted one leaves its page there (evaluation_service.py:310-428).
ScoredInPlace ==
  \A r \in Evals : \A i \in DOMAIN row[r].cases :
    /\ r \notin wiped => row[r].cases[i].searched
    /\ r \notin crowded => row[r].cases[i].bound = Cases[i]

\* A run fails only if something failed under it, or it ran next to another one,
\* whose first-time INSERTs it collides with.
FailsForAReason ==
  \A r \in Evals : row[r].status = "failed" => r \in hit \cup crowded

\* A late or repeated message leaves a run that has ended alone, as long as no two
\* executions of it overlapped (eval_worker/sweep.py:7).
EndedStaysEnded ==
  [][\A r \in Evals :
       row[r].status \in Ended /\ r \notin overlapped => row'[r] = row[r]]_vars

\* Every accepted run ends, also when its dispatch, its message or its worker is
\* lost; the CLI that polls for the end of its run returns.
EveryRunEnds ==
  \A r \in Evals : row[r].status \in Open ~> row[r].status \in Ended
=============================================================================
