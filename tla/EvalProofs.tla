----------------------------- MODULE EvalProofs -----------------------------
(***************************************************************************)
(* Theorems about EvalRuns' specification, for any number of runs, workers *)
(* and CLI processes, any dataset and any number of failures.              *)
(***************************************************************************)
EXTENDS EvalRuns, SequenceTheorems, TLAPS

-----------------------------------------------------------------------------
\* What an executor has done fits the place it is at.
Fits(w) ==
  /\ job[w].pc \in {"claim", "look", "insert", "seed"} => job[w].done = <<>>
  /\ job[w].pc \in {"case", "write", "score"} => Len(job[w].done) < Len(Cases)
  /\ job[w].pc = "commit" => Len(job[w].done) = Len(Cases)
  /\ job[w].pc \in {"write", "score"} => Question(w) # Whole

JobsFit == \A w \in Executors : Fits(w)

JobsTyped ==
  /\ job \in [Executors -> Job]
  /\ \A w \in Executors : Busy(w) <=> job[w].run # NoEval

\* The question of an executor that has one is a case of the dataset.
LEMMA QuestionIsCase ==
  ASSUME NEW w \in Executors, job[w].done \in Seq(Score), Len(job[w].done) < Len(Cases)
  PROVE  Question(w) \in Pages \cup {Whole}
<1>1. Len(job[w].done) + 1 \in DOMAIN Cases
  BY CaseAssumption
<1> QED
  BY <1>1 DEF Question, Pages

\* One executor's record changes to x.
LEMMA OneJob ==
  ASSUME JobsTyped, JobsFit, NEW w \in Executors, NEW x \in Job, job' = [job EXCEPT ![w] = x],
         x.pc # "idle" <=> x.run # NoEval,
         x.pc \in {"claim", "look", "insert", "seed"} => x.done = <<>>,
         x.pc \in {"case", "write", "score"} => Len(x.done) < Len(Cases),
         x.pc = "commit" => Len(x.done) = Len(Cases),
         x.pc \in {"write", "score"} => Cases[Len(x.done) + 1] # Whole
  PROVE  JobsTyped' /\ JobsFit'
<1>1. job' \in [Executors -> Job] /\ job'[w] = x /\ \A v \in Executors \ {w} : job'[v] = job[v]
  BY DEF JobsTyped
<1>2. JobsTyped'
  BY <1>1 DEF JobsTyped, Busy
<1>3. \A v \in Executors : Fits(v)'
  BY <1>1 DEF JobsFit, Fits, Question
<1> QED
  BY <1>2, <1>3 DEF JobsFit

\* It moves on to another place, with what it carries.
LEMMA OneStep ==
  ASSUME JobsTyped, JobsFit, NEW w \in Executors, NEW pc \in JobPC, Step(w, pc),
         Busy(w), pc # "idle",
         pc \in {"claim", "look", "insert", "seed"} => job[w].done = <<>>,
         pc \in {"case", "write", "score"} => Len(job[w].done) < Len(Cases),
         pc = "commit" => Len(job[w].done) = Len(Cases),
         pc \in {"write", "score"} => Question(w) # Whole
  PROVE  JobsTyped' /\ JobsFit'
<1> DEFINE x == [job[w] EXCEPT !.pc = pc]
<1>1. /\ x \in Job /\ x.pc = pc /\ x.run = job[w].run /\ x.done = job[w].done
      /\ job' = [job EXCEPT ![w] = x]
  BY DEF JobsTyped, Job, Step
<1>2. x.run # NoEval
  BY <1>1 DEF JobsTyped
<1> HIDE DEF x
<1> QED
  BY <1>1, <1>2, OneJob DEF Question

\* It stops.
LEMMA OneStop ==
  ASSUME JobsTyped, JobsFit, NEW w \in Executors, Stop(w)
  PROVE  JobsTyped' /\ JobsFit'
<1>1. IdleJob \in Job /\ IdleJob.pc = "idle" /\ IdleJob.run = NoEval
  BY EmptySeq DEF IdleJob, Job, JobPC
<1> QED
  BY <1>1, OneJob DEF Stop

\* It takes up a run.
LEMMA OneStart ==
  ASSUME JobsTyped, JobsFit, NEW w \in Executors, NEW r \in Evals, row \in [Evals -> Row], Start(w, r)
  PROVE  JobsTyped' /\ JobsFit'
<1>1. PICK pc \in {"look", "claim"} :
        job' = [job EXCEPT ![w] = [IdleJob EXCEPT !.pc = pc, !.run = r, !.error = row[r].error]]
  BY DEF Start
<1> DEFINE x == [IdleJob EXCEPT !.pc = pc, !.run = r, !.error = row[r].error]
<1>2. IdleJob \in Job /\ IdleJob.done = <<>>
  BY EmptySeq DEF IdleJob, Job, JobPC
<1>3. row[r].error \in BOOLEAN
  BY DEF Row
<1>4. x \in Job /\ x.pc = pc /\ x.run = r /\ x.done = <<>>
  BY <1>2, <1>3 DEF Job, JobPC
<1>5. r # NoEval
  BY NoneAssumption
<1> HIDE DEF x
<1>6. job' = [job EXCEPT ![w] = x]
  BY <1>1 DEF x
<1> QED
  BY <1>4, <1>5, <1>6, OneJob

-----------------------------------------------------------------------------
\* The types of everything but the executors' records.
RestTyped ==
  /\ row \in [Evals -> Row]
  /\ accepted \subseteq Evals
  /\ queue \in [Evals -> Nat]
  /\ seeded \in BOOLEAN /\ points \in BOOLEAN
  /\ page \in Pages \cup {NoPage}
  /\ overlapped \subseteq crowded /\ crowded \subseteq Evals
  /\ hit \subseteq Evals /\ wiped \subseteq Evals
  /\ faults \in 0..MaxFaults

\* An executor that is busy has a run that exists.
LEMMA RunKnown ==
  ASSUME JobsTyped, NEW w \in Executors, Busy(w)
  PROVE  job[w].run \in Evals
BY DEF JobsTyped, Job

\* Every step keeps these types.
LEMMA RestStep ==
  ASSUME RestTyped, JobsTyped, JobsFit, [Next]_vars
  PROVE  RestTyped'
<1> USE BoundAssumption DEF RestTyped, history, fixture
<1>1. \A w \in Executors : Busy(w) => job[w].run \in Evals
  BY RunKnown
<1>2. ASSUME NEW r \in Evals, NEW new \in Row, Update(r, new),
             UNCHANGED <<accepted, queue, fixture, history>>
      PROVE  RestTyped'
  BY <1>2 DEF Update
<1>3. ASSUME NEW r \in Evals, queue' = [queue EXCEPT ![r] = @ + 1] PROVE queue' \in [Evals -> Nat]
  BY <1>3
<1>4. ASSUME NEW r \in Evals, queue[r] > 0, queue' = [queue EXCEPT ![r] = @ - 1]
      PROVE  queue' \in [Evals -> Nat]
  BY <1>4
<1>5. ASSUME NEW r \in Evals, row' = [row EXCEPT ![r].status = "pending"]
      PROVE  row' \in [Evals -> Row]
  BY <1>5 DEF Row, Open
<1>6. ASSUME Fault PROVE faults' \in 0..MaxFaults
  BY <1>6 DEF Fault
<1>7. ASSUME NEW w \in Executors, NEW r \in Evals, Start(w, r)
      PROVE  overlapped' \subseteq crowded' /\ crowded' \subseteq Evals
  <2> DEFINE others == {v \in Executors : Busy(v)}
  <2>1. /\ overlapped' = overlapped \cup {q \in {r} : \E v \in others : job[v].run = r}
        /\ crowded' = IF others = {} THEN crowded
                      ELSE crowded \cup {r} \cup {job[v].run : v \in others}
    BY <1>7 DEF Start
  <2>2. {job[v].run : v \in others} \subseteq Evals
    BY <1>1
  <2> HIDE DEF others
  <2>3. CASE others = {}
    BY <2>1, <2>3
  <2>4. CASE others # {}
    BY <2>1, <2>2, <2>4
  <2> QED
    BY <2>3, <2>4
<1>8. ASSUME NEW r \in Evals, EnqueueRun(r) PROVE RestTyped'
  BY <1>5, <1>8 DEF EnqueueRun
<1>9. ASSUME NEW r \in Evals, Dispatch(r) PROVE RestTyped'
  BY <1>3, <1>9 DEF Dispatch
<1>10. ASSUME NEW r \in Evals, DispatchFails(r) PROVE RestTyped'
  BY <1>6, <1>10 DEF DispatchFails
<1>11. ASSUME NEW r \in Evals, LoseMessage(r) PROVE RestTyped'
  BY <1>4, <1>6, <1>11 DEF LoseMessage
<1>12. ASSUME NEW r \in Evals, Sweep(r) PROVE RestTyped'
  BY <1>3, <1>12 DEF Sweep
<1>13. ASSUME NEW r \in Evals, NEW c \in Clis, SyncRun(c, r) PROVE RestTyped'
  <2>1. UNCHANGED <<accepted, queue, fixture, hit, wiped, faults>> /\ Start(c, r)
        /\ row' = [row EXCEPT ![r].status = "pending"] /\ c \in Executors
    BY <1>13 DEF SyncRun, Executors
  <2> QED
    BY <1>5, <1>7, <2>1
<1>14. ASSUME NEW r \in Evals, NEW w \in Workers, Receive(w, r) PROVE RestTyped'
  <2>1. /\ UNCHANGED <<row, accepted, fixture, hit, wiped, faults>> /\ w \in Executors
        /\ Start(w, r) \/ UNCHANGED <<overlapped, crowded>>
    BY <1>14 DEF Receive, Executors
  <2>2. queue' \in [Evals -> Nat]
    BY <1>4, <1>14 DEF Receive
  <2> QED
    BY <1>7, <2>1, <2>2
<1>15. ASSUME NEW w \in Executors, Execute(w) PROVE RestTyped'
  <2> DEFINE r == job[w].run
  <2>1. Busy(w) /\ r \in Evals /\ Mine(w) = row[r] /\ row[r] \in Row
    BY <1>1, <1>15 DEF Execute, Claim, LookMissing, Reindex, Insert, Seed, ReadPosition,
         WritePosition, ScoreCase, Complete, Fail, MarkFailed, At, Busy, Mine
  <2>2. job[w].done \in Seq(Score) /\ Fits(w)
    BY DEF JobsTyped, Job, JobsFit
  <2> HIDE DEF r
  <2>3. CASE Claim(w)
    <3>1. [Mine(w) EXCEPT !.status = "running"] \in Row
      BY <2>1 DEF Row, Open
    <3> QED
      BY <1>2, <2>1, <2>3, <3>1 DEF Claim, r
  <2>4. CASE LookMissing(w) \/ Reindex(w) \/ Insert(w) \/ Seed(w) \/ ReadPosition(w) \/ ScoreCase(w)
    <3>1. /\ UNCHANGED <<row, accepted, queue, page, history>>
          /\ seeded' \in {seeded, TRUE} /\ points' \in {points, TRUE}
      BY <2>4 DEF LookMissing, Reindex, Insert, Seed, ReadPosition, ScoreCase
    <3> QED
      BY <3>1
  <2>5. CASE WritePosition(w)
    <3>1. Question(w) \in Pages
      BY <2>2, <2>5, QuestionIsCase DEF WritePosition, At, Fits
    <3>2. /\ UNCHANGED <<row, accepted, queue, seeded, points, history>>
          /\ page' \in {page, Question(w)}
      BY <2>5 DEF WritePosition
    <3> QED
      BY <3>1, <3>2
  <2>6. CASE Complete(w)
    <3>1. [status |-> "completed", cases |-> job[w].done,
           error  |-> IF job[w].error THEN FALSE ELSE Mine(w).error] \in Row
      BY <2>1, <2>2 DEF Row, Ended
    <3> QED
      BY <1>2, <2>1, <2>6, <3>1 DEF Complete, r
  <2>7. CASE Fail(w)
    <3>1. [status |-> "failed", cases |-> <<>>, error |-> TRUE] \in Row
      BY EmptySeq DEF Row, Ended
    <3> QED
      BY <1>2, <2>1, <2>7, <3>1 DEF Fail, r
  <2>8. CASE MarkFailed(w)
    <3>1. [Mine(w) EXCEPT !.status = "failed", !.error = TRUE] \in Row
      BY <2>1 DEF Row, Ended
    <3>2. UNCHANGED <<accepted, queue, fixture, history>>
      BY <2>8 DEF MarkFailed
    <3>3. \/ UNCHANGED row
          \/ Update(r, [Mine(w) EXCEPT !.status = "failed", !.error = TRUE])
      BY <2>8 DEF MarkFailed, r
    <3> QED
      BY <1>2, <2>1, <3>1, <3>2, <3>3
  <2> QED
    BY <1>15, <2>3, <2>4, <2>5, <2>6, <2>7, <2>8 DEF Execute
<1>16. ASSUME NEW w \in Executors, CaseRaises(w) \/ CommitRaises(w) PROVE RestTyped'
  <2>1. /\ UNCHANGED <<row, accepted, queue, fixture, overlapped, crowded, wiped>>
        /\ Fault /\ hit' = hit \cup {job[w].run} /\ Busy(w)
    BY <1>16 DEF CaseRaises, CommitRaises, Busy
  <2> QED
    BY <1>1, <1>6, <2>1
<1>17. ASSUME NEW w \in Executors, Crash(w) \/ Redeliver(w) PROVE RestTyped'
  <2>1. /\ UNCHANGED <<row, accepted, fixture, overlapped, crowded, hit, wiped>>
        /\ Fault /\ Busy(w)
        /\ UNCHANGED queue \/ queue' = [queue EXCEPT ![job[w].run] = @ + 1]
    BY <1>17 DEF Crash, Redeliver
  <2> QED
    BY <1>1, <1>3, <1>6, <2>1
<1>18. CASE WipeVectors
  <2>1. wiped' \subseteq Evals
    BY <1>1, <1>18 DEF WipeVectors
  <2>2. UNCHANGED <<row, accepted, queue, seeded, page, overlapped, crowded, hit>>
        /\ points' = FALSE /\ Fault
    BY <1>18 DEF WipeVectors
  <2> QED
    BY <1>6, <2>1, <2>2
<1>19. CASE UNCHANGED vars
  BY <1>19 DEF vars
<1> QED
  BY <1>8, <1>9, <1>10, <1>11, <1>12, <1>13, <1>14, <1>15, <1>16, <1>17, <1>18, <1>19 DEF Next

\* And those of the executors' records.
LEMMA JobsStep ==
  ASSUME RestTyped, JobsTyped, JobsFit, [Next]_vars
  PROVE  JobsTyped' /\ JobsFit'
<1> USE DEF At
<1>1. ASSUME UNCHANGED job PROVE JobsTyped' /\ JobsFit'
  BY <1>1 DEF JobsTyped, JobsFit, Fits, Busy, Question
<1>2. ASSUME NEW r \in Evals, NEW c \in Clis, SyncRun(c, r) PROVE JobsTyped' /\ JobsFit'
  BY <1>2, OneStart DEF SyncRun, Executors, RestTyped
<1>3. ASSUME NEW r \in Evals, NEW w \in Workers, Receive(w, r) PROVE JobsTyped' /\ JobsFit'
  <2>1. w \in Executors /\ (Start(w, r) \/ UNCHANGED job)
    BY <1>3 DEF Receive, Executors
  <2> QED
    BY <1>1, <2>1, OneStart DEF RestTyped
<1>4. ASSUME NEW w \in Executors, Execute(w) PROVE JobsTyped' /\ JobsFit'
  <2>1. /\ job[w] \in Job /\ Fits(w) /\ Len(<<>>) = 0
        /\ Cases \in Seq((Nat \ {NoPage}) \cup {Whole}) /\ Len(Cases) \in Nat \ {0}
    BY CaseAssumption, EmptySeq DEF JobsTyped, JobsFit
  <2>2. job[w].done \in Seq(Score) /\ Len(job[w].done) \in Nat
    BY <2>1 DEF Job
  <2>3. ASSUME NEW pc \in {"look", "insert", "seed", "case", "fail"}, Step(w, pc), Busy(w),
               pc # "fail" => job[w].done = <<>>
        PROVE  JobsTyped' /\ JobsFit'
    BY <2>1, <2>3, OneStep DEF JobPC
  <2>4. CASE Claim(w) \/ LookMissing(w) \/ Reindex(w) \/ Insert(w) \/ Seed(w)
    <3>1. job[w].done = <<>> /\ Busy(w)
      BY <2>1, <2>4 DEF Claim, LookMissing, Reindex, Insert, Seed, Fits, Busy
    <3>2. \E pc \in {"look", "insert", "seed", "case", "fail"} : Step(w, pc)
      BY <2>4 DEF Claim, LookMissing, Reindex, Insert, Seed
    <3> QED
      BY <2>3, <3>1, <3>2
  <2>5. CASE ReadPosition(w)
    <3> DEFINE x == [job[w] EXCEPT !.pc = "write", !.local = page]
    <3>1. job' = [job EXCEPT ![w] = x]
      BY <2>5 DEF ReadPosition
    <3>2. /\ x \in Job /\ x.pc = "write" /\ x.run = job[w].run /\ x.done = job[w].done
      BY <2>1 DEF Job, JobPC, RestTyped
    <3>3. job[w].run # NoEval
      BY <2>5 DEF ReadPosition, JobsTyped, Busy
    <3>4. Len(job[w].done) < Len(Cases) /\ Cases[Len(job[w].done) + 1] # Whole
      BY <2>1, <2>5 DEF ReadPosition, Fits, Question
    <3> HIDE DEF x
    <3> QED
      BY <3>1, <3>2, <3>3, <3>4, OneJob
  <2>6. CASE WritePosition(w)
    <3>1. Busy(w) /\ Len(job[w].done) < Len(Cases) /\ Question(w) # Whole
      BY <2>1, <2>6 DEF WritePosition, Fits, Busy
    <3>2. Step(w, "fail") \/ Step(w, "score")
      BY <2>6 DEF WritePosition
    <3>3. CASE Step(w, "score")
      BY <3>1, <3>3, OneStep DEF JobPC
    <3> QED
      BY <2>3, <3>1, <3>2, <3>3
  <2>7. CASE ScoreCase(w)
    <3>1. Len(job[w].done) < Len(Cases) /\ job[w].run # NoEval
      BY <2>1, <2>7 DEF ScoreCase, Fits, JobsTyped, Busy
    <3> DEFINE s == [bound |-> IF Question(w) = Whole THEN Whole ELSE page, searched |-> points]
               done == Append(job[w].done, s)
               x == [job[w] EXCEPT !.done = done,
                                   !.pc = IF Len(done) = Len(Cases) THEN "commit" ELSE "case"]
    <3>2. s \in Score
      BY DEF Score, RestTyped
    <3>3. done \in Seq(Score) /\ Len(done) = Len(job[w].done) + 1
      BY <2>2, <3>2, AppendProperties
    <3>4. job' = [job EXCEPT ![w] = x]
      BY <2>7 DEF ScoreCase
    <3> HIDE DEF done
    <3>5. /\ x \in Job /\ x.run = job[w].run /\ x.done = done
          /\ x.pc = IF Len(done) = Len(Cases) THEN "commit" ELSE "case"
      BY <2>1, <3>3 DEF Job, JobPC
    <3> HIDE DEF x
    <3>6. Len(done) <= Len(Cases)
      BY <2>1, <2>2, <3>1, <3>3
    <3>7. CASE Len(done) = Len(Cases)
      BY <3>1, <3>4, <3>5, <3>7, OneJob
    <3>8. CASE Len(done) # Len(Cases)
      <4>1. x.pc = "case" /\ Len(x.done) < Len(Cases)
        BY <2>1, <2>2, <3>3, <3>5, <3>6, <3>8
      <4> QED
        BY <3>1, <3>4, <3>5, <4>1, OneJob
    <3> QED
      BY <3>7, <3>8
  <2>8. CASE Complete(w) \/ Fail(w) \/ MarkFailed(w)
    BY <2>8, OneStop DEF Complete, Fail, MarkFailed
  <2> QED
    BY <1>4, <2>4, <2>5, <2>6, <2>7, <2>8 DEF Execute
<1>5. ASSUME NEW w \in Executors, CaseRaises(w) \/ CommitRaises(w) PROVE JobsTyped' /\ JobsFit'
  <2>1. Busy(w) /\ (Step(w, "fail") \/ Step(w, "hook") \/ Stop(w))
    BY <1>5 DEF CaseRaises, CommitRaises, Busy
  <2> QED
    BY <2>1, OneStep, OneStop DEF JobPC
<1>6. ASSUME NEW w \in Executors, Crash(w) PROVE JobsTyped' /\ JobsFit'
  BY <1>6, OneStop DEF Crash
<1>7. CASE \/ \E r \in Evals : \/ EnqueueRun(r) \/ Dispatch(r) \/ DispatchFails(r)
                              \/ LoseMessage(r) \/ Sweep(r)
           \/ \E w \in Executors : Redeliver(w)
           \/ WipeVectors \/ UNCHANGED vars
  <2>1. UNCHANGED job
    BY <1>7 DEF EnqueueRun, Dispatch, DispatchFails, LoseMessage, Sweep, Redeliver, WipeVectors, vars
  <2> QED
    BY <1>1, <2>1
<1> QED
  BY <1>2, <1>3, <1>4, <1>5, <1>6, <1>7 DEF Next

Sound == TypeOK /\ JobsFit

LEMMA SoundParts == Sound <=> RestTyped /\ JobsTyped /\ JobsFit
BY DEF Sound, TypeOK, RestTyped, JobsTyped

LEMMA SoundStep == Sound /\ [Next]_vars => Sound'
<1> SUFFICES ASSUME Sound, [Next]_vars PROVE Sound'
  OBVIOUS
<1>1. RestTyped /\ JobsTyped /\ JobsFit
  BY SoundParts
<1>2. RestTyped' /\ JobsTyped' /\ JobsFit'
  BY <1>1, RestStep, JobsStep
<1> QED
  BY <1>2 DEF Sound, TypeOK, RestTyped, JobsTyped

LEMMA SoundInit == Init => Sound
<1> SUFFICES ASSUME Init PROVE Sound
  OBVIOUS
<1>1. [status |-> "absent", cases |-> <<>>, error |-> FALSE] \in Row
  BY EmptySeq DEF Row
<1>2. RestTyped
  <2>1. 0 \in 0..MaxFaults
    BY BoundAssumption
  <2> QED
    BY <1>1, <2>1 DEF Init, RestTyped
<1>3. IdleJob \in Job /\ IdleJob.pc = "idle" /\ IdleJob.run = NoEval
  BY EmptySeq DEF IdleJob, Job, JobPC
<1>4. JobsTyped /\ JobsFit
  BY <1>3 DEF Init, JobsTyped, JobsFit, Fits, Busy
<1> QED
  BY <1>2, <1>4, SoundParts

\* Every state is well-formed: an executor that is busy has a run, and the runs that
\* overlapped another execution of themselves are among those that had company.
THEOREM EvalTypeCorrect == Spec => []TypeOK
<1>1. Spec => []Sound
  BY SoundInit, SoundStep, PTL DEF Spec
<1> QED
  BY <1>1, PTL DEF Sound

-----------------------------------------------------------------------------
\* The actions of an executor on its own.
Alone(w) == Execute(w) \/ CaseRaises(w) \/ CommitRaises(w) \/ Crash(w) \/ Redeliver(w)

\* It is busy, keeps its run as long as it is, and touches no other executor.
LEMMA AloneStep ==
  ASSUME JobsTyped, NEW w \in Executors, Alone(w)
  PROVE  /\ Busy(w)
         /\ Busy(w)' => job'[w].run = job[w].run
         /\ \A v \in Executors \ {w} : job'[v] = job[v]
         /\ UNCHANGED <<overlapped, crowded, wiped>> /\ hit \subseteq hit'
<1> USE DEF At, Busy, history
<1>1. job \in [Executors -> Job]
  BY DEF JobsTyped
<1>2. ASSUME NEW pc \in JobPC, Step(w, pc)
      PROVE  job'[w].run = job[w].run /\ \A v \in Executors \ {w} : job'[v] = job[v]
  BY <1>1, <1>2 DEF Step, Job
<1>3. ASSUME Stop(w)
      PROVE  job'[w].pc = "idle" /\ \A v \in Executors \ {w} : job'[v] = job[v]
  BY <1>1, <1>3 DEF Stop, IdleJob
<1>4. CASE \/ Claim(w) \/ LookMissing(w) \/ Reindex(w) \/ Insert(w) \/ Seed(w)
           \/ WritePosition(w)
  <2>1. \E pc \in JobPC : Step(w, pc)
    BY <1>4 DEF Claim, LookMissing, Reindex, Insert, Seed, WritePosition, JobPC
  <2>2. job[w].pc # "idle" /\ UNCHANGED history
    BY <1>4 DEF Claim, LookMissing, Reindex, Insert, Seed, WritePosition
  <2> QED
    BY <1>2, <2>1, <2>2
<1>5. CASE ReadPosition(w)
  BY <1>1, <1>5 DEF ReadPosition, Job
<1>6. CASE ScoreCase(w)
  BY <1>1, <1>6 DEF ScoreCase, Job
<1>7. CASE Complete(w) \/ Fail(w) \/ MarkFailed(w)
  BY <1>3, <1>7 DEF Complete, Fail, MarkFailed
<1>8. CASE CaseRaises(w) \/ CommitRaises(w)
  <2>1. (\E pc \in JobPC : Step(w, pc)) \/ Stop(w)
    BY <1>8 DEF CaseRaises, CommitRaises, JobPC
  <2>2. job[w].pc # "idle" /\ UNCHANGED <<overlapped, crowded, wiped>> /\ hit \subseteq hit'
    BY <1>8 DEF CaseRaises, CommitRaises
  <2> QED
    BY <1>2, <1>3, <2>1, <2>2
<1>9. CASE Crash(w)
  BY <1>3, <1>9 DEF Crash
<1>10. CASE Redeliver(w)
  BY <1>10 DEF Redeliver
<1> QED
  BY <1>4, <1>5, <1>6, <1>7, <1>8, <1>9, <1>10 DEF Alone, Execute

\* A start, seen from outside.
LEMMA StartStep ==
  ASSUME JobsTyped, row \in [Evals -> Row], NEW w \in Executors, NEW r \in Evals,
         ~Busy(w), Start(w, r)
  PROVE  /\ job'[w].run = r /\ job'[w].done = <<>> /\ job'[w].pc \in {"look", "claim"}
         /\ \A v \in Executors \ {w} : job'[v] = job[v]
         /\ overlapped \subseteq overlapped' /\ crowded \subseteq crowded'
         /\ \A v \in Executors : Busy(v) => {r, job[v].run} \subseteq crowded'
         /\ \A v \in Executors : Busy(v) /\ job[v].run = r => r \in overlapped'
<1> DEFINE others == {v \in Executors : Busy(v)}
<1>1. PICK pc \in {"look", "claim"} :
        job' = [job EXCEPT ![w] = [IdleJob EXCEPT !.pc = pc, !.run = r, !.error = row[r].error]]
  BY DEF Start
<1>2. IdleJob \in Job /\ IdleJob.done = <<>>
  BY EmptySeq DEF IdleJob, Job, JobPC
<1>3. /\ job'[w].run = r /\ job'[w].done = <<>> /\ job'[w].pc = pc
      /\ \A v \in Executors \ {w} : job'[v] = job[v]
  BY <1>1, <1>2 DEF JobsTyped, Job
<1>4. /\ overlapped' = overlapped \cup {q \in {r} : \E v \in others : job[v].run = r}
      /\ crowded' = IF others = {} THEN crowded
                    ELSE crowded \cup {r} \cup {job[v].run : v \in others}
  BY DEF Start
<1>5. overlapped \subseteq overlapped' /\ crowded \subseteq crowded'
  <2> HIDE DEF others
  <2> QED
    BY <1>4
<1>6. ASSUME NEW v \in Executors, Busy(v) PROVE {r, job[v].run} \subseteq crowded'
  <2>1. v \in others
    BY <1>6
  <2> HIDE DEF others
  <2> QED
    BY <1>4, <2>1
<1>7. ASSUME NEW v \in Executors, Busy(v), job[v].run = r PROVE r \in overlapped'
  <2>1. v \in others
    BY <1>7
  <2> HIDE DEF others
  <2> QED
    BY <1>4, <1>7, <2>1
<1> QED
  BY <1>3, <1>5, <1>6, <1>7

-----------------------------------------------------------------------------
\* Two executions at once are recorded: as company, and as overlap if they are of one run.
Recorded ==
  \A v, w \in Executors :
    v # w /\ Busy(v) /\ Busy(w) =>
      /\ job[v].run \in crowded
      /\ job[v].run = job[w].run => job[v].run \in overlapped

LEMMA RecordedStart ==
  ASSUME JobsTyped, Recorded, row \in [Evals -> Row], NEW w \in Executors, NEW r \in Evals,
         ~Busy(w), Start(w, r)
  PROVE  Recorded'
<1>1. /\ job'[w].run = r
      /\ \A v \in Executors \ {w} : job'[v] = job[v]
      /\ overlapped \subseteq overlapped' /\ crowded \subseteq crowded'
      /\ \A v \in Executors : Busy(v) => {r, job[v].run} \subseteq crowded'
      /\ \A v \in Executors : Busy(v) /\ job[v].run = r => r \in overlapped'
  BY StartStep
<1> QED
  BY <1>1 DEF Recorded, Busy

LEMMA RecordedAlone ==
  ASSUME JobsTyped, Recorded, NEW w \in Executors, Alone(w)
  PROVE  Recorded'
<1>1. /\ Busy(w)
      /\ Busy(w)' => job'[w].run = job[w].run
      /\ \A v \in Executors \ {w} : job'[v] = job[v]
      /\ UNCHANGED <<overlapped, crowded>>
  BY AloneStep
<1> QED
  BY <1>1 DEF Recorded, Busy

\* What the other steps do: none of them moves an executor.
Outside ==
  \/ \E r \in Evals : EnqueueRun(r) \/ Dispatch(r) \/ DispatchFails(r) \/ LoseMessage(r) \/ Sweep(r)
  \/ \E r \in Evals, w \in Workers : Receive(w, r) /\ UNCHANGED <<job, overlapped, crowded>>
  \/ WipeVectors \/ UNCHANGED vars

\* The steps of the system, by what they do to the executors.
LEMMA StepKinds ==
  ASSUME [Next]_vars
  PROVE  \/ \E r \in Evals, w \in Executors :
              /\ SyncRun(w, r) \/ (Receive(w, r) /\ row[r].status \in Open)
              /\ ~Busy(w) /\ Start(w, r)
         \/ \E w \in Executors : Alone(w)
         \/ Outside
<1>1. ASSUME NEW r \in Evals, NEW c \in Clis, SyncRun(c, r)
      PROVE  c \in Executors /\ ~Busy(c) /\ Start(c, r)
  BY <1>1 DEF SyncRun, Busy, At, Executors
<1>2. ASSUME NEW r \in Evals, NEW w \in Workers, Receive(w, r)
      PROVE  /\ w \in Executors /\ ~Busy(w)
             /\ (row[r].status \in Open /\ Start(w, r)) \/ UNCHANGED <<job, overlapped, crowded>>
  BY <1>2 DEF Receive, Busy, At, Executors
<1>3. CASE \E r \in Evals : \E w \in Workers : Receive(w, r)
  BY <1>2, <1>3 DEF Outside
<1>4. CASE \E r \in Evals : \E c \in Clis : SyncRun(c, r)
  BY <1>1, <1>4
<1>5. CASE \E r \in Evals : EnqueueRun(r) \/ Dispatch(r) \/ DispatchFails(r) \/ LoseMessage(r) \/ Sweep(r)
  BY <1>5 DEF Outside
<1>6. CASE WipeVectors \/ UNCHANGED vars
  BY <1>6 DEF Outside
<1>7. CASE \E w \in Executors :
             Execute(w) \/ CaseRaises(w) \/ CommitRaises(w) \/ Crash(w) \/ Redeliver(w)
  BY <1>7 DEF Alone
<1> QED
  BY <1>3, <1>4, <1>5, <1>6, <1>7 DEF Next

LEMMA OutsideStep ==
  ASSUME Outside
  PROVE  /\ UNCHANGED <<job, overlapped, crowded, hit, seeded, page>>
         /\ wiped \subseteq wiped'
         /\ points' = points \/ WipeVectors
         /\ UNCHANGED row \/ \E r \in Evals : EnqueueRun(r)
<1> USE DEF history, fixture
<1>1. CASE \E r \in Evals : EnqueueRun(r)
  BY <1>1 DEF EnqueueRun
<1>2. CASE \E r \in Evals : Dispatch(r) \/ DispatchFails(r) \/ LoseMessage(r) \/ Sweep(r)
  BY <1>2 DEF Dispatch, DispatchFails, LoseMessage, Sweep
<1>3. CASE \E r \in Evals, w \in Workers : Receive(w, r) /\ UNCHANGED <<job, overlapped, crowded>>
  BY <1>3 DEF Receive
<1>4. CASE WipeVectors
  BY <1>4 DEF WipeVectors
<1>5. CASE UNCHANGED vars
  BY <1>5 DEF vars
<1> QED
  BY <1>1, <1>2, <1>3, <1>4, <1>5 DEF Outside

LEMMA RecordedStep == Sound /\ Recorded /\ [Next]_vars => Recorded'
<1> SUFFICES ASSUME Sound, Recorded, [Next]_vars PROVE Recorded'
  OBVIOUS
<1>1. JobsTyped /\ row \in [Evals -> Row]
  BY SoundParts DEF RestTyped
<1>2. ASSUME NEW r \in Evals, NEW w \in Executors, ~Busy(w), Start(w, r) PROVE Recorded'
  BY <1>1, <1>2, RecordedStart
<1>3. ASSUME NEW w \in Executors, Alone(w) PROVE Recorded'
  BY <1>1, <1>3, RecordedAlone
<1>4. CASE Outside
  <2>1. UNCHANGED <<job, overlapped, crowded>>
    BY <1>4, OutsideStep
  <2> QED
    BY <2>1 DEF Recorded, Busy
<1> QED
  BY <1>2, <1>3, <1>4, StepKinds

-----------------------------------------------------------------------------
\* A run that somebody executes has not ended, unless two executions of it overlapped.
HeldOpen ==
  \A w \in Executors :
    Busy(w) /\ job[w].run \notin overlapped => row[job[w].run].status \in Open

\* What an executor does to the rows: at most, it updates its own run's.
LEMMA RowOfAlone ==
  ASSUME RestTyped, JobsTyped, JobsFit, NEW w \in Executors, Alone(w)
  PROVE  /\ job[w].run \in Evals
         /\ \A r \in Evals \ {job[w].run} : row'[r] = row[r]
         /\ LET old == row[job[w].run]
                new == row'[job[w].run]
            IN \/ new = old
               \/ new = [old EXCEPT !.status = "running"] /\ job[w].pc = "claim"
               \/ /\ job[w].pc = "commit" /\ ~Busy(w)'
                  /\ new = [status |-> "completed", cases |-> job[w].done,
                            error |-> IF job[w].error THEN FALSE ELSE old.error]
               \/ /\ job[w].pc = "fail" /\ ~Busy(w)'
                  /\ new = [status |-> "failed", cases |-> <<>>, error |-> TRUE]
               \/ /\ job[w].pc = "hook" /\ ~Busy(w)' /\ old.status \notin Ended
                  /\ new = [old EXCEPT !.status = "failed", !.error = TRUE]
<1> USE DEF At, Busy
<1>1. Busy(w) /\ job[w].run \in Evals
  BY AloneStep, RunKnown
<1>2. job \in [Executors -> Job] /\ row \in [Evals -> Row]
  BY DEF JobsTyped, RestTyped
<1>3. ASSUME Stop(w) PROVE ~Busy(w)'
  BY <1>2, <1>3 DEF Stop, IdleJob
<1>4. ASSUME NEW x, Update(job[w].run, x)
      PROVE  row'[job[w].run] = x /\ \A r \in Evals \ {job[w].run} : row'[r] = row[r]
  BY <1>1, <1>2, <1>4 DEF Update
<1>5. CASE Claim(w)
  BY <1>1, <1>4, <1>5 DEF Claim, Mine
<1>6. CASE Complete(w)
  BY <1>1, <1>3, <1>4, <1>6 DEF Complete, Mine
<1>7. CASE Fail(w)
  BY <1>1, <1>3, <1>4, <1>7 DEF Fail
<1>8. CASE MarkFailed(w)
  <2>1. CASE Mine(w).status \in Ended
    <3>1. UNCHANGED row
      BY <1>8, <2>1 DEF MarkFailed
    <3> QED
      BY <1>1, <3>1
  <2>2. CASE Mine(w).status \notin Ended
    <3>1. /\ Update(job[w].run, [Mine(w) EXCEPT !.status = "failed", !.error = TRUE])
          /\ Mine(w).status \notin Ended /\ Stop(w) /\ job[w].pc = "hook"
      BY <1>8, <2>2 DEF MarkFailed
    <3> QED
      BY <1>1, <1>3, <1>4, <3>1 DEF Mine
  <2> QED
    BY <2>1, <2>2
<1>9. CASE UNCHANGED row
  BY <1>1, <1>9
<1>10. CASE \/ LookMissing(w) \/ Reindex(w) \/ Insert(w) \/ Seed(w)
            \/ ReadPosition(w) \/ WritePosition(w) \/ ScoreCase(w)
            \/ CaseRaises(w) \/ CommitRaises(w) \/ Crash(w) \/ Redeliver(w)
  BY <1>9, <1>10 DEF LookMissing, Reindex, Insert, Seed, ReadPosition, WritePosition, ScoreCase,
       CaseRaises, CommitRaises, Crash, Redeliver
<1> QED
  BY <1>5, <1>6, <1>7, <1>8, <1>10 DEF Alone, Execute

\* What OutcomeIsConsistent says of one run.
Consistent(r) ==
  /\ row[r].status = "completed" => Len(row[r].cases) = Len(Cases)
  /\ row[r].status = "failed" => row[r].error
  /\ r \notin overlapped =>
       /\ row[r].error <=> row[r].status = "failed"
       /\ row[r].cases = <<>> <=> row[r].status # "completed"

Outcomes == HeldOpen /\ \A r \in Evals : Consistent(r)

LEMMA OutcomesAlone ==
  ASSUME Sound, Recorded, Outcomes, NEW w \in Executors, Alone(w)
  PROVE  /\ Outcomes'
         /\ \A r \in Evals : row[r].status \in Ended /\ r \notin overlapped => row'[r] = row[r]
<1>1. RestTyped /\ JobsTyped /\ JobsFit
  BY SoundParts
<1> PICK r \in Evals : r = job[w].run
  BY <1>1, RowOfAlone
<1>2. /\ Busy(w) /\ (Busy(w)' => job'[w].run = r)
      /\ \A v \in Executors \ {w} : job'[v] = job[v]
      /\ UNCHANGED overlapped
  BY <1>1, AloneStep
<1>3. /\ \A q \in Evals \ {r} : row'[q] = row[q]
      /\ \/ row'[r] = row[r]
         \/ row'[r] = [row[r] EXCEPT !.status = "running"]
         \/ /\ ~Busy(w)' /\ job[w].pc = "commit"
            /\ row'[r] = [status |-> "completed", cases |-> job[w].done,
                          error |-> IF job[w].error THEN FALSE ELSE row[r].error]
         \/ ~Busy(w)' /\ row'[r] = [status |-> "failed", cases |-> <<>>, error |-> TRUE]
         \/ /\ ~Busy(w)' /\ row[r].status \notin Ended
            /\ row'[r] = [row[r] EXCEPT !.status = "failed", !.error = TRUE]
  BY <1>1, RowOfAlone
<1>4. row[r] \in Row /\ Consistent(r) /\ (r \notin overlapped => row[r].status \in Open)
  BY <1>2, <1>3 DEF Outcomes, HeldOpen, Sound, TypeOK
<1>5. /\ job[w].pc = "commit" => Len(job[w].done) = Len(Cases)
      /\ Len(<<>>) = 0 /\ Len(Cases) # 0
  BY <1>1, CaseAssumption, EmptySeq DEF JobsFit, Fits
<1>6. \A v \in Executors \ {w} : Busy(v) /\ job[v].run = r => r \in overlapped
  BY <1>2 DEF Recorded
<1>7. \A q \in Evals \ {r} : Consistent(q)'
  BY <1>2, <1>3 DEF Outcomes, Consistent
<1>8. \A q \in Evals : row[q].status \in Ended /\ q \notin overlapped => row'[q] = row[q]
  BY <1>3, <1>4 DEF Open, Ended
<1>9. ASSUME row'[r].status \in Open \/ ~Busy(w)' \/ row'[r] = row[r] PROVE HeldOpen'
  <2>1. ASSUME NEW v \in Executors, Busy(v)', job'[v].run \notin overlapped'
        PROVE  row'[job'[v].run].status \in Open
    <3>1. CASE v = w
      BY <1>2, <1>4, <1>9, <2>1, <3>1
    <3>2. CASE v # w
      <4>1. /\ Busy(v) /\ job'[v].run = job[v].run /\ job[v].run \notin overlapped
            /\ job[v].run \in Evals
        BY <1>1, <1>2, <2>1, <3>2, RunKnown DEF Busy
      <4>2. job[v].run # r
        BY <1>6, <3>2, <4>1
      <4> QED
        BY <1>3, <4>1, <4>2 DEF Outcomes, HeldOpen
    <3> QED
      BY <3>1, <3>2
  <2> QED
    BY <2>1 DEF HeldOpen
<1>10. CASE row'[r] = row[r]
  <2>1. Consistent(r)'
    BY <1>2, <1>4, <1>10 DEF Consistent
  <2> QED
    BY <1>7, <1>8, <1>9, <1>10, <2>1 DEF Outcomes
<1>11. CASE row'[r] = [row[r] EXCEPT !.status = "running"]
  <2>1. row'[r].status = "running" /\ row'[r].cases = row[r].cases /\ row'[r].error = row[r].error
    BY <1>4, <1>11 DEF Row
  <2>2. Consistent(r)'
    BY <1>2, <1>4, <2>1 DEF Consistent, Open
  <2> QED
    BY <1>7, <1>8, <1>9, <2>1, <2>2 DEF Outcomes, Open
<1>12. CASE /\ ~Busy(w)' /\ job[w].pc = "commit"
            /\ row'[r] = [status |-> "completed", cases |-> job[w].done,
                          error |-> IF job[w].error THEN FALSE ELSE row[r].error]
  <2>1. /\ row'[r].status = "completed" /\ Len(row'[r].cases) = Len(Cases)
        /\ row'[r].cases # <<>>
    BY <1>5, <1>12
  <2>2. r \notin overlapped => row'[r].error = FALSE
    BY <1>4, <1>12 DEF Consistent, Open, Row
  <2>3. Consistent(r)'
    BY <1>2, <2>1, <2>2 DEF Consistent
  <2> QED
    BY <1>7, <1>8, <1>9, <1>12, <2>3 DEF Outcomes
<1>13. CASE ~Busy(w)' /\ row'[r] = [status |-> "failed", cases |-> <<>>, error |-> TRUE]
  <2>1. Consistent(r)'
    BY <1>13 DEF Consistent
  <2> QED
    BY <1>7, <1>8, <1>9, <1>13, <2>1 DEF Outcomes
<1>14. CASE /\ ~Busy(w)' /\ row[r].status \notin Ended
            /\ row'[r] = [row[r] EXCEPT !.status = "failed", !.error = TRUE]
  <2>1. row'[r].status = "failed" /\ row'[r].error = TRUE /\ row'[r].cases = row[r].cases
    BY <1>4, <1>14 DEF Row
  <2>2. Consistent(r)'
    BY <1>2, <1>4, <1>14, <2>1 DEF Consistent, Ended
  <2> QED
    BY <1>7, <1>8, <1>9, <1>14, <2>2 DEF Outcomes
<1> QED
  BY <1>3, <1>10, <1>11, <1>12, <1>13, <1>14

LEMMA OutcomesStart ==
  ASSUME Sound, Recorded, Outcomes, NEW w \in Executors, NEW r \in Evals,
         SyncRun(w, r) \/ (Receive(w, r) /\ row[r].status \in Open), ~Busy(w), Start(w, r)
  PROVE  /\ Outcomes'
         /\ \A q \in Evals : row[q].status \in Ended => row'[q] = row[q]
<1>1. JobsTyped /\ row \in [Evals -> Row]
  BY SoundParts DEF RestTyped
<1>2. /\ job'[w].run = r
      /\ \A v \in Executors \ {w} : job'[v] = job[v]
      /\ overlapped \subseteq overlapped'
      /\ \A v \in Executors : Busy(v) /\ job[v].run = r => r \in overlapped'
  BY <1>1, StartStep
<1>3. /\ \A q \in Evals \ {r} : row'[q] = row[q]
      /\ \/ row'[r] = row[r] /\ row[r].status \in Open
         \/ /\ row[r].status = "absent" /\ row'[r].status = "pending"
            /\ row'[r].cases = row[r].cases /\ row'[r].error = row[r].error
  <2>1. CASE SyncRun(w, r)
    BY <1>1, <2>1 DEF SyncRun, Row
  <2>2. CASE Receive(w, r) /\ row[r].status \in Open
    BY <2>2 DEF Receive
  <2> QED
    BY <2>1, <2>2
<1>4. \A q \in Evals : Consistent(q)'
  BY <1>2, <1>3 DEF Outcomes, Consistent
<1>5. HeldOpen'
  BY <1>1, <1>2, <1>3, RunKnown DEF Outcomes, HeldOpen, Busy, Open
<1>6. \A q \in Evals : row[q].status \in Ended => row'[q] = row[q]
  BY <1>3 DEF Ended, Open
<1> QED
  BY <1>4, <1>5, <1>6 DEF Outcomes

LEMMA OutcomesOutside ==
  ASSUME Sound, Outcomes, Outside
  PROVE  /\ Outcomes'
         /\ \A q \in Evals : row[q].status \in Ended => row'[q] = row[q]
<1>1. JobsTyped /\ row \in [Evals -> Row] /\ UNCHANGED <<job, overlapped>>
  BY SoundParts, OutsideStep DEF RestTyped
<1>2. CASE UNCHANGED row
  BY <1>1, <1>2 DEF Outcomes, HeldOpen, Consistent, Busy
<1>3. ASSUME NEW r \in Evals, EnqueueRun(r)
      PROVE  /\ Outcomes'
             /\ \A q \in Evals : row[q].status \in Ended => row'[q] = row[q]
  <2>1. /\ \A q \in Evals \ {r} : row'[q] = row[q]
        /\ row[r].status = "absent" /\ row'[r].status = "pending"
        /\ row'[r].cases = row[r].cases /\ row'[r].error = row[r].error
    BY <1>1, <1>3 DEF EnqueueRun, Row
  <2>2. \A q \in Evals : Consistent(q)'
    BY <1>1, <2>1 DEF Outcomes, Consistent
  <2>3. HeldOpen'
    BY <1>1, <2>1, RunKnown DEF Outcomes, HeldOpen, Busy, Open
  <2> QED
    BY <2>1, <2>2, <2>3 DEF Outcomes, Ended
<1> QED
  BY <1>2, <1>3, OutsideStep

LEMMA OutcomesStep ==
  ASSUME Sound, Recorded, Outcomes, [Next]_vars
  PROVE  /\ Outcomes'
         /\ \A r \in Evals : row[r].status \in Ended /\ r \notin overlapped => row'[r] = row[r]
BY StepKinds, OutcomesAlone, OutcomesStart, OutcomesOutside

LEMMA OutcomesInit == Init => Recorded /\ Outcomes
<1> SUFFICES ASSUME Init PROVE Recorded /\ Outcomes
  OBVIOUS
<1>1. \A w \in Executors : ~Busy(w)
  BY DEF Init, Busy, IdleJob
<1>2. \A r \in Evals : row[r] = [status |-> "absent", cases |-> <<>>, error |-> FALSE]
  BY DEF Init
<1> QED
  BY <1>1, <1>2 DEF Recorded, Outcomes, HeldOpen, Consistent

\* What a run reports fits its status, through crashes, overlapping executions and the
\* failure hook (models/evaluation.py:53).
THEOREM OutcomeAlwaysConsistent == Spec => []OutcomeIsConsistent
<1>1. Sound /\ Recorded /\ Outcomes /\ [Next]_vars => Outcomes'
  BY OutcomesStep
<1>2. Outcomes => OutcomeIsConsistent
  BY DEF Outcomes, Consistent, OutcomeIsConsistent
<1> QED
  BY <1>1, <1>2, SoundInit, SoundStep, OutcomesInit, RecordedStep, PTL DEF Spec

\* A late or repeated message leaves a run that has ended alone, as long as no two
\* executions of it overlapped (eval_worker/sweep.py:7).
THEOREM EndedAlwaysStays == Spec => EndedStaysEnded
<1>1. Sound /\ Recorded /\ Outcomes /\ [Next]_vars => Outcomes'
  BY OutcomesStep
<1>2. Sound /\ Recorded /\ Outcomes /\ [Next]_vars =>
        [\A r \in Evals :
           row[r].status \in Ended /\ r \notin overlapped => row'[r] = row[r]]_vars
  BY OutcomesStep
<1> QED
  BY <1>1, <1>2, SoundInit, SoundStep, OutcomesInit, RecordedStep, PTL DEF Spec, EndedStaysEnded

-----------------------------------------------------------------------------
\* An executor that is about to fail had a failure or company; one whose position or
\* fixture changed under it had company.
Explained(w) ==
  /\ job[w].pc \in {"fail", "hook"} => job[w].run \in hit \cup crowded
  /\ job[w].pc = "insert" /\ seeded => job[w].run \in crowded
  /\ job[w].pc = "write" /\ job[w].local # page => job[w].run \in crowded

Reasons == FailsForAReason /\ \A w \in Executors : Explained(w)

LEMMA ReasonsAlone ==
  ASSUME Sound, Recorded, Reasons, NEW w \in Executors, Alone(w)
  PROVE  Reasons'
<1> USE DEF At
<1>1. RestTyped /\ JobsTyped /\ JobsFit
  BY SoundParts
<1>2. /\ Busy(w) /\ (Busy(w)' => job'[w].run = job[w].run)
      /\ \A v \in Executors \ {w} : job'[v] = job[v]
      /\ UNCHANGED crowded /\ hit \subseteq hit'
  BY <1>1, AloneStep
<1>3. job[w] \in Job /\ Explained(w)
  BY <1>1 DEF JobsTyped, Reasons
<1>4. FailsForAReason'
  <2>1. \A r \in Evals \ {job[w].run} : row'[r] = row[r]
    BY <1>1, RowOfAlone
  <2>2. row'[job[w].run].status = "failed" =>
          row[job[w].run].status = "failed" \/ job[w].pc \in {"fail", "hook"}
    <3>1. PICK r \in Evals : r = job[w].run
      BY <1>1, RowOfAlone
    <3>2. row[r] \in Row
      BY <1>1 DEF RestTyped
    <3>3. \/ row'[r] = row[r]
          \/ row'[r] = [row[r] EXCEPT !.status = "running"]
          \/ row'[r] = [status |-> "completed", cases |-> job[w].done,
                        error |-> IF job[w].error THEN FALSE ELSE row[r].error]
          \/ job[w].pc \in {"fail", "hook"}
      BY <1>1, <3>1, RowOfAlone
    <3> QED
      BY <3>1, <3>2, <3>3 DEF Row
  <2> QED
    BY <1>2, <1>3, <2>1, <2>2 DEF Reasons, FailsForAReason, Explained
<1>5. ASSUME NEW v \in Executors \ {w} PROVE Explained(v)'
  <2>1. job'[v] = job[v] /\ Explained(v)
    BY <1>2 DEF Reasons
  <2>2. CASE Busy(v)
    BY <1>2, <2>1, <2>2 DEF Recorded, Explained
  <2>3. CASE ~Busy(v)
    BY <2>1, <2>3 DEF Busy, Explained
  <2> QED
    BY <2>2, <2>3
<1>6. ASSUME NEW pc \in JobPC, Step(w, pc), pc \notin {"fail", "hook", "insert", "write"}
      PROVE  Explained(w)'
  BY <1>1, <1>6 DEF Step, JobsTyped, Job, Explained
<1>7. ASSUME Stop(w) PROVE Explained(w)'
  BY <1>1, <1>7 DEF Stop, IdleJob, JobsTyped, Explained
<1>8. ASSUME NEW pc \in {"fail", "hook"}, Step(w, pc), job[w].run \in hit' \cup crowded
      PROVE  Explained(w)'
  BY <1>1, <1>2, <1>8 DEF Step, JobsTyped, Job, JobPC, Explained
<1>9. ASSUME Claim(w) \/ Reindex(w) \/ Seed(w)
      PROVE  Explained(w)'
  BY <1>6, <1>9 DEF Claim, Reindex, Seed, JobPC
<1>10. ASSUME LookMissing(w)
       PROVE  Explained(w)'
  BY <1>1, <1>10 DEF LookMissing, fixture, Step, JobsTyped, Job, JobPC, Explained
<1>11. ASSUME Insert(w)
       PROVE  Explained(w)'
  <2>1. CASE seeded
    BY <1>3, <1>8, <1>11, <2>1 DEF Insert, Explained
  <2>2. CASE ~seeded
    BY <1>6, <1>11, <2>2 DEF Insert, JobPC
  <2> QED
    BY <2>1, <2>2
<1>12. ASSUME ReadPosition(w)
       PROVE  Explained(w)'
  BY <1>1, <1>12 DEF ReadPosition, fixture, JobsTyped, Job, Explained
<1>13. ASSUME WritePosition(w)
       PROVE  Explained(w)'
  <2>1. CASE job[w].local = NoPage /\ page # NoPage
    <3>1. Step(w, "fail") /\ job[w].run \in crowded
      BY <1>3, <1>13, <2>1 DEF WritePosition, Explained
    <3> QED
      BY <1>8, <3>1
  <2>2. CASE ~(job[w].local = NoPage /\ page # NoPage)
    <3>1. Step(w, "score")
      BY <1>13, <2>2 DEF WritePosition
    <3> QED
      BY <1>6, <3>1 DEF JobPC
  <2> QED
    BY <2>1, <2>2
<1>14. ASSUME ScoreCase(w)
       PROVE  Explained(w)'
  <2>1. job'[w].pc \in {"commit", "case"}
    BY <1>1, <1>14 DEF ScoreCase, JobsTyped, Job
  <2> QED
    BY <2>1 DEF Explained
<1>15. ASSUME Complete(w) \/ Fail(w) \/ MarkFailed(w) \/ Crash(w)
       PROVE  Explained(w)'
  BY <1>7, <1>15 DEF Complete, Fail, MarkFailed, Crash
<1>16. ASSUME CaseRaises(w) \/ CommitRaises(w)
       PROVE  Explained(w)'
  <2>1. job[w].run \in hit' /\ (Step(w, "fail") \/ Step(w, "hook") \/ Stop(w))
    BY <1>16 DEF CaseRaises, CommitRaises
  <2> QED
    BY <1>7, <1>8, <2>1
<1>17. ASSUME Redeliver(w)
       PROVE  Explained(w)'
  BY <1>3, <1>17 DEF Redeliver, fixture, Explained
<1>18. Explained(w)'
  BY <1>9, <1>10, <1>11, <1>12, <1>13, <1>14, <1>15, <1>16, <1>17 DEF Alone, Execute
<1> QED
  BY <1>4, <1>5, <1>18 DEF Reasons

LEMMA ReasonsStart ==
  ASSUME Sound, Reasons, NEW w \in Executors, NEW r \in Evals,
         SyncRun(w, r) \/ Receive(w, r), ~Busy(w), Start(w, r)
  PROVE  Reasons'
<1>1. JobsTyped /\ row \in [Evals -> Row]
  BY SoundParts DEF RestTyped
<1>2. /\ job'[w].pc \in {"look", "claim"}
      /\ \A v \in Executors \ {w} : job'[v] = job[v]
      /\ crowded \subseteq crowded'
  BY <1>1, StartStep
<1>3. UNCHANGED <<hit, seeded, page>>
      /\ \A q \in Evals : row'[q].status = "failed" => row[q].status = "failed"
  <2>1. CASE SyncRun(w, r)
    BY <1>1, <2>1 DEF SyncRun, fixture, Row
  <2>2. CASE Receive(w, r)
    BY <2>2 DEF Receive, fixture
  <2> QED
    BY <2>1, <2>2
<1>4. FailsForAReason'
  BY <1>2, <1>3 DEF Reasons, FailsForAReason
<1>5. \A v \in Executors : Explained(v)'
  BY <1>2, <1>3 DEF Reasons, Explained
<1> QED
  BY <1>4, <1>5 DEF Reasons

LEMMA ReasonsOutside ==
  ASSUME Sound, Reasons, Outside
  PROVE  Reasons'
<1>1. row \in [Evals -> Row] /\ UNCHANGED <<job, crowded, hit, seeded, page>>
  BY SoundParts, OutsideStep DEF RestTyped
<1>2. \A q \in Evals : row'[q].status = "failed" => row[q].status = "failed"
  BY <1>1, OutsideStep DEF EnqueueRun, Row
<1> QED
  BY <1>1, <1>2 DEF Reasons, FailsForAReason, Explained

\* A run fails only if something failed under it, or it ran next to another one, whose
\* first-time INSERTs it collides with (evaluation_service.py:310-428).
THEOREM AlwaysFailsForAReason == Spec => []FailsForAReason
<1>1. Init => Reasons
  BY DEF Init, Reasons, FailsForAReason, Explained, IdleJob
<1>2. Sound /\ Recorded /\ Reasons /\ [Next]_vars => Reasons'
  BY StepKinds, ReasonsAlone, ReasonsStart, ReasonsOutside
<1>3. Reasons => FailsForAReason
  BY DEF Reasons
<1> QED
  BY <1>1, <1>2, <1>3, SoundInit, SoundStep, OutcomesInit, RecordedStep, PTL DEF Spec

-----------------------------------------------------------------------------
\* A score given in its place, in run r at position i.
InPlace(r, score, i) ==
  /\ r \notin wiped => score.searched
  /\ r \notin crowded => score.bound = Cases[i]

\* An executor's scores are in place, the fixture is searchable while it asks, and the
\* position is the one it wrote.
Placed(w) ==
  /\ Busy(w) => \A i \in DOMAIN job[w].done : InPlace(job[w].run, job[w].done[i], i)
  /\ job[w].pc \in {"case", "write", "score"} /\ job[w].run \notin wiped => points
  /\ job[w].pc = "score" /\ job[w].run \notin crowded => page = Question(w)

Places == ScoredInPlace /\ \A w \in Executors : Placed(w)

LEMMA PlacesAlone ==
  ASSUME Sound, Recorded, Reasons, Places, NEW w \in Executors, Alone(w)
  PROVE  Places'
<1> USE DEF At, Busy
<1>1. RestTyped /\ JobsTyped /\ JobsFit
  BY SoundParts
<1>2. /\ Busy(w) /\ (Busy(w)' => job'[w].run = job[w].run)
      /\ \A v \in Executors \ {w} : job'[v] = job[v]
      /\ UNCHANGED <<crowded, wiped>>
  BY <1>1, AloneStep
<1>3. job \in [Executors -> Job] /\ job[w] \in Job /\ Placed(w) /\ Explained(w) /\ Fits(w)
  BY <1>1 DEF JobsTyped, JobsFit, Places, Reasons
<1>4. points' = points \/ points' = TRUE
  BY DEF Alone, Execute, Claim, LookMissing, Reindex, Insert, Seed, ReadPosition, WritePosition,
     ScoreCase, Complete, Fail, MarkFailed, CaseRaises, CommitRaises, Crash, Redeliver, fixture
<1>5. PICK r \in Evals : r = job[w].run
  BY <1>1, RowOfAlone
<1>6. ScoredInPlace'
  <2>1. \A q \in Evals \ {r} : row'[q] = row[q]
    BY <1>1, <1>5, RowOfAlone
  <2>2. row[r] \in Row
    BY <1>1 DEF RestTyped
  <2>3. row'[r].cases \in {row[r].cases, job[w].done, <<>>}
    <3>1. \/ row'[r] = row[r]
          \/ row'[r] = [row[r] EXCEPT !.status = "running"]
          \/ row'[r] = [status |-> "completed", cases |-> job[w].done,
                        error |-> IF job[w].error THEN FALSE ELSE row[r].error]
          \/ row'[r] = [status |-> "failed", cases |-> <<>>, error |-> TRUE]
          \/ row'[r] = [row[r] EXCEPT !.status = "failed", !.error = TRUE]
      BY <1>1, <1>5, RowOfAlone
    <3>2. CASE row'[r] = [row[r] EXCEPT !.status = "running"]
      BY <2>2, <3>2 DEF Row
    <3>3. CASE row'[r] = [row[r] EXCEPT !.status = "failed", !.error = TRUE]
      BY <2>2, <3>3 DEF Row
    <3> QED
      BY <3>1, <3>2, <3>3
  <2>4. \A i \in DOMAIN row'[r].cases : InPlace(r, row'[r].cases[i], i)
    <3>1. CASE row'[r].cases = row[r].cases
      BY <3>1 DEF Places, ScoredInPlace, InPlace
    <3>2. CASE row'[r].cases = job[w].done
      BY <1>2, <1>3, <1>5, <3>2 DEF Placed
    <3>3. CASE row'[r].cases = <<>>
      BY <3>3
    <3> QED
      BY <2>3, <3>1, <3>2, <3>3
  <2> QED
    BY <1>2, <2>1, <2>4 DEF Places, ScoredInPlace, InPlace
<1>7. ASSUME NEW v \in Executors \ {w} PROVE Placed(v)'
  <2>1. job'[v] = job[v] /\ Placed(v)
    BY <1>2 DEF Places
  <2>2. CASE Busy(v)
    <3>1. job[v].run \in crowded
      BY <1>2, <2>2 DEF Recorded
    <3> QED
      BY <1>2, <1>4, <2>1, <2>2, <3>1 DEF Placed, InPlace
  <2>3. CASE ~Busy(v)
    BY <2>1, <2>3 DEF Placed
  <2> QED
    BY <2>2, <2>3
<1>8. ASSUME job'[w].done = job[w].done, Busy(w)',
             job'[w].pc \in {"case", "write"} /\ job[w].run \notin wiped => points',
             job'[w].pc # "score"
      PROVE  Placed(w)'
  BY <1>2, <1>3, <1>8 DEF Placed, InPlace
<1>9. ASSUME Stop(w) PROVE Placed(w)'
  BY <1>3, <1>9 DEF Stop, IdleJob, Placed
<1>10. ASSUME NEW pc \in JobPC, Step(w, pc)
       PROVE  job'[w].done = job[w].done /\ job'[w].pc = pc /\ job'[w].run = job[w].run
  BY <1>3, <1>10 DEF Step, Job
<1>11. ASSUME Claim(w) \/ LookMissing(w) \/ Insert(w) \/ CaseRaises(w) \/ CommitRaises(w)
       PROVE  Placed(w)'
  <2>1. \/ \E pc \in {"look", "insert", "seed", "fail", "hook"} : Step(w, pc)
        \/ Stop(w)
    BY <1>11 DEF Claim, LookMissing, Insert, CaseRaises, CommitRaises
  <2> QED
    BY <1>8, <1>9, <1>10, <2>1 DEF JobPC
<1>12. ASSUME Reindex(w) \/ Seed(w)
       PROVE  Placed(w)'
  <2>1. Step(w, "case") /\ points'
    BY <1>12 DEF Reindex, Seed
  <2> QED
    BY <1>8, <1>10, <2>1 DEF JobPC
<1>13. ASSUME ReadPosition(w)
       PROVE  Placed(w)'
  <2>1. job'[w].done = job[w].done /\ job'[w].pc = "write" /\ job[w].pc = "case" /\ points' = points
    BY <1>3, <1>13 DEF ReadPosition, fixture, Job
  <2> QED
    BY <1>3, <1>8, <2>1 DEF Placed
<1>14. ASSUME WritePosition(w)
       PROVE  Placed(w)'
  <2>1. job[w].pc = "write" /\ points' = points
    BY <1>14 DEF WritePosition
  <2>2. CASE job[w].local = NoPage /\ page # NoPage
    <3>1. Step(w, "fail")
      BY <1>14, <2>2 DEF WritePosition
    <3> QED
      BY <1>8, <1>10, <3>1 DEF JobPC
  <2>3. CASE ~(job[w].local = NoPage /\ page # NoPage)
    <3>1. /\ Step(w, "score")
          /\ page' = IF job[w].local = Question(w) THEN page ELSE Question(w)
      BY <1>14, <2>3 DEF WritePosition
    <3>2. job'[w].done = job[w].done /\ job'[w].pc = "score" /\ job'[w].run = job[w].run
      BY <1>10, <3>1 DEF JobPC
    <3>3. job[w].run \notin crowded => page' = Question(w)
      BY <1>3, <2>1, <3>1 DEF Explained
    <3>4. Question(w)' = Question(w)
      BY <3>2 DEF Question
    <3> QED
      BY <1>2, <1>3, <2>1, <3>2, <3>3, <3>4 DEF Placed, InPlace
  <2> QED
    BY <2>2, <2>3
<1>15. ASSUME ScoreCase(w)
       PROVE  Placed(w)'
  <2> DEFINE s == [bound |-> IF Question(w) = Whole THEN Whole ELSE page, searched |-> points]
             n == Len(job[w].done)
  <2>1. job[w].done \in Seq(Score) /\ s \in Score /\ n \in Nat
    <3>1. job[w].done \in Seq(Score)
      BY <1>3 DEF Job
    <3>2. s \in Score
      BY <1>1 DEF Score, RestTyped
    <3> QED
      BY <3>1, <3>2
  <2>2. /\ Append(job[w].done, s) \in Seq(Score) /\ Len(Append(job[w].done, s)) = n + 1
        /\ \A i \in 1..n : Append(job[w].done, s)[i] = job[w].done[i]
        /\ Append(job[w].done, s)[n + 1] = s
    BY <2>1, AppendProperties
  <2>3. /\ job'[w].done = Append(job[w].done, s) /\ job'[w].run = job[w].run
        /\ job'[w].pc \in {"commit", "case"} /\ points' = points
    BY <1>3, <1>15 DEF ScoreCase, fixture, Job
  <2>4. job[w].pc \in {"case", "score"} /\ (job[w].pc = "case" => Question(w) = Whole)
    BY <1>15 DEF ScoreCase
  <2>5. InPlace(job[w].run, s, n + 1)
    <3>1. job[w].run \notin wiped => points
      BY <1>3, <2>4 DEF Placed
    <3>2. job[w].run \notin crowded => s.bound = Cases[n + 1]
      BY <1>3, <2>4 DEF Placed, Question
    <3> QED
      BY <3>1, <3>2 DEF InPlace
  <2>6. DOMAIN Append(job[w].done, s) = 1..(n + 1) /\ DOMAIN job[w].done = 1..n
    BY <2>1, <2>2
  <2>7. ASSUME NEW i \in 1..(n + 1) PROVE InPlace(job[w].run, Append(job[w].done, s)[i], i)
    <3>1. CASE i = n + 1
      BY <2>2, <2>5, <3>1
    <3>2. CASE i # n + 1
      <4>1. i \in 1..n
        BY <2>1, <3>2
      <4>2. InPlace(job[w].run, job[w].done[i], i)
        BY <1>2, <1>3, <2>6, <4>1 DEF Placed
      <4> QED
        BY <2>2, <4>1, <4>2
    <3> QED
      BY <3>1, <3>2
  <2>8. job[w].run \notin wiped => points'
    BY <1>3, <2>3, <2>4 DEF Placed
  <2> HIDE DEF s, n
  <2>9. PICK q, done, m : q = job[w].run /\ done = Append(job[w].done, s) /\ m = n + 1
    OBVIOUS
  <2>10. \A i \in DOMAIN job'[w].done : InPlace(q, job'[w].done[i], i)
    BY <2>3, <2>6, <2>7, <2>9
  <2> QED
    BY <1>2, <2>3, <2>8, <2>9, <2>10 DEF Placed, InPlace
<1>16. ASSUME Complete(w) \/ Fail(w) \/ MarkFailed(w) \/ Crash(w)
       PROVE  Placed(w)'
  BY <1>9, <1>16 DEF Complete, Fail, MarkFailed, Crash
<1>17. ASSUME Redeliver(w)
       PROVE  Placed(w)'
  BY <1>2, <1>3, <1>17 DEF Redeliver, fixture, Placed, InPlace, Question
<1>18. Placed(w)'
  BY <1>11, <1>12, <1>13, <1>14, <1>15, <1>16, <1>17 DEF Alone, Execute
<1> QED
  BY <1>6, <1>7, <1>18 DEF Places

LEMMA PlacesStart ==
  ASSUME Sound, Places, NEW w \in Executors, NEW r \in Evals,
         SyncRun(w, r) \/ Receive(w, r), ~Busy(w), Start(w, r)
  PROVE  Places'
<1>1. JobsTyped /\ row \in [Evals -> Row]
  BY SoundParts DEF RestTyped
<1>2. /\ job'[w].pc \in {"look", "claim"} /\ job'[w].done = <<>>
      /\ \A v \in Executors \ {w} : job'[v] = job[v]
      /\ crowded \subseteq crowded'
  BY <1>1, StartStep
<1>3. UNCHANGED <<wiped, points, page>> /\ \A q \in Evals : row'[q].cases = row[q].cases
  <2>1. CASE SyncRun(w, r)
    BY <1>1, <2>1 DEF SyncRun, fixture, Row
  <2>2. CASE Receive(w, r)
    BY <2>2 DEF Receive, fixture
  <2> QED
    BY <2>1, <2>2
<1>4. ScoredInPlace'
  BY <1>2, <1>3 DEF Places, ScoredInPlace
<1>5. \A v \in Executors \ {w} : Placed(v)'
  BY <1>2, <1>3 DEF Places, Placed, InPlace, Busy, Question
<1>6. Placed(w)'
  BY <1>2 DEF Placed
<1> QED
  BY <1>4, <1>5, <1>6 DEF Places

LEMMA PlacesOutside ==
  ASSUME Sound, Places, Outside
  PROVE  Places'
<1>1. /\ row \in [Evals -> Row] /\ UNCHANGED <<job, crowded, page>> /\ wiped \subseteq wiped'
      /\ points' = points \/ WipeVectors
  BY SoundParts, OutsideStep DEF RestTyped
<1>2. \A q \in Evals : row'[q].cases = row[q].cases
  BY <1>1, OutsideStep DEF EnqueueRun, Row
<1>3. ScoredInPlace'
  BY <1>1, <1>2 DEF Places, ScoredInPlace
<1>4. ASSUME NEW w \in Executors PROVE Placed(w)'
  <2>1. Placed(w)
    BY DEF Places
  <2>2. CASE points' = points
    BY <1>1, <2>1, <2>2 DEF Placed, InPlace, Busy, Question
  <2>3. CASE WipeVectors
    <3>1. Busy(w) => job[w].run \in wiped'
      BY <2>3 DEF WipeVectors
    <3> QED
      BY <1>1, <2>1, <3>1 DEF Placed, InPlace, Busy, Question
  <2> QED
    BY <1>1, <2>2, <2>3
<1> QED
  BY <1>3, <1>4 DEF Places

\* Every case was scored in its place: it searched the fixture's vectors, unless the
\* collection was emptied during the run, and a run without company was bounded by the page
\* the dataset gives (evaluation_service.py:310-428).
THEOREM AlwaysScoredInPlace == Spec => []ScoredInPlace
<1>1. Init => Reasons /\ Places
  BY DEF Init, Reasons, FailsForAReason, Explained, Places, ScoredInPlace, Placed, Busy, IdleJob
<1>2. Sound /\ Recorded /\ Reasons /\ [Next]_vars => Reasons'
  BY StepKinds, ReasonsAlone, ReasonsStart, ReasonsOutside
<1>3. Sound /\ Recorded /\ Reasons /\ Places /\ [Next]_vars => Places'
  BY StepKinds, PlacesAlone, PlacesStart, PlacesOutside
<1>4. Places => ScoredInPlace
  BY DEF Places
<1> QED
  BY <1>1, <1>2, <1>3, <1>4, SoundInit, SoundStep, OutcomesInit, RecordedStep, PTL DEF Spec
=============================================================================
