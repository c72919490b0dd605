----------------------------- MODULE ChatProofs -----------------------------
(***************************************************************************)
(* Theorems about Chat, for any requests, batches and bounds.              *)
(***************************************************************************)
EXTENDS Chat, TLAPS

-----------------------------------------------------------------------------
(* Types *)

\* The constant records have their types.
LEMMA Defaults ==
  /\ NoPrompt \in Prompt /\ NoDecision \in Decision
  /\ NoThread \in Checkpoint /\ Idle \in RequestState
<1>1. NoRange \in Ranges /\ 0 \in Turns /\ 0 \in Rounds /\ 0 \in Pages
  BY LimitAssumption DEF NoRange, Ranges, Pages, Turns, Rounds
<1>2. NoPrompt \in Prompt
  BY <1>1 DEF NoPrompt, Prompt
<1>3. NoDecision \in Decision
  BY <1>1 DEF NoDecision, Decision
<1>4. NoThread \in Checkpoint
  BY <1>1, <1>2 DEF NoThread, Checkpoint, NoBatch, Node
<1>5. Idle \in RequestState
  BY <1>1, <1>3, <1>4 DEF Idle, RequestState, Kind
<1>6. QED
  BY <1>2, <1>3, <1>4, <1>5

\* Moving to a node keeps a checkpoint well typed.
LEMMA GotoType ==
  ASSUME NEW c \in Checkpoint, NEW n \in Node
  PROVE  Goto(c, n) \in Checkpoint
<1>1. <<>> \in Seq(Decision)
  OBVIOUS
<1>2. NoPrompt \in Prompt
  BY Defaults
<1>3. QED
  BY <1>1, <1>2 DEF Goto, Checkpoint

\* So does beginning a turn.
LEMMA NewTurnType ==
  ASSUME NEW c \in Checkpoint, NEW t \in Turns
  PROVE  NewTurn(c, t) \in Checkpoint
<1>1. Goto(c, "guardrail_in") \in Checkpoint
  BY GotoType DEF Node
<1>2. 0 \in Rounds
  BY LimitAssumption DEF Rounds
<1>3. (c.sound /\ c.node # "tools") \in BOOLEAN
  OBVIOUS
<1>4. QED
  BY <1>1, <1>2, <1>3 DEF NewTurn, Checkpoint, NoBatch

\* A checkpoint written by a node is well typed if its new state is.
LEMMA CheckpointedType ==
  ASSUME TypeOK, NEW r \in Requests, NEW c \in Checkpoint,
         NEW pc \in {"run", "frame", "record"}, Checkpointed(r, c, pc)
  PROVE  thread' \in Checkpoint /\ request' \in [Requests -> RequestState]
BY DEF Checkpointed, TypeOK, RequestState

\* The place a request goes to when its run of the graph ends.
LEMMA YieldType ==
  ASSUME NEW r \in Requests
  PROVE  Yield(r) \in {"run", "frame", "record"}
BY DEF Yield

\* A prompt about the pages not yet summarized is about pages of the document.
LEMMA ProposedType ==
  ASSUME TypeOK, page > mark
  PROVE  Proposed \in Ranges
BY LimitAssumption DEF TypeOK, Proposed, Ranges, Pages

LEMMA GateType ==
  ASSUME NEW c \in Checkpoint, NEW i \in Nat
  PROVE  Gate(c, i) \in Prompt
BY Defaults, LimitAssumption DEF Gate, Checkpoint, Prompt, NoRange, Ranges, Pages

\* Nothing that is acted on is anything but a prompt.
LEMMA ActType ==
  ASSUME TypeOK, NEW P \in SUBSET Prompt, Act(P)
  PROVE  unasked' \subseteq Prompt
BY DEF Act, TypeOK

LEMMA RunType ==
  ASSUME TypeOK, NEW r \in Requests
  PROVE  /\ State(r) \in Checkpoint
         /\ State(r).turn \in Turns /\ State(r).round \in Rounds
         /\ State(r).given \in Seq(Decision) /\ State(r).batch.gated \in Nat
         /\ State(r).prompt \in Prompt
BY BatchAssumption DEF TypeOK, State, RequestState, Checkpoint

LEMMA IdleType ==
  ASSUME TypeOK, NEW r \in Requests
  PROVE  [request EXCEPT ![r] = Idle] \in [Requests -> RequestState]
BY Defaults DEF TypeOK

\* What a request writes to the transcript is a sequence of messages.
LEMMA LinesType ==
  ASSUME TypeOK, NEW r \in Requests
  PROVE  Lines(r) \in
           Seq([role : {"user", "assistant"}, turn : Turns, ack : Turns])
<1> DEFINE M == [role : {"user", "assistant"}, turn : Turns, ack : Turns]
<1>1. 0 \in Turns
  BY LimitAssumption DEF Turns
<1>2. ASSUME NEW c \in Checkpoint, NEW role \in {"user", "assistant"}
      PROVE  Message(role, c) \in M
  BY <1>1, <1>2 DEF Message, Checkpoint
<1>3. Message("user", State(r)) \in M /\ Message("assistant", State(r)) \in M
  BY <1>2, RunType
<1> HIDE DEF M
<1>4. <<>> \in Seq(M) /\ <<Message("user", State(r))>> \in Seq(M)
      /\ <<Message("assistant", State(r))>> \in Seq(M)
  BY <1>3
<1>5. Lines(r) \in Seq(M)
  BY <1>4 DEF Lines
<1>6. QED
  BY <1>5 DEF M

\* A node that only rewrites the checkpoint leaves everything well typed.
LEMMA RewriteType ==
  ASSUME TypeOK, NEW r \in Requests, NEW c \in Checkpoint,
         Continue(r, c) \/ Finish(r, c),
         UNCHANGED <<progress, client, unasked, losses>>
  PROVE  TypeOK'
<1>1. thread' \in Checkpoint /\ request' \in [Requests -> RequestState]
  BY CheckpointedType, YieldType DEF Continue, Finish
<1>2. QED
  BY <1>1 DEF TypeOK, progress, client, losses

\* And so does one that asks.
LEMMA PauseType ==
  ASSUME TypeOK, NEW r \in Requests, NEW p \in Prompt, Pause(r, p)
  PROVE  thread' \in Checkpoint /\ request' \in [Requests -> RequestState]
<1>1. [State(r) EXCEPT !.prompt = p] \in Checkpoint
  BY RunType DEF Checkpoint
<1>2. QED
  BY <1>1, CheckpointedType, YieldType DEF Pause

\* The graph's steps keep the types.
LEMMA GraphType ==
  ASSUME TypeOK, NEW r \in Requests, GraphStep(r)
  PROVE  TypeOK'
<1> USE DEF progress, client, losses
<1>1. CASE Input(r)
  <2>1. NewTurn(thread, request[r].turn) \in Checkpoint
    BY NewTurnType DEF TypeOK, RequestState
  <2>2. QED
    BY <1>1, <2>1, RewriteType DEF Input
<1>2. CASE GuardrailIn(r)
  <2>1. Goto(State(r), "generate") \in Checkpoint
    BY RunType, GotoType DEF Node
  <2>2. Goto(State(r), "end") \in Checkpoint
    BY RunType, GotoType DEF Node
  <2>3. [Goto(State(r), "end") EXCEPT !.text = "refused"] \in Checkpoint
    BY <2>2 DEF Checkpoint
  <2>4. QED
    BY <1>2, <2>1, <2>3, RewriteType DEF GuardrailIn
<1>3. CASE Generate(r)
  <2>1. ASSUME NEW b \in Batches, State(r).round < MaxRounds
        PROVE  [Goto(State(r), "tools") EXCEPT !.batch = b, !.round = @ + 1]
                 \in Checkpoint
    <3>1. Goto(State(r), "tools") \in Checkpoint
      BY RunType, GotoType DEF Node
    <3>2. Goto(State(r), "tools").round = State(r).round
      BY RunType DEF Goto, Checkpoint
    <3>3. State(r).round + 1 \in Rounds
      BY <2>1, RunType, LimitAssumption DEF Rounds
    <3>4. QED
      BY <3>1, <3>2, <3>3 DEF Checkpoint
  <2>2. Goto(State(r), "persist_memory") \in Checkpoint
    BY RunType, GotoType DEF Node
  <2>3. QED
    BY <1>3, <2>1, <2>2, RewriteType DEF Generate
<1>4. CASE GenerateRejected(r)
  BY <1>4, RunType, IdleType DEF GenerateRejected, TypeOK
<1>5. CASE RunTools(r)
  <2> DEFINE c == State(r)
  <2>1. {Gate(c, i) : i \in Permitted(c)} \in SUBSET Prompt
    <3>1. Permitted(c) \subseteq Nat
      BY DEF Permitted
    <3>2. QED
      BY <3>1, RunType, GateType
  <2>2. unasked' \subseteq Prompt
    BY <1>5, <2>1, ActType DEF RunTools
  <2>3. Gate(c, Len(c.given) + 1) \in Prompt
    BY RunType, GateType
  <2>4. [Goto(c, "generate") EXCEPT !.active = c.batch.names,
           !.unjudged = @ \/ c.batch.names] \in Checkpoint
    <3>1. Goto(c, "generate") \in Checkpoint
      BY RunType, GotoType DEF Node
    <3>2. c.batch.names \in BOOLEAN
      <4>1. c.batch \in Batches \cup {[gated |-> 0, names |-> FALSE]}
        BY RunType DEF Checkpoint
      <4>2. CASE c.batch \in Batches
        BY <4>2, BatchAssumption
      <4>3. CASE c.batch = [gated |-> 0, names |-> FALSE]
        BY <4>3
      <4>4. QED
        BY <4>1, <4>2, <4>3
    <3>3. (Goto(c, "generate").unjudged \/ c.batch.names) \in BOOLEAN
      OBVIOUS
    <3>4. QED
      BY <3>1, <3>2, <3>3 DEF Checkpoint
  <2>5. CASE Pause(r, Gate(c, Len(c.given) + 1))
    BY <1>5, <2>2, <2>3, <2>5, PauseType DEF RunTools, TypeOK
  <2>6. CASE Continue(r, [Goto(c, "generate") EXCEPT !.active = c.batch.names,
                            !.unjudged = @ \/ c.batch.names])
    <3>1. thread' \in Checkpoint /\ request' \in [Requests -> RequestState]
      BY <2>4, <2>6, CheckpointedType DEF Continue
    <3>2. QED
      BY <1>5, <2>2, <3>1 DEF RunTools, TypeOK
  <2>7. QED
    BY <1>5, <2>5, <2>6 DEF RunTools
<1>6. CASE PersistAsks(r)
  <2>1. [turn |-> State(r).turn, round |-> State(r).round,
         at |-> "persist_memory", item |-> 0, range |-> Proposed] \in Prompt
    BY <1>6, RunType, ProposedType DEF PersistAsks, Prompt
  <2>2. QED
    BY <1>6, <2>1, PauseType DEF PersistAsks, TypeOK
<1>7. CASE PersistSkips(r)
  <2>1. Goto(State(r), "guardrail_out") \in Checkpoint
    BY RunType, GotoType DEF Node
  <2>2. QED
    BY <1>7, <2>1, RewriteType DEF PersistSkips
<1>8. CASE SaveSummary(r)
  <2> DEFINE c == State(r)
             range == IF Head(c.given).range = NoRange
                      THEN Proposed ELSE Head(c.given).range
  <2>1. Head(c.given) \in Decision
    BY <1>8, RunType DEF SaveSummary
  <2>2. range \in Ranges
    BY <1>8, <2>1, ProposedType DEF SaveSummary, Decision
  <2>3. summaries' = Append(summaries, [turn |-> c.turn, range |-> range,
                                        shown |-> c.prompt.range])
    BY <1>8 DEF SaveSummary
  <2>4. request' = [request EXCEPT ![r].pc = "advance", ![r].range = range,
                                   ![r].seen = mark]
    BY <1>8 DEF SaveSummary
  <2> HIDE DEF range
  <2>5. [turn |-> c.turn, range |-> range, shown |-> c.prompt.range]
          \in [turn : Turns, range : Ranges, shown : Ranges]
    BY <2>2, RunType DEF Prompt
  <2>6. summaries' \in Seq([turn : Turns, range : Ranges, shown : Ranges])
    BY <2>3, <2>5 DEF TypeOK
  <2>7. request' \in [Requests -> RequestState]
    <3>1. request[r] \in RequestState /\ mark \in Pages
      BY DEF TypeOK
    <3>2. [request[r] EXCEPT !.pc = "advance", !.range = range, !.seen = mark]
            \in RequestState
      BY <2>2, <3>1 DEF RequestState
    <3>3. request' = [request EXCEPT ![r] = [request[r] EXCEPT
                        !.pc = "advance", !.range = range, !.seen = mark]]
      BY <2>4 DEF TypeOK
    <3>4. QED
      BY <3>2, <3>3 DEF TypeOK
  <2>8. unasked' \subseteq Prompt
    BY <1>8, RunType, ActType DEF SaveSummary
  <2>9. QED
    BY <1>8, <2>6, <2>7, <2>8 DEF SaveSummary, TypeOK
<1>9. CASE AdvancePage(r)
  <2>1. request[r].seen \in Pages /\ request[r].range[2] \in Pages
    BY DEF TypeOK, RequestState, Ranges
  <2>2. request' \in [Requests -> RequestState]
    BY <1>9 DEF AdvancePage, TypeOK, RequestState
  <2>3. QED
    BY <1>9, <2>1, <2>2 DEF AdvancePage, TypeOK
<1>10. CASE NoteSaved(r)
  <2> DEFINE c == [Goto(State(r), "guardrail_out") EXCEPT !.ack = State(r).turn]
  <2>1. Goto(State(r), "guardrail_out") \in Checkpoint
    BY RunType, GotoType DEF Node
  <2>2. c \in Checkpoint
    BY <2>1, RunType DEF Checkpoint
  <2>3. thread' = c /\ request' = [request EXCEPT ![r].local = c, ![r].pc = "run",
                                     ![r].range = NoRange, ![r].seen = 0]
    BY <1>10 DEF NoteSaved
  <2> HIDE DEF c
  <2>4. NoRange \in Ranges /\ 0 \in Pages
    BY LimitAssumption DEF NoRange, Ranges, Pages
  <2>5. request' \in [Requests -> RequestState]
    <3>1. request[r] \in RequestState
      BY DEF TypeOK
    <3>2. [request[r] EXCEPT !.local = c, !.pc = "run", !.range = NoRange,
                             !.seen = 0] \in RequestState
      BY <2>2, <2>4, <3>1 DEF RequestState
    <3>3. request' = [request EXCEPT ![r] = [request[r] EXCEPT
                        !.local = c, !.pc = "run", !.range = NoRange, !.seen = 0]]
      BY <2>3 DEF TypeOK
    <3>4. QED
      BY <3>2, <3>3 DEF TypeOK
  <2>6. QED
    BY <1>10, <2>2, <2>3, <2>5 DEF NoteSaved, TypeOK
<1>11. ASSUME NEW t \in {"shown", "withheld"}
       PROVE  Reply(State(r), t) \in Checkpoint /\ Judged(State(r), t) \in Checkpoint
  <2>1. Goto(State(r), "end") \in Checkpoint
    BY RunType, GotoType DEF Node
  <2>2. Reply(State(r), t) \in Checkpoint
    BY <2>1, <1>11 DEF Reply, Checkpoint
  <2>3. QED
    BY <2>2 DEF Judged, Checkpoint
<1>12. CASE PassUnjudged(r)
  BY <1>12, <1>11, RewriteType DEF PassUnjudged
<1>13. CASE JudgedSafe(r)
  BY <1>13, <1>11, RewriteType DEF JudgedSafe
<1>14. CASE JudgedRisky(r)
  <2> DEFINE c == State(r)
             p == [turn |-> c.turn, round |-> c.round, at |-> "guardrail_out",
                   item |-> 0, range |-> NoRange]
  <2>1. p \in Prompt
    BY RunType, LimitAssumption DEF Prompt, NoRange, Ranges, Pages
  <2>2. CASE Pause(r, p) /\ UNCHANGED unasked
    BY <1>14, <2>1, <2>2, PauseType DEF JudgedRisky, TypeOK
  <2>3. CASE Finish(r, Judged(c, "shown")) /\ Act({c.prompt})
    <3>1. thread' \in Checkpoint /\ request' \in [Requests -> RequestState]
      BY <1>11, <2>3, CheckpointedType, YieldType DEF Finish
    <3>2. unasked' \subseteq Prompt
      BY <2>3, RunType, ActType
    <3>3. QED
      BY <1>14, <3>1, <3>2 DEF JudgedRisky, TypeOK
  <2>4. CASE Finish(r, Judged(c, "withheld")) /\ UNCHANGED unasked
    BY <1>14, <1>11, <2>4, RewriteType DEF JudgedRisky
  <2>5. QED
    BY <1>14, <2>2, <2>3, <2>4 DEF JudgedRisky
<1>15. QED
  BY <1>1, <1>2, <1>3, <1>4, <1>5, <1>6, <1>7, <1>8, <1>9, <1>10, <1>12,
     <1>13, <1>14 DEF GraphStep

\* The state is well typed: no node, handler or crash leaves a checkpoint, a
\* prompt or a saved range that is none.
THEOREM ChatTypeCorrect == Spec => []TypeOK
<1>1. Init => TypeOK
  <2>1. 0 \in Turns /\ 0 \in Pages /\ 0 \in 0..MaxFaults
    BY LimitAssumption DEF Turns, Pages
  <2>2. <<>> \in Seq([role : {"user", "assistant"}, turn : Turns, ack : Turns])
        /\ <<>> \in Seq([turn : Turns, range : Ranges, shown : Ranges])
    OBVIOUS
  <2>3. QED
    BY <2>1, <2>2, Defaults DEF Init, TypeOK
<1>2. TypeOK /\ [Next]_vars => TypeOK'
  <2> SUFFICES ASSUME TypeOK, [Next]_vars PROVE TypeOK'
    OBVIOUS
  <2> USE DEF vars, progress, client, losses
  <2>1. ASSUME NEW r \in Requests, Send(r) PROVE TypeOK'
    <3>1. turns + 1 \in Turns /\ turns' = turns + 1
      BY <2>1, LimitAssumption DEF Send, TypeOK, Turns
    <3>2. request' \in [Requests -> RequestState]
      <4>1. PICK k \in {"chat", "stream"} : request' = [request EXCEPT ![r] =
               [Idle EXCEPT !.pc = "input", !.kind = k, !.turn = turns + 1]]
        BY <2>1 DEF Send
      <4>2. [Idle EXCEPT !.pc = "input", !.kind = k, !.turn = turns + 1]
              \in RequestState
        BY <3>1, Defaults DEF RequestState, Kind
      <4>3. QED
        BY <4>1, <4>2 DEF TypeOK
    <3>3. QED
      BY <2>1, <3>1, <3>2, Defaults DEF Send, TypeOK
  <2>2. ASSUME NEW r \in Requests, Resume(r) PROVE TypeOK'
    <3>1. PICK d \in Answers(screen) :
            /\ request' = [request EXCEPT ![r] =
                 [Idle EXCEPT !.pc = "check", !.kind = "resume", !.decision = d]]
            /\ consented' = IF d.act = "deny" THEN consented
                            ELSE consented \cup {screen}
      BY <2>2 DEF Resume
    <3>2. d \in Decision
      BY LimitAssumption DEF Answers, Decision, NoRange, Ranges, Pages
    <3>3. [Idle EXCEPT !.pc = "check", !.kind = "resume", !.decision = d]
            \in RequestState
      BY <3>2, Defaults DEF RequestState, Kind
    <3>4. QED
      BY <2>2, <3>1, <3>3 DEF Resume, TypeOK
  <2>3. ASSUME NEW r \in Requests, Delete(r) PROVE TypeOK'
    <3>1. [Idle EXCEPT !.pc = "row", !.kind = "delete"] \in RequestState
      BY Defaults DEF RequestState, Kind
    <3>2. QED
      BY <2>3, <3>1, Defaults DEF Delete, TypeOK
  <2>4. ASSUME NEW r \in Requests, CheckPaused(r) PROVE TypeOK'
    <3>1. [request[r] EXCEPT !.pc = "load"] \in RequestState
      BY DEF TypeOK, RequestState
    <3>2. request' \in [Requests -> RequestState]
      BY <2>4, <3>1, Defaults DEF CheckPaused, TypeOK
    <3>3. QED
      BY <2>4, <3>2 DEF CheckPaused, TypeOK
  <2>5. ASSUME NEW r \in Requests, LoadThread(r) PROVE TypeOK'
    <3>1. Append(thread.given, request[r].decision) \in Seq(Decision)
      BY DEF TypeOK, Checkpoint, RequestState
    <3>2. [thread EXCEPT !.given = Append(@, request[r].decision)] \in Checkpoint
      BY <3>1 DEF TypeOK, Checkpoint
    <3>3. request' \in [Requests -> RequestState]
      <4> DEFINE pc == IF thread.node = "end" THEN "record" ELSE "run"
                 c  == IF Paused(thread)
                       THEN [thread EXCEPT !.given = Append(@, request[r].decision)]
                       ELSE thread
      <4>1. c \in Checkpoint /\ request[r] \in RequestState
        BY <3>2 DEF TypeOK
      <4>2. pc \in {"record", "run"}
        OBVIOUS
      <4>3. request' = [request EXCEPT ![r] = [request[r] EXCEPT
                          !.pc = pc, !.local = c, !.decision = NoDecision]]
        BY <2>5 DEF LoadThread, TypeOK
      <4> HIDE DEF pc, c
      <4>4. [request[r] EXCEPT !.pc = pc, !.local = c, !.decision = NoDecision]
              \in RequestState
        BY <4>1, <4>2, Defaults DEF RequestState
      <4>5. QED
        BY <4>3, <4>4 DEF TypeOK
    <3>4. QED
      BY <2>5, <3>3 DEF LoadThread, TypeOK
  <2>6. ASSUME NEW r \in Requests, LastFrame(r) PROVE TypeOK'
    <3>1. request' \in [Requests -> RequestState]
      BY <2>6 DEF LastFrame, TypeOK, RequestState
    <3>2. QED
      BY <2>6, <3>1, RunType DEF LastFrame, TypeOK
  <2>7. ASSUME NEW r \in Requests, Record(r) PROVE TypeOK'
    <3>1. [request[r] EXCEPT !.pc = "respond"] \in RequestState
      BY DEF TypeOK, RequestState
    <3>2. request' \in [Requests -> RequestState]
      BY <2>7, <3>1, Defaults DEF Record, TypeOK
    <3>3. transcript' = transcript \o Lines(r)
      BY <2>7 DEF Record
    <3>4. transcript' \in
            Seq([role : {"user", "assistant"}, turn : Turns, ack : Turns])
      <4> DEFINE M == [role : {"user", "assistant"}, turn : Turns, ack : Turns]
      <4>1. transcript \in Seq(M) /\ Lines(r) \in Seq(M)
        BY LinesType DEF TypeOK
      <4> HIDE DEF M
      <4>2. transcript' \in Seq(M)
        BY <3>3, <4>1
      <4>3. QED
        BY <4>2 DEF M
    <3>5. QED
      BY <2>7, <3>2, <3>4 DEF Record, TypeOK
  <2>8. ASSUME NEW r \in Requests, RecordRejected(r) PROVE TypeOK'
    BY <2>8, RunType, IdleType DEF RecordRejected, TypeOK
  <2>9. ASSUME NEW r \in Requests, Respond(r) PROVE TypeOK'
    BY <2>9, RunType, IdleType DEF Respond, TypeOK
  <2>10. ASSUME NEW r \in Requests, DropRow(r) PROVE TypeOK'
    <3>1. <<>> \in Seq([role : {"user", "assistant"}, turn : Turns, ack : Turns])
      OBVIOUS
    <3>2. QED
      BY <2>10, <3>1, IdleType, Defaults DEF DropRow, TypeOK
  <2>11. ASSUME NEW r \in Requests, RequestDies(r) PROVE TypeOK'
    <3>1. request[r].turn \in Turns /\ request[r].local.turn \in Turns
      BY DEF TypeOK, RequestState, Checkpoint
    <3>2. cut' \subseteq Turns
      BY <2>11, <3>1 DEF RequestDies, TypeOK
    <3>3. faults' \in 0..MaxFaults
      BY <2>11, LimitAssumption DEF RequestDies, TypeOK
    <3>4. QED
      BY <2>11, <3>2, <3>3, IdleType DEF RequestDies, TypeOK
  <2>12. CASE MovePage
    BY <2>12 DEF MovePage, TypeOK
  <2>13. ASSUME NEW r \in Requests, GraphStep(r) PROVE TypeOK'
    BY <2>13, GraphType
  <2>14. CASE UNCHANGED vars
    BY <2>14 DEF TypeOK
  <2>15. QED
    BY <2>1, <2>2, <2>3, <2>4, <2>5, <2>6, <2>7, <2>8, <2>9, <2>10, <2>11,
       <2>12, <2>13, <2>14 DEF Next, HandlerStep
<1>3. QED
  BY <1>1, <1>2, PTL DEF Spec

-----------------------------------------------------------------------------
(* Confirmations *)

\* Zero, which marks no confirmation, and the turns a summary was saved in.
SavedTurns == {0} \cup {summaries[i].turn : i \in DOMAIN summaries}

\* Wherever a confirmation is kept or on its way, a summary of its turn is
\* saved already.
AckInv ==
  /\ thread.ack \in SavedTurns
  /\ \A r \in Requests : State(r).ack \in SavedTurns
  /\ \A r \in Requests :
       request[r].pc \in {"advance", "note"} => State(r).turn \in SavedTurns
  /\ \A i \in DOMAIN transcript : transcript[i].ack \in SavedTurns

\* A node that only rewrites the checkpoint keeps that, if the confirmation
\* it writes is an old one.
LEMMA RewriteAck ==
  ASSUME TypeOK, AckInv, NEW r \in Requests, NEW c, NEW pc \in {"run", "frame", "record"},
         c.ack \in SavedTurns, Checkpointed(r, c, pc),
         UNCHANGED <<summaries, transcript>>
  PROVE  AckInv'
<1>1. SavedTurns' = SavedTurns
  BY DEF SavedTurns
<1>2. \A q \in Requests :
        request'[q] = IF q = r THEN [request[q] EXCEPT !.local = c, !.pc = pc]
                      ELSE request[q]
  BY DEF Checkpointed, TypeOK
<1>3. \A q \in Requests :
        /\ request'[q].local = IF q = r THEN c ELSE request[q].local
        /\ request'[q].pc = IF q = r THEN pc ELSE request[q].pc
  BY <1>2 DEF TypeOK, RequestState
<1>4. thread'.ack \in SavedTurns
  BY DEF Checkpointed
<1>5. \A q \in Requests : request'[q].local.ack \in SavedTurns
  BY <1>3 DEF AckInv, State
<1>6. \A q \in Requests : request'[q].pc \in {"advance", "note"} =>
        request'[q].local.turn \in SavedTurns
  BY <1>3 DEF AckInv, State
<1>7. QED
  BY <1>1, <1>4, <1>5, <1>6 DEF AckInv, State

\* A step that saves nothing, leaves the checkpoint and the transcript alone
\* and gives a request at most a state it had, or none.
LEMMA KeepsAck ==
  ASSUME TypeOK, AckInv, UNCHANGED <<summaries, transcript>>,
         thread' \in {thread, NoThread},
         \A q \in Requests :
           /\ request'[q].local.ack \in {0, request[q].local.ack, thread.ack}
           /\ request'[q].pc \in {"advance", "note"} =>
                /\ request[q].pc \in {"advance", "note"}
                /\ request'[q].local = request[q].local
  PROVE  AckInv'
<1>1. SavedTurns' = SavedTurns /\ 0 \in SavedTurns /\ NoThread.ack = 0
  BY DEF SavedTurns, NoThread
<1>2. thread'.ack \in SavedTurns
  BY <1>1 DEF AckInv
<1>3. \A q \in Requests : request'[q].local.ack \in SavedTurns
  BY <1>1 DEF AckInv, State
<1>4. \A q \in Requests : request'[q].pc \in {"advance", "note"} =>
        request'[q].local.turn \in SavedTurns
  BY DEF AckInv, State
<1>5. QED
  BY <1>1, <1>2, <1>3, <1>4 DEF AckInv, State

\* A confirmation leads back to a summary: the acknowledgement is kept over
\* pauses and into later turns, but never before the commit it speaks of,
\* whichever request dies in between.
THEOREM AcksAlwaysTrue == Spec => []AcksAreTrue
<1>1. Init => AckInv
  BY DEF Init, AckInv, SavedTurns, NoThread, State, Idle
<1>2. TypeOK /\ AckInv /\ [Next]_vars => AckInv'
  <2> SUFFICES ASSUME TypeOK, AckInv, [Next]_vars PROVE AckInv'
    OBVIOUS
  <2> USE DEF vars, progress, client, losses
  <2>1. 0 \in SavedTurns
    BY DEF SavedTurns
  <2>2. ASSUME NEW r \in Requests PROVE State(r).ack \in SavedTurns
    BY DEF AckInv
  <2>3. ASSUME NEW r \in Requests, NEW n PROVE Goto(State(r), n).ack = State(r).ack
    BY RunType DEF Goto, Checkpoint
  <2>4. ASSUME NEW r \in Requests, request' = [request EXCEPT ![r] = Idle]
        PROVE  \A q \in Requests :
           /\ request'[q].local.ack \in {0, request[q].local.ack, thread.ack}
           /\ request'[q].pc \in {"advance", "note"} =>
                /\ request[q].pc \in {"advance", "note"}
                /\ request'[q].local = request[q].local
    BY <2>4 DEF TypeOK, Idle, NoThread
  <2>5. ASSUME NEW r \in Requests, Send(r) PROVE AckInv'
    BY <2>5, KeepsAck DEF Send, TypeOK, Idle, NoThread
  <2>6. ASSUME NEW r \in Requests, Resume(r) PROVE AckInv'
    BY <2>6, KeepsAck DEF Resume, TypeOK, Idle, NoThread
  <2>7. ASSUME NEW r \in Requests, Delete(r) PROVE AckInv'
    BY <2>7, KeepsAck DEF Delete, TypeOK, Idle, NoThread
  <2>8. ASSUME NEW r \in Requests, CheckPaused(r) PROVE AckInv'
    BY <2>8, KeepsAck DEF CheckPaused, TypeOK, Idle, NoThread, RequestState
  <2>9. ASSUME NEW r \in Requests, LoadThread(r) PROVE AckInv'
    BY <2>9, KeepsAck DEF LoadThread, TypeOK, RequestState, Checkpoint
  <2>10. ASSUME NEW r \in Requests, LastFrame(r) PROVE AckInv'
    BY <2>10, KeepsAck DEF LastFrame, TypeOK, RequestState
  <2>11. ASSUME NEW r \in Requests, Record(r) PROVE AckInv'
    <3>1. SavedTurns' = SavedTurns
      BY <2>11 DEF Record, SavedTurns
    <3>2. thread' = thread /\ transcript' = transcript \o Lines(r)
      BY <2>11 DEF Record
    <3>3. \A q \in Requests :
            /\ request'[q].local.ack \in {0, request[q].local.ack}
            /\ request'[q].pc \notin {"advance", "note"} \/ request'[q] = request[q]
      BY <2>11 DEF Record, TypeOK, RequestState, Idle, NoThread
    <3>4. \A i \in DOMAIN Lines(r) : Lines(r)[i].ack \in {0, State(r).ack}
      BY DEF Lines, Message
    <3>5. transcript \in Seq([role : {"user", "assistant"}, turn : Turns, ack : Turns])
      BY DEF TypeOK
    <3>6. ASSUME NEW i \in DOMAIN transcript' PROVE transcript'[i].ack \in SavedTurns
      <4>1. CASE i \in DOMAIN transcript
        BY <3>2, <3>5, <4>1, LinesType DEF AckInv
      <4>2. CASE i \notin DOMAIN transcript
        <5>1. /\ i - Len(transcript) \in DOMAIN Lines(r)
              /\ transcript'[i] = Lines(r)[i - Len(transcript)]
          BY <3>2, <3>5, <3>6, <4>2, LinesType
        <5>2. QED
          BY <2>1, <2>2, <3>4, <5>1
      <4>3. QED
        BY <4>1, <4>2
    <3>7. QED
      BY <2>1, <3>1, <3>2, <3>3, <3>6 DEF AckInv, State
  <2>12. ASSUME NEW r \in Requests, RecordRejected(r) PROVE AckInv'
    BY <2>4, <2>12, KeepsAck DEF RecordRejected
  <2>13. ASSUME NEW r \in Requests, Respond(r) PROVE AckInv'
    BY <2>4, <2>13, KeepsAck DEF Respond
  <2>14. ASSUME NEW r \in Requests, DropRow(r) PROVE AckInv'
    <3>1. SavedTurns' = SavedTurns /\ DOMAIN transcript' = {}
      BY <2>14 DEF DropRow, SavedTurns
    <3>2. thread' = thread
      BY <2>14 DEF DropRow
    <3>3. \A q \in Requests :
            /\ request'[q].local.ack \in {0, request[q].local.ack}
            /\ request'[q].pc \notin {"advance", "note"} \/ request'[q] = request[q]
      BY <2>14 DEF DropRow, TypeOK, Idle, NoThread
    <3>4. QED
      BY <2>1, <3>1, <3>2, <3>3 DEF AckInv, State
  <2>15. ASSUME NEW r \in Requests, RequestDies(r) PROVE AckInv'
    BY <2>4, <2>15, KeepsAck DEF RequestDies
  <2>16. CASE MovePage
    BY <2>16 DEF MovePage, AckInv, SavedTurns, State
  <2>17. ASSUME NEW r \in Requests, GraphStep(r) PROVE AckInv'
    <3>1. CASE Input(r)
      <4>1. NewTurn(thread, request[r].turn).ack = thread.ack
        BY DEF NewTurn, Goto, TypeOK, Checkpoint
      <4>2. QED
        BY <3>1, <4>1, RewriteAck DEF Input, Continue, AckInv
    <3>2. CASE GuardrailIn(r)
      <4>1. [Goto(State(r), "end") EXCEPT !.text = "refused"].ack = State(r).ack
        BY RunType DEF Goto, Checkpoint
      <4>2. QED
        BY <2>2, <2>3, <3>2, <4>1, RewriteAck, YieldType
           DEF GuardrailIn, Continue, Finish
    <3>3. CASE Generate(r)
      <4>1. \A b : [Goto(State(r), "tools") EXCEPT !.batch = b, !.round = @ + 1].ack
                    = State(r).ack
        BY RunType DEF Goto, Checkpoint
      <4>2. QED
        BY <2>2, <2>3, <3>3, <4>1, RewriteAck DEF Generate, Continue
    <3>4. CASE GenerateRejected(r)
      BY <2>4, <3>4, KeepsAck DEF GenerateRejected
    <3>5. CASE RunTools(r)
      <4>1. [Goto(State(r), "generate") EXCEPT
               !.active = State(r).batch.names,
               !.unjudged = @ \/ State(r).batch.names].ack = State(r).ack
        BY RunType DEF Goto, Checkpoint
      <4>2. \A p : [State(r) EXCEPT !.prompt = p].ack = State(r).ack
        BY RunType DEF Checkpoint
      <4>3. QED
        BY <2>2, <3>5, <4>1, <4>2, RewriteAck, YieldType
           DEF RunTools, Continue, Pause
    <3>6. CASE PersistAsks(r)
      BY <2>2, <3>6, RunType, RewriteAck, YieldType DEF PersistAsks, Pause, Checkpoint
    <3>7. CASE PersistSkips(r)
      BY <2>2, <2>3, <3>7, RewriteAck DEF PersistSkips, Continue
    <3>8. CASE SaveSummary(r)
      <4>1. PICK range : summaries' =
              Append(summaries, [turn |-> State(r).turn, range |-> range,
                                 shown |-> State(r).prompt.range])
        BY <3>8 DEF SaveSummary
      <4>2. SavedTurns \subseteq SavedTurns' /\ State(r).turn \in SavedTurns'
        <5>1. summaries \in Seq([turn : Turns, range : Ranges, shown : Ranges])
          BY DEF TypeOK
        <5>2. \A i \in DOMAIN summaries :
                i \in DOMAIN summaries' /\ summaries'[i] = summaries[i]
          BY <4>1, <5>1
        <5>3. /\ Len(summaries) + 1 \in DOMAIN summaries'
              /\ summaries'[Len(summaries) + 1].turn = State(r).turn
          BY <4>1, <5>1
        <5>4. QED
          BY <5>2, <5>3 DEF SavedTurns
      <4>3. \A q \in Requests :
              /\ request'[q].local = request[q].local
              /\ q # r => request'[q].pc = request[q].pc
        BY <3>8 DEF SaveSummary, TypeOK, RequestState
      <4>4. thread' = thread /\ transcript' = transcript
        BY <3>8 DEF SaveSummary
      <4>5. QED
        BY <4>2, <4>3, <4>4 DEF AckInv, State
    <3>9. CASE AdvancePage(r)
      BY <3>9, KeepsAck DEF AdvancePage, TypeOK, RequestState
    <3>10. CASE NoteSaved(r)
      <4> DEFINE c == [Goto(State(r), "guardrail_out") EXCEPT !.ack = State(r).turn]
      <4>1. c.ack = State(r).turn
        BY RunType DEF Goto, Checkpoint
      <4>2. State(r).turn \in SavedTurns
        BY <3>10 DEF NoteSaved, AckInv
      <4>3. SavedTurns' = SavedTurns /\ thread' = c /\ transcript' = transcript
        BY <3>10 DEF NoteSaved, SavedTurns
      <4>4. \A q \in Requests :
              IF q = r THEN request'[q].local = c /\ request'[q].pc = "run"
              ELSE request'[q] = request[q]
        BY <3>10 DEF NoteSaved, TypeOK, RequestState
      <4> HIDE DEF c
      <4>5. QED
        BY <4>1, <4>2, <4>3, <4>4 DEF AckInv, State
    <3>11. ASSUME NEW t
           PROVE  /\ Reply(State(r), t).ack = State(r).ack
                  /\ Judged(State(r), t).ack = State(r).ack
      BY RunType DEF Reply, Judged, Goto, Checkpoint
    <3>12. CASE PassUnjudged(r)
      BY <2>2, <3>11, <3>12, RewriteAck, YieldType DEF PassUnjudged, Finish
    <3>13. CASE JudgedSafe(r)
      BY <2>2, <3>11, <3>13, RewriteAck, YieldType DEF JudgedSafe, Finish
    <3>14. CASE JudgedRisky(r)
      BY <2>2, <3>11, <3>14, RunType, RewriteAck, YieldType
         DEF JudgedRisky, Finish, Pause, Checkpoint
    <3>15. QED
      BY <2>17, <3>1, <3>2, <3>3, <3>4, <3>5, <3>6, <3>7, <3>8, <3>9, <3>10,
         <3>12, <3>13, <3>14 DEF GraphStep
  <2>18. CASE UNCHANGED vars
    BY <2>18 DEF AckInv, SavedTurns, State
  <2>19. QED
    BY <2>5, <2>6, <2>7, <2>8, <2>9, <2>10, <2>11, <2>12, <2>13, <2>14,
       <2>15, <2>16, <2>17, <2>18 DEF Next, HandlerStep
<1>3. AckInv => AcksAreTrue
  BY DEF AckInv, SavedTurns, AcksAreTrue
<1>4. QED
  BY <1>1, <1>2, <1>3, ChatTypeCorrect, PTL DEF Spec

-----------------------------------------------------------------------------
(* Deletion *)

\* Until a delete and a turn meet, the checkpoint is gone from the first step
\* of a delete on, and nobody is left to write it anew.
ForgetInv ==
  /\ \A r \in Requests : (request[r].pc = "row") <=> (request[r].kind = "delete")
  /\ ~crossed =>
       /\ Deleting # {} => Turning = {} /\ thread = NoThread
       /\ ~exists => Turning = {} /\ thread = NoThread

\* A turn that runs on does not change who is deleting.
LEMMA TurnKeepsForget ==
  ASSUME TypeOK, ForgetInv, NEW r \in Turning,
         UNCHANGED <<exists, crossed>>,
         \A q \in Requests \ {r} : request'[q] = request[q],
         \/ request'[r] = Idle
         \/ request'[r].kind = request[r].kind /\ request'[r].pc # "row",
         thread' = thread \/ request'[r].kind = request[r].kind
  PROVE  ForgetInv'
<1>1. request[r].kind # "delete" /\ r \in Requests /\ request[r].pc # "idle"
  BY DEF Turning
<1>2. Idle.pc = "idle" /\ Idle.kind = "chat"
  BY DEF Idle
<1>3. \A q \in Requests : (request'[q].pc = "row") <=> (request'[q].kind = "delete")
  BY <1>1, <1>2 DEF ForgetInv
<1>4. Deleting' = Deleting
  BY <1>1, <1>2 DEF Deleting
<1>5. ~crossed => Deleting = {} /\ exists
  BY DEF ForgetInv
<1>6. QED
  BY <1>3, <1>4, <1>5 DEF ForgetInv

LEMMA ForgetInvariant == Spec => []ForgetInv
<1>1. Init => ForgetInv
  BY DEF Init, ForgetInv, Idle, Deleting, Turning
<1>2. TypeOK /\ ForgetInv /\ [Next]_vars => ForgetInv'
  <2> SUFFICES ASSUME TypeOK, ForgetInv, [Next]_vars PROVE ForgetInv'
    OBVIOUS
  <2> USE DEF vars, progress, client, losses
  <2>1. \A r \in Requests : request[r].pc \notin {"idle", "row"} => r \in Turning
    BY DEF ForgetInv, Turning
  <2>2. ASSUME NEW r \in Requests, Send(r) PROVE ForgetInv'
    <3>1. \A q \in Requests :
            IF q = r THEN /\ request'[q].pc = "input"
                          /\ request'[q].kind \in {"chat", "stream"}
            ELSE request'[q] = request[q]
      BY <2>2 DEF Send, TypeOK, Idle
    <3>2. Deleting' = Deleting
      BY <2>2, <3>1 DEF Send, Deleting
    <3>3. QED
      BY <2>2, <3>1, <3>2 DEF Send, ForgetInv
  <2>3. ASSUME NEW r \in Requests, Resume(r) PROVE ForgetInv'
    <3>1. \A q \in Requests :
            IF q = r THEN request'[q].pc = "check" /\ request'[q].kind = "resume"
            ELSE request'[q] = request[q]
      BY <2>3 DEF Resume, TypeOK, Idle
    <3>2. Deleting' = Deleting
      BY <2>3, <3>1 DEF Resume, Deleting
    <3>3. QED
      BY <2>3, <3>1, <3>2 DEF Resume, ForgetInv
  <2>4. ASSUME NEW r \in Requests, Delete(r) PROVE ForgetInv'
    <3>1. \A q \in Requests :
            IF q = r THEN request'[q].pc = "row" /\ request'[q].kind = "delete"
            ELSE request'[q] = request[q]
      BY <2>4 DEF Delete, TypeOK, Idle
    <3>2. Turning' = Turning
      BY <2>4, <3>1 DEF Delete, Turning
    <3>3. QED
      BY <2>4, <3>1, <3>2 DEF Delete, ForgetInv
  <2>5. ASSUME NEW r \in Requests, DropRow(r) PROVE ForgetInv'
    <3>1. \A q \in Requests :
            IF q = r THEN request'[q].pc = "idle" /\ request'[q].kind = "chat"
            ELSE request'[q] = request[q]
      BY <2>5 DEF DropRow, TypeOK, Idle
    <3>2. r \in Deleting
      BY <2>5 DEF DropRow, ForgetInv, Deleting
    <3>3. Turning' = Turning
      BY <3>1, <3>2 DEF Turning, Deleting
    <3>4. QED
      BY <2>5, <3>1, <3>2, <3>3 DEF DropRow, ForgetInv
  <2>6. ASSUME NEW r \in Requests, RequestDies(r) PROVE ForgetInv'
    <3>1. \A q \in Requests :
            IF q = r THEN request'[q].pc = "idle" /\ request'[q].kind = "chat"
            ELSE request'[q] = request[q]
      BY <2>6 DEF RequestDies, TypeOK, Idle
    <3>2. Turning' \subseteq Turning /\ Deleting' \subseteq Deleting
      BY <3>1 DEF Turning, Deleting
    <3>3. QED
      BY <2>6, <3>1, <3>2 DEF RequestDies, ForgetInv
  <2>7. ASSUME NEW r \in Requests,
               \/ CheckPaused(r) \/ LoadThread(r) \/ LastFrame(r) \/ Record(r)
               \/ RecordRejected(r) \/ Respond(r)
        PROVE  ForgetInv'
    <3>1. r \in Turning
      BY <2>1, <2>7 DEF CheckPaused, LoadThread, LastFrame, Record,
                        RecordRejected, Respond
    <3>2. /\ UNCHANGED <<exists, crossed, thread>>
          /\ \A q \in Requests \ {r} : request'[q] = request[q]
      BY <2>7 DEF CheckPaused, LoadThread, LastFrame, Record,
                  RecordRejected, Respond, TypeOK
    <3>3. \/ request'[r] = Idle
          \/ request'[r].kind = request[r].kind /\ request'[r].pc # "row"
      BY <2>7 DEF CheckPaused, LoadThread, LastFrame, Record,
                  RecordRejected, Respond, TypeOK, RequestState
    <3>4. QED
      BY <3>1, <3>2, <3>3, TurnKeepsForget
  <2>8. ASSUME NEW r \in Requests, GraphStep(r) PROVE ForgetInv'
    <3>1. r \in Turning
      BY <2>1, <2>8 DEF GraphStep, Input, GuardrailIn, Generate, GenerateRejected,
           RunTools, PersistAsks, PersistSkips, SaveSummary, AdvancePage,
           NoteSaved, PassUnjudged, JudgedSafe, JudgedRisky, At
    <3>2. UNCHANGED <<exists, crossed>>
      BY <2>8 DEF GraphStep, Input, GuardrailIn, Generate, GenerateRejected,
           RunTools, PersistAsks, PersistSkips, SaveSummary, AdvancePage,
           NoteSaved, PassUnjudged, JudgedSafe, JudgedRisky
    <3>3. ASSUME NEW c, NEW pc \in {"run", "frame", "record"}, Checkpointed(r, c, pc)
          PROVE  ForgetInv'
      <4>1. /\ \A q \in Requests \ {r} : request'[q] = request[q]
            /\ request'[r].kind = request[r].kind /\ request'[r].pc = pc
        BY <3>3, <3>1 DEF Checkpointed, TypeOK, RequestState, Turning
      <4>2. QED
        BY <3>1, <3>2, <3>3, <4>1, TurnKeepsForget
    <3>4. CASE \E c : Continue(r, c) \/ Finish(r, c)
      BY <3>3, <3>4, YieldType DEF Continue, Finish
    <3>5. CASE \E p : Pause(r, p)
      BY <3>3, <3>5, YieldType DEF Pause
    <3>6. CASE GenerateRejected(r) \/ SaveSummary(r) \/ AdvancePage(r) \/ NoteSaved(r)
      <4>1. /\ \A q \in Requests \ {r} : request'[q] = request[q]
            /\ \/ request'[r] = Idle /\ thread' = thread
               \/ request'[r].kind = request[r].kind /\ request'[r].pc # "row"
        BY <3>6, <2>8 DEF GenerateRejected, SaveSummary, AdvancePage, NoteSaved,
                          TypeOK, RequestState
      <4>2. QED
        BY <3>1, <3>2, <4>1, TurnKeepsForget
    <3>7. QED
      BY <2>8, <3>4, <3>5, <3>6 DEF GraphStep, Input, GuardrailIn, Generate,
         RunTools, PersistAsks, PersistSkips, PassUnjudged, JudgedSafe, JudgedRisky
  <2>9. CASE MovePage \/ UNCHANGED vars
    BY <2>9 DEF MovePage, ForgetInv, Deleting, Turning
  <2>10. QED
    BY <2>2, <2>3, <2>4, <2>5, <2>6, <2>7, <2>8, <2>9 DEF Next, HandlerStep
<1>3. QED
  BY <1>1, <1>2, ChatTypeCorrect, PTL DEF Spec

\* A delete leaves no checkpoint behind: one can outlive the conversation only
\* when a turn of it was in flight during the delete.
THEOREM DeletedAlwaysForgotten == Spec => []DeletedIsForgotten
<1>1. ForgetInv => DeletedIsForgotten
  BY DEF ForgetInv, DeletedIsForgotten
<1>2. QED
  BY <1>1, ForgetInvariant, PTL

-----------------------------------------------------------------------------
(* Consent *)

\* The requests that may still move the checkpoint or the client's prompt.
Active ==
  {r \in Requests : /\ request[r].pc \notin {"idle", "row"}
                    /\ ~(request[r].kind = "stream" /\ request[r].pc = "record")}

\* What a paused checkpoint asks about is what its node would ask about.
Asked(c) ==
  IF Paused(c)
  THEN \/ c.node = "tools" /\ c.prompt = Gate(c, Len(c.given) + 1)
       \/ c.node \in {"persist_memory", "guardrail_out"} /\ c.given = <<>>
  ELSE c.given = <<>>

\* Every decision a node has collected, unless it refuses, is on a prompt the
\* reader did not refuse.
Allowed(c) ==
  /\ c.node = "tools" =>
       \A i \in DOMAIN c.given : c.given[i].act = "deny" \/ Gate(c, i) \in consented
  /\ c.node \in {"persist_memory", "guardrail_out"} /\ c.given # <<>> =>
       Head(c.given).act = "deny" \/ c.prompt \in consented

\* An active request, the checkpoint and the screen speak of one prompt.
Consistent(r) ==
  LET q == request[r] IN
  /\ q.kind # "resume" => screen = NoPrompt
  /\ q.pc \in {"check", "load"} =>
       /\ q.kind = "resume"
       /\ Paused(thread) => q.decision.act = "deny" \/ thread.prompt \in consented
  /\ q.pc \notin {"input", "check", "load"} /\ Paused(thread) =>
       thread.prompt = q.local.prompt /\ thread.node = q.local.node
  /\ q.pc = "frame" => q.kind = "stream"
  /\ q.pc = "run" => Allowed(q.local)

\* A decision reaches the prompt it was given on: with a patient client one
\* request at a time is active, and when none is, the screen shows what the
\* checkpoint waits for.
ConsentInv ==
  /\ unasked = {}
  /\ \A q, r \in Active : q = r
  /\ Active = {} /\ exists /\ screen # NoPrompt /\ Paused(thread) =>
       thread.prompt = screen
  /\ \A r \in Active : Consistent(r)
  /\ Asked(thread) /\ Allowed(thread)

\* A resume that was missed, or a commit that was torn, is never forgotten.
LEMMA LossesGrow ==
  ASSUME TypeOK, [Next]_vars
  PROVE  (missed => missed') /\ (torn => torn')
<1> USE DEF losses
<1>1. CASE UNCHANGED vars
  BY <1>1 DEF vars
<1>2. ASSUME NEW r \in Requests, GraphStep(r)
      PROVE  UNCHANGED <<missed, torn>>
  BY <1>2
  DEF GraphStep, Input, GuardrailIn, Generate, GenerateRejected, RunTools,
      PersistAsks, PersistSkips, SaveSummary, AdvancePage, NoteSaved,
      PassUnjudged, JudgedSafe, JudgedRisky
<1>3. ASSUME NEW r \in Requests, HandlerStep(r)
      PROVE  UNCHANGED <<missed, torn>>
  BY <1>3
  DEF HandlerStep, CheckPaused, LoadThread, LastFrame, Record, RecordRejected,
      Respond, DropRow
<1>4. ASSUME NEW r \in Requests, RequestDies(r)
      PROVE  (missed => missed') /\ (torn => torn')
  BY <1>4 DEF RequestDies
<1>5. ASSUME NEW r \in Requests, Send(r) \/ Resume(r) \/ Delete(r)
      PROVE  UNCHANGED <<missed, torn>>
  BY <1>5 DEF Send, Resume, Delete
<1>6. CASE MovePage
  BY <1>6 DEF MovePage
<1> QED
  BY <1>1, <1>2, <1>3, <1>4, <1>5, <1>6 DEF Next

\* A checkpoint that waits for nothing has nothing to answer for.
LEMMA FreshAsked ==
  ASSUME NEW c, c.prompt = NoPrompt, c.given = <<>>
  PROVE  Asked(c) /\ Allowed(c)
BY DEF Asked, Allowed, Paused

\* A node's checkpoint that asks for what its node asks, with decisions that
\* were consented to, keeps the invariant.
LEMMA NodeConsent ==
  ASSUME TypeOK, ConsentInv, NEW r \in Active, request[r].pc \in {"run", "input"},
         NEW c, NEW pc \in {"run", Yield(r)}, Checkpointed(r, c, pc),
         Asked(c), Allowed(c), unasked' = {},
         UNCHANGED <<screen, consented>>
  PROVE  ConsentInv'
<1>1. r \in Requests /\ Active = {r}
  BY DEF Active, ConsentInv
<1>2. pc \in {"run", "frame", "record"} /\ (request[r].kind = "stream" => pc # "record")
      /\ (pc = "frame" => request[r].kind = "stream")
  BY DEF Yield
<1>3. /\ \A q \in Requests \ {r} : request'[q] = request[q]
      /\ request'[r].pc = pc /\ request'[r].local = c
      /\ request'[r].kind = request[r].kind
  BY <1>1 DEF Checkpointed, TypeOK, RequestState
<1>4. Active' = {r}
  BY <1>1, <1>2, <1>3 DEF Active
<1>5. thread' = c
  BY DEF Checkpointed
<1>6. Asked(thread)' /\ Allowed(thread)'
  BY <1>5 DEF Asked, Allowed, Paused, Gate
<1>7. pc = "run" => Allowed(request[r].local)'
  BY <1>3 DEF Allowed, Gate
<1>8. Consistent(r)'
  BY <1>1, <1>2, <1>3, <1>5, <1>7 DEF ConsentInv, Consistent
<1>9. QED
  BY <1>4, <1>6, <1>8 DEF ConsentInv

\* A node that moves on leaves a fresh checkpoint.
LEMMA MoveConsent ==
  ASSUME TypeOK, ConsentInv, NEW r \in Active, request[r].pc \in {"run", "input"},
         NEW c, c.prompt = NoPrompt, c.given = <<>>,
         Continue(r, c) \/ Finish(r, c), unasked' = {},
         UNCHANGED <<screen, consented>>
  PROVE  ConsentInv'
BY FreshAsked, NodeConsent DEF Continue, Finish

\* The steps of the graph ask and act as the invariant says.
LEMMA GraphConsent ==
  ASSUME TypeOK, ConsentInv, NEW r \in Requests, GraphStep(r)
  PROVE  ConsentInv'
<1> DEFINE c == State(r)
<1> USE DEF progress, client, losses
<1>1. r \in Active /\ request[r].pc \in {"input", "run", "advance", "note"}
  BY DEF Active, GraphStep, Input, GuardrailIn, Generate, GenerateRejected,
         RunTools, PersistAsks, PersistSkips, SaveSummary, AdvancePage,
         NoteSaved, PassUnjudged, JudgedSafe, JudgedRisky, At
<1>2. Active = {r} /\ Consistent(r) /\ unasked = {}
  BY <1>1 DEF ConsentInv
<1>3. request[r].pc = "run" => Allowed(c)
  BY <1>2 DEF Consistent, State
<1>4. c \in Checkpoint
  BY RunType
<1>5. ASSUME NEW n PROVE Goto(c, n).prompt = NoPrompt /\ Goto(c, n).given = <<>>
  BY <1>4 DEF Goto, Checkpoint
<1>6. CASE Input(r)
  <2>1. /\ NewTurn(thread, request[r].turn).prompt = NoPrompt
        /\ NewTurn(thread, request[r].turn).given = <<>>
    BY DEF NewTurn, Goto, TypeOK, Checkpoint
  <2>2. QED
    BY <1>1, <1>2, <1>6, <2>1, MoveConsent DEF Input
<1>7. CASE GuardrailIn(r)
  <2>1. /\ [Goto(c, "end") EXCEPT !.text = "refused"].prompt = NoPrompt
        /\ [Goto(c, "end") EXCEPT !.text = "refused"].given = <<>>
    BY <1>4 DEF Goto, Checkpoint
  <2>2. QED
    BY <1>1, <1>2, <1>5, <1>7, <2>1, MoveConsent DEF GuardrailIn, At
<1>8. CASE Generate(r)
  <2>1. ASSUME NEW b
        PROVE  /\ [Goto(c, "tools") EXCEPT !.batch = b, !.round = @ + 1].prompt
                     = NoPrompt
               /\ [Goto(c, "tools") EXCEPT !.batch = b, !.round = @ + 1].given
                     = <<>>
    BY <1>4 DEF Goto, Checkpoint
  <2>2. QED
    BY <1>1, <1>2, <1>5, <1>8, <2>1, MoveConsent DEF Generate, At
<1>9. CASE GenerateRejected(r)
  <2>1. ~Paused(thread)
    BY <1>2, <1>9 DEF GenerateRejected, At, State, Consistent, ConsentInv, Asked
  <2>2. \A q \in Requests :
          request'[q].pc = IF q = r THEN "idle" ELSE request[q].pc
    BY <1>9 DEF GenerateRejected, TypeOK, Idle
  <2>3. \A q \in Requests \ {r} : request'[q] = request[q]
    BY <1>9 DEF GenerateRejected, TypeOK
  <2>4. Active' = {}
    BY <1>2, <2>2, <2>3 DEF Active
  <2>5. UNCHANGED <<thread, screen, consented, unasked, exists>>
    BY <1>9 DEF GenerateRejected
  <2>6. QED
    BY <1>2, <2>1, <2>4, <2>5 DEF ConsentInv, Asked, Allowed, Paused, Gate
<1>10. CASE RunTools(r)
  <2>1. /\ request[r].pc = "run" /\ c.node = "tools" /\ Allowed(c)
        /\ UNCHANGED <<screen, consented>>
    BY <1>3, <1>10 DEF RunTools, At
  <2>2. unasked' = {}
    <3>1. {Gate(c, i) : i \in Permitted(c)} \subseteq consented
      <4>1. ASSUME NEW i \in Permitted(c)
            PROVE  i \in DOMAIN c.given /\ c.given[i].act # "deny"
        BY <4>1, RunType DEF Permitted, Answered
      <4>2. QED
        BY <2>1, <4>1 DEF Allowed
    <3>2. QED
      BY <1>2, <1>10, <3>1 DEF RunTools, Act
  <2>3. CASE Pause(r, Gate(c, Len(c.given) + 1))
    <3> DEFINE d == [c EXCEPT !.prompt = Gate(c, Len(c.given) + 1)]
    <3>1. /\ d.node = "tools" /\ d.given = c.given /\ d.turn = c.turn
          /\ d.round = c.round /\ d.prompt = Gate(c, Len(c.given) + 1)
      BY <1>4, <2>1 DEF Checkpoint
    <3>2. Checkpointed(r, d, Yield(r))
      BY <2>3 DEF Pause
    <3> HIDE DEF d
    <3>3. \A i : Gate(d, i) = Gate(c, i)
      BY <3>1 DEF Gate
    <3>4. Asked(d)
      BY <3>1, <3>3 DEF Asked, Paused, NoPrompt, Gate
    <3>5. Allowed(d)
      BY <2>1, <3>1, <3>3 DEF Allowed
    <3>6. QED
      BY <1>1, <2>1, <2>2, <3>2, <3>4, <3>5, NodeConsent
  <2>4. ASSUME Continue(r, [Goto(c, "generate") EXCEPT !.active = c.batch.names,
                              !.unjudged = @ \/ c.batch.names])
        PROVE  ConsentInv'
    <3> DEFINE d == [Goto(c, "generate") EXCEPT !.active = c.batch.names,
                                               !.unjudged = @ \/ c.batch.names]
    <3>1. d.prompt = NoPrompt /\ d.given = <<>>
      BY <1>4 DEF Goto, Checkpoint
    <3>2. Continue(r, d)
      BY <2>4
    <3> HIDE DEF d
    <3>3. QED
      BY <1>1, <2>1, <2>2, <3>1, <3>2, MoveConsent
  <2>5. QED
    BY <1>10, <2>3, <2>4 DEF RunTools
<1>11. ASSUME NEW p, p.at # "nothing", Pause(r, p), c.given = <<>>,
              c.node \in {"persist_memory", "guardrail_out"},
              request[r].pc = "run", unasked' = {}, UNCHANGED <<screen, consented>>
       PROVE  ConsentInv'
  <2> DEFINE d == [c EXCEPT !.prompt = p]
  <2>1. d.node = c.node /\ d.given = <<>> /\ d.prompt = p
    BY <1>4, <1>11 DEF Checkpoint
  <2>2. Checkpointed(r, d, Yield(r))
    BY <1>11 DEF Pause
  <2> HIDE DEF d
  <2>3. Asked(d) /\ Allowed(d)
    BY <1>11, <2>1 DEF Asked, Allowed, Paused, NoPrompt
  <2>4. QED
    BY <1>1, <1>11, <2>2, <2>3, NodeConsent
<1>12. CASE PersistAsks(r)
  <2> DEFINE p == [turn |-> c.turn, round |-> c.round, at |-> "persist_memory",
                   item |-> 0, range |-> Proposed]
  <2>1. p.at # "nothing" /\ Pause(r, p) /\ c.given = <<>>
    BY <1>12 DEF PersistAsks
  <2> HIDE DEF p
  <2>2. QED
    BY <1>2, <1>11, <1>12, <2>1 DEF PersistAsks, At
<1>13. CASE PersistSkips(r)
  BY <1>1, <1>2, <1>5, <1>13, MoveConsent DEF PersistSkips, At
<1>14. ASSUME c.node \in {"persist_memory", "guardrail_out"}, c.given # <<>>,
              request[r].pc = "run", Head(c.given).act # "deny", Act({c.prompt})
       PROVE  unasked' = {}
  BY <1>2, <1>3, <1>14 DEF Allowed, Act
<1>15. ASSUME UNCHANGED <<thread, screen, consented, exists>>, unasked' = {},
              request'[r].pc \in {"advance", "note"},
              request'[r].local = c, request'[r].kind = request[r].kind,
              request[r].pc \in {"run", "advance"},
              \A q \in Requests \ {r} : request'[q] = request[q]
       PROVE  ConsentInv'
  <2>1. Active' = {r}
    BY <1>2, <1>15 DEF Active
  <2>2. Consistent(r)'
    BY <1>2, <1>15 DEF Consistent, State
  <2>3. Asked(thread)' /\ Allowed(thread)'
    BY <1>15 DEF ConsentInv, Asked, Allowed, Paused, Gate
  <2>4. QED
    BY <1>15, <2>1, <2>2, <2>3 DEF ConsentInv
<1>16. CASE SaveSummary(r)
  <2>1. unasked' = {}
    BY <1>14, <1>16 DEF SaveSummary, At
  <2>2. /\ request'[r].pc = "advance" /\ request'[r].local = c
        /\ request'[r].kind = request[r].kind
        /\ \A q \in Requests \ {r} : request'[q] = request[q]
    BY <1>16 DEF SaveSummary, TypeOK, RequestState, State
  <2>3. QED
    BY <1>15, <1>16, <2>1, <2>2 DEF SaveSummary, At
<1>17. CASE AdvancePage(r)
  <2>1. /\ request'[r].pc = "note" /\ request'[r].local = c
        /\ request'[r].kind = request[r].kind
        /\ \A q \in Requests \ {r} : request'[q] = request[q]
    BY <1>17 DEF AdvancePage, TypeOK, RequestState, State
  <2>2. QED
    BY <1>2, <1>15, <1>17, <2>1 DEF AdvancePage
<1>18. CASE NoteSaved(r)
  <2> DEFINE d == [Goto(c, "guardrail_out") EXCEPT !.ack = c.turn]
  <2>1. d.prompt = NoPrompt /\ d.given = <<>>
    BY <1>4 DEF Goto, Checkpoint
  <2>2. /\ thread' = d /\ request'[r].local = d /\ request'[r].pc = "run"
        /\ request'[r].kind = request[r].kind
        /\ \A q \in Requests \ {r} : request'[q] = request[q]
        /\ UNCHANGED <<screen, consented, exists, unasked>>
        /\ request[r].pc = "note"
    BY <1>18 DEF NoteSaved, TypeOK, RequestState
  <2> HIDE DEF d
  <2>3. Active' = {r}
    BY <1>2, <2>2 DEF Active
  <2>4. Asked(thread)' /\ Allowed(thread)' /\ Allowed(request[r].local)'
        /\ ~Paused(thread)'
    BY <2>1, <2>2 DEF Asked, Allowed, Paused
  <2>5. Consistent(r)'
    BY <1>2, <2>2, <2>4 DEF Consistent
  <2>6. QED
    BY <1>2, <2>2, <2>3, <2>4, <2>5 DEF ConsentInv
<1>19. ASSUME NEW t
       PROVE  /\ Reply(c, t).prompt = NoPrompt /\ Reply(c, t).given = <<>>
              /\ Judged(c, t).prompt = NoPrompt /\ Judged(c, t).given = <<>>
  BY <1>4 DEF Reply, Judged, Goto, Checkpoint
<1>20. CASE PassUnjudged(r)
  BY <1>1, <1>2, <1>19, <1>20, MoveConsent DEF PassUnjudged, At
<1>21. CASE JudgedSafe(r)
  BY <1>1, <1>2, <1>19, <1>21, MoveConsent DEF JudgedSafe, At
<1>22. CASE JudgedRisky(r)
  <2> DEFINE p == [turn |-> c.turn, round |-> c.round, at |-> "guardrail_out",
                   item |-> 0, range |-> NoRange]
  <2>1. request[r].pc = "run" /\ c.node = "guardrail_out"
        /\ UNCHANGED <<screen, consented>>
    BY <1>22 DEF JudgedRisky, At
  <2>2. CASE c.given = <<>> /\ Pause(r, p) /\ UNCHANGED unasked
    <3>1. p.at # "nothing" /\ Pause(r, p)
      BY <2>2
    <3> HIDE DEF p
    <3>2. QED
      BY <1>2, <1>11, <2>1, <2>2, <3>1
  <2>3. CASE /\ c.given # <<>> /\ Head(c.given).act = "approve"
             /\ Finish(r, Judged(c, "shown")) /\ Act({c.prompt})
    BY <1>1, <1>14, <1>19, <2>1, <2>3, MoveConsent
  <2>4. CASE Finish(r, Judged(c, "withheld")) /\ UNCHANGED unasked
    BY <1>1, <1>2, <1>19, <2>1, <2>4, MoveConsent
  <2>5. QED
    BY <1>22, <2>2, <2>3, <2>4 DEF JudgedRisky
<1>23. QED
  BY <1>6, <1>7, <1>8, <1>9, <1>10, <1>12, <1>13, <1>16, <1>17, <1>18,
     <1>20, <1>21, <1>22 DEF GraphStep

\* With a patient client every act of the agent carries out what the reader
\* agreed to: whatever the order of prompts, answers, deletes and crashes, no
\* decision reaches another prompt than the one it was given on, until a
\* resume is lost.
THEOREM ActsAlwaysConsented == Patient => (Spec => []ActsAreConsented)
<1> SUFFICES ASSUME Patient PROVE Spec => []ActsAreConsented
  OBVIOUS
<1> DEFINE Inv == missed \/ ConsentInv
<1>1. Init => Inv
  BY FreshAsked DEF Init, ConsentInv, Active, Idle, NoThread
<1>2. TypeOK /\ ForgetInv /\ Inv /\ [Next]_vars => Inv'
  <2> SUFFICES ASSUME TypeOK, ForgetInv, ConsentInv, ~missed, [Next]_vars,
                      ~missed'
               PROVE  ConsentInv'
    BY LossesGrow
  <2> USE DEF vars, progress, client, losses
  <2>1. \A r \in Requests : request[r].pc \notin {"idle", "row"} => r \in Turning
    BY DEF ForgetInv, Turning
  <2>2. \A r \in Active : Active = {r} /\ Consistent(r) /\ r \in Requests
    BY DEF ConsentInv, Active
  <2>3. ASSUME UNCHANGED <<thread>>, consented \subseteq consented'
        PROVE  Asked(thread)' /\ Allowed(thread)'
    BY <2>3 DEF ConsentInv, Asked, Allowed, Paused, Gate
  <2>4. ASSUME NEW r \in Requests, Send(r) PROVE ConsentInv'
    <3>1. \A q \in Requests :
            IF q = r THEN /\ request'[q].pc = "input"
                          /\ request'[q].kind \in {"chat", "stream"}
            ELSE request'[q] = request[q]
      BY <2>4 DEF Send, TypeOK, Idle
    <3>2. Active = {}
      BY <2>1, <2>4 DEF Send, Active
    <3>3. Active' = {r}
      BY <3>1, <3>2 DEF Active
    <3>4. screen' = NoPrompt /\ UNCHANGED <<thread, consented, unasked>>
      BY <2>4 DEF Send
    <3>5. Consistent(r)'
      BY <3>1, <3>4 DEF Consistent
    <3>6. QED
      BY <2>3, <3>3, <3>4, <3>5 DEF ConsentInv
  <2>5. ASSUME NEW r \in Requests, Resume(r) PROVE ConsentInv'
    <3>1. PICK d \in Answers(screen) :
            /\ request' = [request EXCEPT ![r] =
                 [Idle EXCEPT !.pc = "check", !.kind = "resume", !.decision = d]]
            /\ consented' = IF d.act = "deny" THEN consented
                            ELSE consented \cup {screen}
      BY <2>5 DEF Resume
    <3>2. \A q \in Requests :
            IF q = r THEN /\ request'[q].pc = "check" /\ request'[q].kind = "resume"
                          /\ request'[q].decision = d
            ELSE request'[q] = request[q]
      BY <3>1 DEF TypeOK, Idle
    <3>3. Active = {}
      BY <2>1, <2>5 DEF Resume, Active
    <3>4. Active' = {r}
      BY <3>2, <3>3 DEF Active
    <3>5. /\ UNCHANGED <<thread, screen, unasked>> /\ consented \subseteq consented'
          /\ d.act # "deny" => screen \in consented'
      BY <2>5, <3>1 DEF Resume
    <3>6. Paused(thread) => thread.prompt = screen
      BY <2>5, <3>3 DEF Resume, ConsentInv
    <3>7. Consistent(r)'
      BY <3>2, <3>5, <3>6 DEF Consistent, Paused
    <3>8. QED
      BY <2>3, <3>4, <3>5, <3>7 DEF ConsentInv
  <2>6. ASSUME NEW r \in Requests, Delete(r) PROVE ConsentInv'
    <3>1. \A q \in Requests :
            IF q = r THEN request'[q].pc = "row" ELSE request'[q] = request[q]
      BY <2>6 DEF Delete, TypeOK, Idle
    <3>2. Active' = Active
      BY <2>6, <3>1 DEF Delete, Active
    <3>3. r \notin Active
      BY <2>6 DEF Delete, Active
    <3>4. /\ thread' = NoThread /\ UNCHANGED <<screen, consented, unasked>>
          /\ NoThread.prompt = NoPrompt /\ NoThread.given = <<>>
      BY <2>6 DEF Delete, NoThread
    <3>5. Asked(thread)' /\ Allowed(thread)' /\ ~Paused(thread)'
      BY <3>4 DEF Asked, Allowed, Paused
    <3>6. ASSUME NEW q \in Active PROVE Consistent(q)'
      <4>1. request'[q] = request[q]
        BY <2>2, <3>1, <3>3, <3>6
      <4>2. QED
        BY <2>2, <3>4, <3>5, <3>6, <4>1 DEF Consistent, Allowed, Gate
    <3>7. QED
      BY <3>2, <3>4, <3>5, <3>6 DEF ConsentInv
  \* A request that leaves, when nobody else is active.
  <2>7. ASSUME NEW r \in Active, \A q \in Requests \ {r} : request'[q] = request[q],
               r \notin Active', UNCHANGED <<thread, consented, unasked>>,
               exists' /\ screen' # NoPrompt /\ Paused(thread) =>
                 thread.prompt = screen'
        PROVE  ConsentInv'
    <3>1. Active' = {}
      BY <2>2, <2>7 DEF Active
    <3>2. QED
      BY <2>3, <2>7, <3>1 DEF ConsentInv, Paused
  \* A request that goes on without touching what others see.
  <2>8. ASSUME NEW r \in Active, \A q \in Requests \ {r} : request'[q] = request[q],
               r \in Active', UNCHANGED <<thread, screen, consented, unasked>>,
               Consistent(r)'
        PROVE  ConsentInv'
    <3>1. Active' = {r}
      BY <2>2, <2>8 DEF Active
    <3>2. QED
      BY <2>3, <2>8, <3>1 DEF ConsentInv
  \* A step of requests that are not active.
  <2>9. ASSUME Active' = Active, \A q \in Active : request'[q] = request[q],
               UNCHANGED <<thread, screen, consented, unasked>>, exists' => exists
        PROVE  ConsentInv'
    <3>1. ASSUME NEW q \in Active PROVE Consistent(q)'
      BY <2>2, <2>9, <3>1 DEF Consistent, Allowed, Gate, Paused
    <3>2. QED
      BY <2>3, <2>9, <3>1 DEF ConsentInv, Paused
  <2>10. ASSUME NEW r \in Requests, CheckPaused(r) PROVE ConsentInv'
    <3>1. /\ r \in Active /\ \A q \in Requests \ {r} : request'[q] = request[q]
          /\ UNCHANGED <<thread, screen, consented, unasked>>
      BY <2>10 DEF CheckPaused, Active, TypeOK
    <3>2. CASE Paused(thread)
      <4>1. /\ request'[r].pc = "load" /\ request'[r].kind = request[r].kind
            /\ request'[r].decision = request[r].decision /\ request[r].pc = "check"
        BY <2>10, <3>2 DEF CheckPaused, TypeOK, RequestState
      <4>2. r \in Active' /\ Consistent(r)'
        BY <2>2, <3>1, <4>1 DEF Active, Consistent, Paused
      <4>3. QED
        BY <2>8, <3>1, <4>2
    <3>3. CASE ~Paused(thread)
      <4>1. r \notin Active'
        BY <2>10, <3>3 DEF CheckPaused, Active, TypeOK, Idle
      <4>2. QED
        BY <2>7, <3>1, <3>3, <4>1
    <3>4. QED
      BY <3>2, <3>3
  <2>11. ASSUME NEW r \in Requests, LoadThread(r) PROVE ConsentInv'
    <3> DEFINE given == Append(thread.given, request[r].decision)
               c     == IF Paused(thread) THEN [thread EXCEPT !.given = given]
                        ELSE thread
    <3>1. /\ r \in Active /\ \A q \in Requests \ {r} : request'[q] = request[q]
          /\ UNCHANGED <<thread, screen, consented, unasked>>
      BY <2>11 DEF LoadThread, Active, TypeOK
    <3>2. /\ request'[r].pc \in {"record", "run"} /\ request'[r].local = c
          /\ request'[r].kind = request[r].kind /\ request[r].pc = "load"
      BY <2>11 DEF LoadThread, TypeOK, RequestState
    <3>3. /\ thread \in Checkpoint /\ thread.given \in Seq(Decision)
          /\ request[r].decision \in Decision
      BY DEF TypeOK, RequestState, Checkpoint
    <3>4. CASE ~Paused(thread)
      <4>1. c = thread
        BY <3>4
      <4>2. c.given = <<>> /\ c.prompt = NoPrompt
        BY <3>4, <4>1 DEF ConsentInv, Asked, Paused
      <4> HIDE DEF c
      <4>3. Allowed(request[r].local)'
        BY <3>2, <4>2 DEF Allowed
      <4>4. r \in Active' /\ Consistent(r)'
        BY <2>2, <3>1, <3>2, <3>4, <4>3 DEF Active, Consistent, Paused
      <4>5. QED
        BY <2>8, <3>1, <4>4
    <3>5. CASE Paused(thread)
      <4>1. /\ c.node = thread.node /\ c.prompt = thread.prompt /\ c.given = given
            /\ c.turn = thread.turn /\ c.round = thread.round
        BY <3>3, <3>5 DEF Checkpoint
      <4>2. request[r].decision.act = "deny" \/ thread.prompt \in consented
        BY <2>2, <3>1, <3>2, <3>5 DEF Consistent
      <4> HIDE DEF c
      <4>3. \A i : Gate(c, i) = Gate(thread, i)
        BY <4>1 DEF Gate
      <4>4. c.node = "tools" =>
              \A i \in DOMAIN c.given : c.given[i].act = "deny" \/ Gate(c, i) \in consented
        <5> SUFFICES ASSUME c.node = "tools", NEW i \in DOMAIN c.given
                     PROVE  c.given[i].act = "deny" \/ Gate(thread, i) \in consented
          BY <4>3
        <5>1. thread.prompt = Gate(thread, Len(thread.given) + 1)
          BY <3>5, <4>1 DEF ConsentInv, Asked
        <5>2. CASE i \in DOMAIN thread.given
          <6>1. c.given[i] = thread.given[i]
            BY <3>3, <4>1, <5>2
          <6>2. QED
            BY <4>1, <5>2, <6>1 DEF ConsentInv, Allowed
        <5>3. CASE i \notin DOMAIN thread.given
          <6>1. i = Len(thread.given) + 1 /\ c.given[i] = request[r].decision
            BY <3>3, <4>1, <5>3
          <6>2. QED
            BY <4>2, <5>1, <6>1
        <5>4. QED
          BY <5>2, <5>3
      <4>5. c.node \in {"persist_memory", "guardrail_out"} =>
              Head(c.given).act = "deny" \/ c.prompt \in consented
        <5>1. ASSUME c.node \in {"persist_memory", "guardrail_out"}
              PROVE  thread.given = <<>>
          BY <3>5, <4>1, <5>1 DEF ConsentInv, Asked
        <5>2. QED
          BY <3>3, <4>1, <4>2, <5>1
      <4>6. Allowed(request[r].local)'
        BY <3>1, <3>2, <4>4, <4>5 DEF Allowed, Gate
      <4>7. r \in Active' /\ Consistent(r)'
        BY <2>2, <3>1, <3>2, <4>1, <4>6 DEF Active, Consistent, Paused
      <4>8. QED
        BY <2>8, <3>1, <4>7
    <3>6. QED
      BY <3>4, <3>5
  <2>12. ASSUME NEW r \in Requests, LastFrame(r) PROVE ConsentInv'
    <3>1. /\ r \in Active /\ \A q \in Requests \ {r} : request'[q] = request[q]
          /\ UNCHANGED <<thread, consented, unasked>> /\ screen' = State(r).prompt
          /\ request[r].pc = "frame"
      BY <2>12 DEF LastFrame, Active, TypeOK
    <3>2. request[r].kind = "stream" /\ (Paused(thread) => thread.prompt = State(r).prompt)
      BY <2>2, <3>1 DEF Consistent, State
    <3>3. r \notin Active'
      BY <2>12, <3>2 DEF LastFrame, Active, TypeOK, RequestState
    <3>4. QED
      BY <2>7, <3>1, <3>2, <3>3
  <2>13. ASSUME NEW r \in Requests, Record(r) PROVE ConsentInv'
    <3>1. /\ \A q \in Requests \ {r} : request'[q] = request[q]
          /\ UNCHANGED <<thread, screen, consented, unasked, exists>>
          /\ request[r].pc = "record"
      BY <2>13 DEF Record, TypeOK
    <3>2. CASE request[r].kind = "stream"
      <4>1. request'[r].pc = "idle"
        BY <2>13, <3>2 DEF Record, TypeOK, Idle
      <4>2. Active' = Active /\ r \notin Active
        BY <3>1, <3>2, <4>1 DEF Active
      <4>3. QED
        BY <2>2, <2>9, <3>1, <4>2
    <3>3. CASE request[r].kind # "stream"
      <4>1. r \in Active
        BY <3>1, <3>3 DEF Active
      <4>2. /\ request'[r].pc = "respond" /\ request'[r].kind = request[r].kind
            /\ request'[r].local = request[r].local
        BY <2>13, <3>3 DEF Record, TypeOK, RequestState
      <4>3. r \in Active' /\ Consistent(r)'
        BY <2>2, <3>1, <4>1, <4>2 DEF Active, Consistent, Paused
      <4>4. QED
        BY <2>8, <3>1, <4>1, <4>3
    <3>4. QED
      BY <3>2, <3>3
  <2>14. ASSUME NEW r \in Requests, request' = [request EXCEPT ![r] = Idle],
                r \notin Active, UNCHANGED <<thread, screen, consented, unasked>>,
                exists' => exists
         PROVE  ConsentInv'
    <3>1. request'[r].pc = "idle" /\ \A q \in Requests \ {r} : request'[q] = request[q]
      BY <2>14 DEF TypeOK, Idle
    <3>2. Active' = Active
      BY <2>14, <3>1 DEF Active
    <3>3. QED
      BY <2>2, <2>9, <2>14, <3>1, <3>2
  <2>15. ASSUME NEW r \in Active, request' = [request EXCEPT ![r] = Idle],
                UNCHANGED <<thread, consented, unasked>>,
                exists' /\ screen' # NoPrompt /\ Paused(thread) =>
                  thread.prompt = screen'
         PROVE  ConsentInv'
    <3>1. request'[r].pc = "idle" /\ \A q \in Requests \ {r} : request'[q] = request[q]
      BY <2>2, <2>15 DEF TypeOK, Idle
    <3>2. r \notin Active'
      BY <3>1 DEF Active
    <3>3. QED
      BY <2>7, <2>15, <3>1, <3>2
  <2>16. ASSUME NEW r \in Requests, RecordRejected(r) PROVE ConsentInv'
    BY <2>14, <2>15, <2>16 DEF RecordRejected
  <2>17. ASSUME NEW r \in Requests, Respond(r) PROVE ConsentInv'
    <3>1. r \in Active /\ request[r].pc = "respond" /\ screen' = State(r).prompt
      BY <2>17 DEF Respond, Active
    <3>2. Paused(thread) => thread.prompt = State(r).prompt
      BY <2>2, <3>1 DEF Consistent, State
    <3>3. QED
      BY <2>15, <2>17, <3>1, <3>2 DEF Respond
  <2>18. ASSUME NEW r \in Requests, DropRow(r) PROVE ConsentInv'
    <3>1. /\ request'[r].pc = "idle" /\ r \notin Active
          /\ \A q \in Requests \ {r} : request'[q] = request[q]
      BY <2>18 DEF DropRow, TypeOK, Idle, Active
    <3>2. Active' = Active
      BY <3>1 DEF Active
    <3>3. screen' = NoPrompt /\ UNCHANGED <<thread, consented, unasked>>
      BY <2>18 DEF DropRow
    <3>4. ASSUME NEW q \in Active PROVE Consistent(q)'
      BY <2>2, <3>1, <3>3, <3>4 DEF Consistent, Allowed, Gate, Paused
    <3>5. QED
      BY <2>3, <3>2, <3>3, <3>4 DEF ConsentInv
  <2>19. ASSUME NEW r \in Requests, RequestDies(r) PROVE ConsentInv'
    <3>1. request[r].kind # "resume"
      BY <2>19 DEF RequestDies, TypeOK
    <3>2. CASE r \in Active
      <4>1. screen = NoPrompt
        BY <2>2, <3>1, <3>2 DEF Consistent
      <4>2. QED
        BY <2>15, <2>19, <3>2, <4>1 DEF RequestDies
    <3>3. CASE r \notin Active
      BY <2>14, <2>19, <3>3 DEF RequestDies
    <3>4. QED
      BY <3>2, <3>3
  <2>20. CASE MovePage \/ UNCHANGED vars
    <3>1. UNCHANGED <<thread, request, screen, consented, unasked, exists>>
      BY <2>20 DEF MovePage
    <3>2. Active' = Active /\ \A q \in Active : request'[q] = request[q]
      BY <3>1 DEF Active
    <3>3. QED
      BY <2>9, <3>1, <3>2
  <2>21. ASSUME NEW r \in Requests, GraphStep(r) PROVE ConsentInv'
    BY <2>21, GraphConsent
  <2>22. QED
    BY <2>4, <2>5, <2>6, <2>10, <2>11, <2>12, <2>13, <2>16, <2>17, <2>18,
       <2>19, <2>20, <2>21 DEF Next, HandlerStep
<1>3. Inv => ActsAreConsented
  BY DEF ConsentInv, ActsAreConsented
<1>4. QED
  BY <1>1, <1>2, <1>3, ChatTypeCorrect, ForgetInvariant, PTL DEF Spec

-----------------------------------------------------------------------------
(* Summaries *)

\* Only a message and an answer make a request active.
LEMMA ActiveShrinks ==
  ASSUME TypeOK, NEW r \in Requests,
         HandlerStep(r) \/ GraphStep(r) \/ RequestDies(r) \/ Delete(r)
  PROVE  Active' \subseteq Active
<1>1. ASSUME \A q \in Requests \ {r} : request'[q] = request[q],
             r \in Active \/ request'[r].pc \in {"idle", "row"}
      PROVE  Active' \subseteq Active
  BY <1>1 DEF Active
<1>2. Idle.pc = "idle"
  BY DEF Idle
<1>3. CASE HandlerStep(r)
  <2>1. \A q \in Requests \ {r} : request'[q] = request[q]
    BY <1>3 DEF HandlerStep, CheckPaused, LoadThread, LastFrame, Record,
                RecordRejected, Respond, DropRow, TypeOK
  <2>2. CASE CheckPaused(r) \/ LoadThread(r) \/ LastFrame(r) \/ Respond(r)
    BY <1>1, <2>1, <2>2 DEF CheckPaused, LoadThread, LastFrame, Respond, Active
  <2>3. CASE Record(r)
    <3>1. r \in Active \/ request'[r].pc = "idle"
      BY <1>2, <2>3 DEF Record, Active, TypeOK
    <3>2. QED
      BY <1>1, <2>1, <3>1
  <2>4. CASE RecordRejected(r) \/ DropRow(r)
    BY <1>1, <1>2, <2>1, <2>4 DEF RecordRejected, DropRow, TypeOK
  <2>5. QED
    BY <1>3, <2>2, <2>3, <2>4 DEF HandlerStep
<1>4. CASE GraphStep(r)
  <2>1. r \in Active
    BY <1>4 DEF Active, GraphStep, Input, GuardrailIn, Generate, GenerateRejected,
           RunTools, PersistAsks, PersistSkips, SaveSummary, AdvancePage,
           NoteSaved, PassUnjudged, JudgedSafe, JudgedRisky, At
  <2>2. \A q \in Requests \ {r} : request'[q] = request[q]
    BY <1>4 DEF GraphStep, Input, GuardrailIn, Generate, GenerateRejected,
           RunTools, PersistAsks, PersistSkips, SaveSummary, AdvancePage,
           NoteSaved, PassUnjudged, JudgedSafe, JudgedRisky,
           Continue, Finish, Pause, Checkpointed, TypeOK
  <2>3. QED
    BY <1>1, <2>1, <2>2
<1>5. CASE RequestDies(r)
  BY <1>1, <1>2, <1>5 DEF RequestDies, TypeOK
<1>6. CASE Delete(r)
  <2>1. [Idle EXCEPT !.pc = "row", !.kind = "delete"].pc = "row"
    BY DEF Idle
  <2>2. QED
    BY <1>1, <1>6, <2>1 DEF Delete, TypeOK
<1>7. QED
  BY <1>3, <1>4, <1>5, <1>6

\* A patient client has one request under way.
OneActive == \A q, r \in Active : q = r
LEMMA OneAtATime == Patient => (Spec => []OneActive)
<1> SUFFICES ASSUME Patient PROVE Spec => []OneActive
  OBVIOUS
<1>1. Init => OneActive
  BY DEF Init, OneActive, Active, Idle
<1>2. TypeOK /\ ForgetInv /\ OneActive /\ [Next]_vars => OneActive'
  <2> SUFFICES ASSUME TypeOK, ForgetInv, OneActive, [Next]_vars PROVE OneActive'
    OBVIOUS
  <2>1. ASSUME NEW r \in Requests, Send(r) \/ Resume(r) PROVE OneActive'
    <3>1. \A q \in Active : q \in Turning
      BY DEF ForgetInv, Turning, Active
    <3>2. Active = {}
      BY <2>1, <3>1 DEF Send, Resume, Active
    <3>3. \A q \in Requests \ {r} : request'[q] = request[q]
      BY <2>1 DEF Send, Resume, TypeOK
    <3>4. Active' \subseteq {r}
      BY <3>2, <3>3 DEF Active
    <3>5. QED
      BY <3>4 DEF OneActive
  <2>2. ASSUME UNCHANGED request PROVE OneActive'
    BY <2>2 DEF OneActive, Active
  <2>3. QED
    BY <2>1, <2>2, ActiveShrinks DEF Next, vars, MovePage, OneActive
<1>3. QED
  BY <1>1, <1>2, ChatTypeCorrect, ForgetInvariant, PTL DEF Spec

\* A summary that is asked for starts after the pages already summarized.
Ahead(c) ==
  c.node = "persist_memory" /\ Paused(c) => mark < c.prompt.range[1]

\* Decisions are collected only by a node that asked.
Answering(c) == c.given # <<>> => Paused(c)

\* The mark has reached every summary but the one being noted, and what waits
\* for an answer lies ahead of it.
MarkInv ==
  /\ Answering(thread)
  /\ (\A r \in Requests : request[r].pc # "note") => Ahead(thread)
  /\ \A r \in Requests : request[r].pc = "run" =>
       Ahead(State(r)) /\ Answering(State(r))
  /\ \A r \in Requests : request[r].pc = "advance" => request[r].seen = mark
  /\ \A i \in DOMAIN summaries :
       \/ summaries[i].range[2] <= mark
       \/ \E r \in Requests : /\ request[r].pc = "advance"
                               /\ summaries[i].range[2] <= request[r].range[2]
  /\ SummariesDisjoint

\* A step that saves nothing and leaves the checkpoint keeps that, as long as
\* no request it moves runs on or was noting a summary.
LEMMA MarkQuiet ==
  ASSUME TypeOK, MarkInv, UNCHANGED <<thread, mark, summaries>>, ~torn, ~torn',
         \A q \in Requests :
           \/ request'[q] = request[q]
           \/ /\ request'[q].pc \notin {"run", "advance"}
              /\ request[q].pc \notin {"note", "advance"}
  PROVE  MarkInv'
<1>1. \A q \in Requests : request[q].pc = "note" => request'[q].pc = "note"
  BY DEF MarkInv
<1>2. Answering(thread)' /\ ((\A q \in Requests : request'[q].pc # "note") => Ahead(thread)')
  BY <1>1 DEF MarkInv, Answering, Ahead, Paused
<1>3. \A q \in Requests : request'[q].pc = "run" => Ahead(State(q))' /\ Answering(State(q))'
  BY DEF MarkInv, Answering, Ahead, Paused, State
<1>4. \A q \in Requests : request'[q].pc = "advance" => request'[q].seen = mark'
  BY DEF MarkInv
<1>5. ASSUME NEW i \in DOMAIN summaries
      PROVE  \/ summaries[i].range[2] <= mark
             \/ \E q \in Requests : /\ request'[q].pc = "advance"
                                     /\ summaries[i].range[2] <= request'[q].range[2]
  BY <1>5 DEF MarkInv
<1>6. SummariesDisjoint'
  BY DEF MarkInv, SummariesDisjoint
<1>7. QED
  BY <1>2, <1>3, <1>4, <1>5, <1>6 DEF MarkInv

\* So does a node that writes a checkpoint which asks ahead of the mark.
LEMMA MarkNode ==
  ASSUME TypeOK, MarkInv, NEW r \in Requests, request[r].pc \in {"run", "input"},
         NEW c, NEW pc \in {"run", "frame", "record"}, Checkpointed(r, c, pc),
         Ahead(c), Answering(c), UNCHANGED <<mark, summaries>>, ~torn, ~torn'
  PROVE  MarkInv'
<1>1. /\ \A q \in Requests \ {r} : request'[q] = request[q]
      /\ request'[r].pc = pc /\ request'[r].local = c /\ thread' = c
  BY DEF Checkpointed, TypeOK, RequestState
<1>2. Answering(thread)' /\ Ahead(thread)'
  BY <1>1 DEF Answering, Ahead, Paused
<1>3. ASSUME NEW q \in Requests, request'[q].pc = "run"
      PROVE  Ahead(State(q))' /\ Answering(State(q))'
  <2>1. CASE q = r
    BY <1>1, <2>1 DEF Answering, Ahead, Paused, State
  <2>2. CASE q # r
    BY <1>1, <1>3, <2>2 DEF MarkInv, Answering, Ahead, Paused, State
  <2>3. QED
    BY <2>1, <2>2
<1>4. \A q \in Requests : request'[q].pc = "advance" => request'[q].seen = mark'
  BY <1>1 DEF MarkInv
<1>5. ASSUME NEW i \in DOMAIN summaries
      PROVE  \/ summaries[i].range[2] <= mark
             \/ \E q \in Requests : /\ request'[q].pc = "advance"
                                     /\ summaries[i].range[2] <= request'[q].range[2]
  BY <1>1, <1>5 DEF MarkInv
<1>6. SummariesDisjoint'
  BY DEF MarkInv, SummariesDisjoint
<1>7. QED
  BY <1>2, <1>3, <1>4, <1>5, <1>6 DEF MarkInv

\* Summarized pages are numbers.
LEMMA SummaryType ==
  ASSUME TypeOK, NEW i \in DOMAIN summaries
  PROVE  summaries[i].range[2] \in Nat
<1> DEFINE M == [turn : Turns, range : Ranges, shown : Ranges]
<1>1. summaries \in Seq(M)
  BY DEF TypeOK
<1>2. summaries[i] \in M
  <2> HIDE DEF M
  <2>1. QED
    BY <1>1
<1>3. summaries[i].range \in Ranges
  BY <1>2
<1>4. QED
  BY <1>3, LimitAssumption DEF Ranges, Pages

\* The commit of a summary.
LEMMA MarkSaved ==
  ASSUME TypeOK, OneActive, MarkInv, NEW r \in Requests, SaveSummary(r), ~torn, ~torn'
  PROVE  MarkInv'
<1> DEFINE c == State(r)
           range == IF Head(c.given).range = NoRange
                    THEN Proposed ELSE Head(c.given).range
           new == Len(summaries) + 1
<1>1. /\ request[r].pc = "run" /\ c.node = "persist_memory" /\ c.given # <<>>
      /\ thread' = thread /\ mark' = mark /\ page > mark
  BY DEF SaveSummary, At
<1>2. \A q \in Requests : q # r => request[q].pc \notin {"run", "advance", "note"}
  BY <1>1 DEF OneActive, Active
<1>3. mark < c.prompt.range[1]
  BY <1>1 DEF MarkInv, Ahead, Answering
<1>4. /\ \A q \in Requests \ {r} : request'[q] = request[q]
      /\ request'[r].pc = "advance" /\ request'[r].range = range
      /\ request'[r].seen = mark
  BY DEF SaveSummary, TypeOK, RequestState
<1>5. summaries' = Append(summaries, [turn |-> c.turn, range |-> range,
                                      shown |-> c.prompt.range])
  BY DEF SaveSummary
<1>6. /\ summaries \in Seq([turn : Turns, range : Ranges, shown : Ranges])
      /\ mark \in Nat /\ page \in Nat
  BY LimitAssumption DEF TypeOK, Pages
<1>7. range \in Ranges /\ range[1] \in Nat /\ range[2] \in Nat
  <2>1. Head(c.given) \in Decision
    BY <1>1, RunType
  <2>2. range \in Ranges
    BY <1>1, <2>1, ProposedType DEF Decision
  <2>3. QED
    BY <2>2, LimitAssumption DEF Ranges, Pages
<1>8. range = Proposed => range[1] = mark + 1
  BY DEF Proposed
<1>9. c.prompt.range[1] <= range[1] => mark < range[1]
  <2>1. c.prompt.range[1] \in Nat
    BY RunType, LimitAssumption DEF Prompt, Ranges, Pages
  <2>2. QED
    BY <1>3, <1>6, <1>7, <2>1
<1> HIDE DEF range, c
<1>10. /\ DOMAIN summaries' = 1..new
       /\ \A i \in DOMAIN summaries : summaries'[i] = summaries[i]
       /\ summaries'[new].range = range /\ summaries'[new].shown = c.prompt.range
  BY <1>5, <1>6
<1>11. \A i \in DOMAIN summaries : summaries[i].range[2] <= mark
  BY <1>1, <1>2 DEF MarkInv
<1>12. SummariesDisjoint'
  <2> SUFFICES ASSUME NEW i \in DOMAIN summaries', NEW j \in DOMAIN summaries', i < j,
                      summaries'[j].shown[1] <= summaries'[j].range[1]
               PROVE  summaries'[i].range[2] < summaries'[j].range[1]
    BY DEF SummariesDisjoint
  <2>1. i \in DOMAIN summaries /\ (j \in DOMAIN summaries \/ j = new)
    BY <1>6, <1>10
  <2>2. CASE j \in DOMAIN summaries
    BY <1>10, <2>1, <2>2 DEF MarkInv, SummariesDisjoint
  <2>3. CASE j = new
    <3>1. summaries[i].range[2] \in Nat /\ summaries[i].range[2] <= mark
      BY <1>11, <2>1, SummaryType
    <3>2. mark < range[1]
      BY <1>9, <1>10, <2>3
    <3>3. QED
      BY <1>6, <1>7, <1>10, <2>1, <2>3, <3>1, <3>2
  <2>4. QED
    BY <2>1, <2>2, <2>3
<1>13. ASSUME NEW i \in DOMAIN summaries'
       PROVE  \/ summaries'[i].range[2] <= mark
              \/ summaries'[i].range[2] <= range[2]
  <2>1. i \in DOMAIN summaries \/ i = new
    BY <1>6, <1>10
  <2>2. QED
    BY <1>7, <1>10, <1>11, <2>1
<1>14. Answering(thread)' /\ Ahead(thread)'
  BY <1>1, <1>2 DEF MarkInv, Answering, Ahead, Paused
<1>15. \A q \in Requests : request'[q].pc # "run"
  BY <1>2, <1>4
<1>16. \A q \in Requests : request'[q].pc = "advance" => request'[q].seen = mark'
  BY <1>1, <1>2, <1>4
<1>17. QED
  BY <1>1, <1>4, <1>12, <1>13, <1>14, <1>15, <1>16 DEF MarkInv

\* The commit of the mark.
LEMMA MarkAdvanced ==
  ASSUME TypeOK, OneActive, MarkInv, NEW r \in Requests, AdvancePage(r), ~torn, ~torn'
  PROVE  MarkInv'
<1>1. /\ request[r].pc = "advance" /\ UNCHANGED <<thread, summaries>>
      /\ mark' = IF request[r].seen > request[r].range[2]
                 THEN request[r].seen ELSE request[r].range[2]
  BY DEF AdvancePage
<1>2. \A q \in Requests : q # r => request[q].pc \notin {"run", "advance", "note"}
  BY <1>1 DEF OneActive, Active
<1>3. /\ \A q \in Requests \ {r} : request'[q] = request[q]
      /\ request'[r].pc = "note"
  BY DEF AdvancePage, TypeOK, RequestState
<1>4. /\ request[r].seen = mark /\ mark \in Nat /\ request[r].range[2] \in Nat
  BY <1>1, LimitAssumption DEF MarkInv, TypeOK, RequestState, Ranges, Pages
<1>5. mark <= mark' /\ request[r].range[2] <= mark' /\ mark' \in Nat
  BY <1>1, <1>4
<1>6. ASSUME NEW i \in DOMAIN summaries PROVE summaries[i].range[2] <= mark'
  <2>1. summaries[i].range[2] <= mark \/ summaries[i].range[2] <= request[r].range[2]
    BY <1>2, <1>6 DEF MarkInv
  <2>2. QED
    BY <1>4, <1>5, <1>6, <2>1, SummaryType
<1>7. Answering(thread)'
  BY <1>1 DEF MarkInv, Answering, Paused
<1>8. SummariesDisjoint'
  BY <1>1 DEF MarkInv, SummariesDisjoint
<1>9. QED
  BY <1>1, <1>2, <1>3, <1>6, <1>7, <1>8 DEF MarkInv

\* With a patient client no page is summarized twice, however often turns are
\* resumed, dropped or deleted and wherever requests die, except between the
\* two commits of one summary.
THEOREM SummariesAlwaysDisjoint == Patient => (Spec => []SummariesDisjoint)
<1> SUFFICES ASSUME Patient PROVE Spec => []SummariesDisjoint
  OBVIOUS
<1> DEFINE Inv == torn \/ MarkInv
<1>1. Init => Inv
  <2> SUFFICES ASSUME Init PROVE MarkInv
    OBVIOUS
  <2>1. \A r \in Requests : request[r].pc = "idle"
    BY DEF Init, Idle
  <2>2. Answering(thread) /\ Ahead(thread)
    BY DEF Init, NoThread, Answering, Ahead
  <2>3. summaries = <<>>
    BY DEF Init
  <2>4. QED
    BY <2>1, <2>2, <2>3 DEF MarkInv, SummariesDisjoint
<1>2. TypeOK /\ OneActive /\ Inv /\ [Next]_vars => Inv'
  <2> SUFFICES ASSUME TypeOK, OneActive, MarkInv, ~torn, [Next]_vars, ~torn'
               PROVE  MarkInv'
    BY LossesGrow
  <2> USE DEF vars, progress, client, losses
  <2>1. Idle.pc = "idle"
    BY DEF Idle
  <2>2. ASSUME NEW r \in Requests,
               \/ Send(r) \/ Resume(r) \/ CheckPaused(r) \/ LastFrame(r) \/ Record(r)
               \/ RecordRejected(r) \/ Respond(r) \/ DropRow(r) \/ GenerateRejected(r)
        PROVE  MarkInv'
    <3>1. UNCHANGED <<thread, mark, summaries>>
      BY <2>2 DEF Send, Resume, CheckPaused, LastFrame, Record, RecordRejected,
                  Respond, DropRow, GenerateRejected
    <3>2. \A q \in Requests \ {r} : request'[q] = request[q]
      BY <2>2 DEF Send, Resume, CheckPaused, LastFrame, Record, RecordRejected,
                  Respond, DropRow, GenerateRejected, TypeOK
    <3>3. request[r].pc \notin {"note", "advance"}
      BY <2>2 DEF Send, Resume, CheckPaused, LastFrame, Record, RecordRejected,
                  Respond, DropRow, GenerateRejected, At
    <3>4. request'[r].pc \notin {"run", "advance"}
      <4>1. CASE Send(r)
        BY <4>1 DEF Send, TypeOK, Idle
      <4>2. CASE Resume(r)
        BY <4>2 DEF Resume, TypeOK, Idle
      <4>3. CASE CheckPaused(r) \/ LastFrame(r) \/ Record(r)
        BY <2>1, <4>3 DEF CheckPaused, LastFrame, Record, TypeOK, RequestState
      <4>4. CASE RecordRejected(r) \/ Respond(r) \/ DropRow(r) \/ GenerateRejected(r)
        BY <2>1, <4>4 DEF RecordRejected, Respond, DropRow, GenerateRejected, TypeOK
      <4>5. QED
        BY <2>2, <4>1, <4>2, <4>3, <4>4
    <3>5. QED
      BY <3>1, <3>2, <3>3, <3>4, MarkQuiet
  <2>3. ASSUME NEW r \in Requests, RequestDies(r) PROVE MarkInv'
    BY <2>1, <2>3, MarkQuiet DEF RequestDies, TypeOK
  <2>4. ASSUME NEW r \in Requests, Delete(r) PROVE MarkInv'
    <3>1. \A q \in Requests :
            IF q = r THEN request'[q].pc = "row" ELSE request'[q] = request[q]
      BY <2>4 DEF Delete, TypeOK, Idle
    <3>2. request[r].pc = "idle" /\ thread' = NoThread /\ UNCHANGED <<mark, summaries>>
      BY <2>4 DEF Delete
    <3>3. Answering(thread)' /\ Ahead(thread)'
      BY <3>2 DEF NoThread, Answering, Ahead
    <3>4. \A q \in Requests :
            request'[q].pc = "run" => Ahead(State(q))' /\ Answering(State(q))'
      BY <3>1, <3>2 DEF MarkInv, Answering, Ahead, Paused, State
    <3>5. \A q \in Requests : request'[q].pc = "advance" => request'[q].seen = mark'
      BY <3>1, <3>2 DEF MarkInv
    <3>6. ASSUME NEW i \in DOMAIN summaries
          PROVE  \/ summaries[i].range[2] <= mark
                 \/ \E q \in Requests : /\ request'[q].pc = "advance"
                                         /\ summaries[i].range[2] <= request'[q].range[2]
      BY <3>1, <3>2, <3>6 DEF MarkInv
    <3>7. SummariesDisjoint'
      BY <3>2 DEF MarkInv, SummariesDisjoint
    <3>8. QED
      BY <3>2, <3>3, <3>4, <3>5, <3>6, <3>7 DEF MarkInv
  <2>5. ASSUME NEW r \in Requests, LoadThread(r) PROVE MarkInv'
    <3> DEFINE c == IF Paused(thread)
                    THEN [thread EXCEPT !.given = Append(@, request[r].decision)]
                    ELSE thread
    <3>1. /\ request'[r].pc \in {"record", "run"} /\ request'[r].local = c
          /\ request[r].pc = "load" /\ UNCHANGED <<thread, mark, summaries>>
          /\ \A q \in Requests \ {r} : request'[q] = request[q]
      BY <2>5 DEF LoadThread, TypeOK, RequestState
    <3>2. \A q \in Requests : q # r => request[q].pc \notin {"run", "advance", "note"}
      BY <3>1 DEF OneActive, Active
    <3>3. /\ c.node = thread.node /\ c.prompt = thread.prompt
          /\ (~Paused(thread) => c = thread)
      BY DEF TypeOK, Checkpoint
    <3>4. Ahead(thread) /\ Answering(thread)
      BY <3>1, <3>2 DEF MarkInv
    <3> HIDE DEF c
    <3>5. Ahead(State(r))' /\ Answering(State(r))'
      BY <3>1, <3>3, <3>4 DEF Ahead, Answering, Paused, State
    <3>6. Answering(thread)' /\ Ahead(thread)'
      BY <3>1, <3>4 DEF Ahead, Answering, Paused
    <3>7. SummariesDisjoint'
      BY <3>1 DEF MarkInv, SummariesDisjoint
    <3>8. \A i \in DOMAIN summaries : summaries[i].range[2] <= mark
      BY <3>1, <3>2 DEF MarkInv
    <3>9. QED
      BY <3>1, <3>2, <3>5, <3>6, <3>7, <3>8 DEF MarkInv
  <2>6. CASE MovePage \/ UNCHANGED vars
    BY <2>6, MarkQuiet DEF MovePage
  <2>7. ASSUME NEW r \in Requests, GraphStep(r) PROVE MarkInv'
    <3> DEFINE c == State(r)
    <3>1. c \in Checkpoint
      BY RunType
    <3>2. ASSUME NEW d, d.prompt = NoPrompt, d.given = <<>>
          PROVE  Ahead(d) /\ Answering(d)
      BY <3>2 DEF Ahead, Answering, Paused
    <3>3. ASSUME NEW d, d.prompt = NoPrompt, d.given = <<>>,
                 Continue(r, d) \/ Finish(r, d), request[r].pc \in {"run", "input"},
                 UNCHANGED <<mark, summaries>>
          PROVE  MarkInv'
      BY <3>2, <3>3, MarkNode, YieldType DEF Continue, Finish
    <3>4. ASSUME NEW p, p.at # "nothing",
                 c.node = "persist_memory" => mark < p.range[1],
                 Pause(r, p), request[r].pc = "run", UNCHANGED <<mark, summaries>>
          PROVE  MarkInv'
      <4> DEFINE d == [c EXCEPT !.prompt = p]
      <4>1. d.node = c.node /\ d.prompt = p
        BY <3>1 DEF Checkpoint
      <4>2. Checkpointed(r, d, Yield(r))
        BY <3>4 DEF Pause
      <4> HIDE DEF d
      <4>3. Ahead(d) /\ Answering(d)
        BY <3>4, <4>1 DEF Ahead, Answering, Paused, NoPrompt
      <4>4. QED
        BY <3>4, <4>2, <4>3, MarkNode, YieldType
    <3>5. ASSUME NEW n PROVE Goto(c, n).prompt = NoPrompt /\ Goto(c, n).given = <<>>
      BY <3>1 DEF Goto, Checkpoint
    <3>6. CASE Input(r)
      <4>1. /\ NewTurn(thread, request[r].turn).prompt = NoPrompt
            /\ NewTurn(thread, request[r].turn).given = <<>>
        BY DEF NewTurn, Goto, TypeOK, Checkpoint
      <4>2. QED
        BY <3>3, <3>6, <4>1 DEF Input
    <3>7. CASE GuardrailIn(r)
      <4>1. /\ [Goto(c, "end") EXCEPT !.text = "refused"].prompt = NoPrompt
            /\ [Goto(c, "end") EXCEPT !.text = "refused"].given = <<>>
        BY <3>1 DEF Goto, Checkpoint
      <4>2. QED
        BY <3>3, <3>5, <3>7, <4>1 DEF GuardrailIn, At
    <3>8. CASE Generate(r)
      <4>1. ASSUME NEW b
            PROVE  /\ [Goto(c, "tools") EXCEPT !.batch = b, !.round = @ + 1].prompt
                         = NoPrompt
                   /\ [Goto(c, "tools") EXCEPT !.batch = b, !.round = @ + 1].given
                         = <<>>
        BY <3>1 DEF Goto, Checkpoint
      <4>2. QED
        BY <3>3, <3>5, <3>8, <4>1 DEF Generate, At
    <3>9. CASE RunTools(r)
      <4>1. CASE Pause(r, Gate(c, Len(c.given) + 1))
        BY <3>4, <3>9, <4>1 DEF RunTools, At, Gate
      <4>2. ASSUME Continue(r, [Goto(c, "generate") EXCEPT !.active = c.batch.names,
                                  !.unjudged = @ \/ c.batch.names])
            PROVE  MarkInv'
        <5> DEFINE d == [Goto(c, "generate") EXCEPT !.active = c.batch.names,
                                                   !.unjudged = @ \/ c.batch.names]
        <5>1. d.prompt = NoPrompt /\ d.given = <<>> /\ Continue(r, d)
          BY <3>1, <4>2 DEF Goto, Checkpoint
        <5> HIDE DEF d
        <5>2. QED
          BY <3>3, <3>9, <5>1 DEF RunTools, At
      <4>3. QED
        BY <3>9, <4>1, <4>2 DEF RunTools
    <3>10. CASE PersistAsks(r)
      <4> DEFINE p == [turn |-> c.turn, round |-> c.round, at |-> "persist_memory",
                       item |-> 0, range |-> Proposed]
      <4>1. p.at # "nothing" /\ p.range[1] = mark + 1 /\ Pause(r, p)
        BY <3>10 DEF PersistAsks, Proposed
      <4>2. mark < p.range[1]
        BY <4>1, LimitAssumption DEF TypeOK, Pages
      <4> HIDE DEF p
      <4>3. QED
        BY <3>4, <3>10, <4>1, <4>2 DEF PersistAsks, At
    <3>11. CASE PersistSkips(r)
      BY <3>3, <3>5, <3>11 DEF PersistSkips, At
    <3>12. CASE NoteSaved(r)
      <4> DEFINE d == [Goto(c, "guardrail_out") EXCEPT !.ack = c.turn]
      <4>1. d.prompt = NoPrompt /\ d.given = <<>>
        BY <3>1 DEF Goto, Checkpoint
      <4>2. /\ thread' = d /\ request'[r].local = d /\ request'[r].pc = "run"
            /\ \A q \in Requests \ {r} : request'[q] = request[q]
            /\ UNCHANGED <<mark, summaries>> /\ request[r].pc = "note"
        BY <3>12 DEF NoteSaved, TypeOK, RequestState
      <4>3. \A q \in Requests : q # r => request[q].pc \notin {"run", "advance", "note"}
        BY <4>2 DEF OneActive, Active
      <4> HIDE DEF d
      <4>4. Answering(thread)' /\ Ahead(thread)' /\ Answering(State(r))' /\ Ahead(State(r))'
        BY <4>1, <4>2 DEF Answering, Ahead, Paused, State
      <4>5. SummariesDisjoint'
        BY <4>2 DEF MarkInv, SummariesDisjoint
      <4>6. \A i \in DOMAIN summaries : summaries[i].range[2] <= mark
        BY <4>2, <4>3 DEF MarkInv
      <4>7. QED
        BY <4>2, <4>3, <4>4, <4>5, <4>6 DEF MarkInv
    <3>13. ASSUME NEW t
           PROVE  /\ Reply(c, t).prompt = NoPrompt /\ Reply(c, t).given = <<>>
                  /\ Judged(c, t).prompt = NoPrompt /\ Judged(c, t).given = <<>>
      BY <3>1 DEF Reply, Judged, Goto, Checkpoint
    <3>14. CASE PassUnjudged(r) \/ JudgedSafe(r)
      BY <3>3, <3>13, <3>14 DEF PassUnjudged, JudgedSafe, At
    <3>15. CASE JudgedRisky(r)
      <4> DEFINE p == [turn |-> c.turn, round |-> c.round, at |-> "guardrail_out",
                       item |-> 0, range |-> NoRange]
      <4>1. p.at # "nothing" /\ request[r].pc = "run" /\ c.node = "guardrail_out"
            /\ UNCHANGED <<mark, summaries>>
        BY <3>15 DEF JudgedRisky, At
      <4>2. Pause(r, p) \/ Finish(r, Judged(c, "shown")) \/ Finish(r, Judged(c, "withheld"))
        BY <3>15 DEF JudgedRisky
      <4> HIDE DEF p
      <4>3. QED
        BY <3>3, <3>4, <3>13, <4>1, <4>2
    <3>16. QED
      BY <2>2, <2>7, <3>6, <3>7, <3>8, <3>9, <3>10, <3>11, <3>12, <3>14, <3>15,
         MarkSaved, MarkAdvanced DEF GraphStep
  <2>8. QED
    BY <2>2, <2>3, <2>4, <2>5, <2>6, <2>7 DEF Next, HandlerStep
<1>3. Inv => SummariesDisjoint
  BY DEF MarkInv, SummariesDisjoint
<1>4. QED
  BY <1>1, <1>2, <1>3, ChatTypeCorrect, OneAtATime, PTL DEF Spec

-----------------------------------------------------------------------------
(* The transcript *)

\* Turn requests by what they have yet to write: the question they carry, the reply of the
\* turn they run, the reply of a turn that has ended.
Asks(r)    == r \in Turning /\ request[r].kind # "resume" /\ request[r].pc # "respond"
Runs(r)    == r \in Turning /\ request[r].pc \in {"run", "advance", "note"}
Replies(r) == r \in Turning /\ request[r].pc \in {"frame", "record"} /\ ~Paused(State(r))

\* A stream that has shown its prompt and is about to record the question.
Shown(r) == request[r].kind = "stream" /\ request[r].pc = "record" /\ Paused(State(r))

\* Where a request is fits its kind, and where a checkpoint is fits its prompt.
Fits ==
  /\ \A r \in Turning :
       /\ request[r].pc # "row"
       /\ request[r].pc = "input" => request[r].kind # "resume"
       /\ request[r].pc \in {"check", "load"} => request[r].kind = "resume"
       /\ request[r].pc = "load" => thread = NoThread \/ Paused(thread)
  /\ \A r \in Deleting : request[r].pc = "row"
  /\ Paused(thread) => thread.node # "end"
  /\ \A r \in Turning : Runs(r) \/ Paused(State(r)) => State(r).node # "end"
  /\ \A r \in Turning : Replies(r) => State(r).node = "end"

\* One message is under way at a time; what goes on beside it answers the prompt that its
\* stream has shown.
Alone ==
  /\ \A q, r \in Turning : q # r =>
       /\ Shown(q) \/ Shown(r)
       /\ request[q].kind = "resume" \/ request[r].kind = "resume"
  /\ \A r \in Turning :
       request[r].kind = "stream" /\ request[r].pc = "record" /\ screen # NoPrompt => Shown(r)

\* Turns are numbered as they are sent; a message that has not reached the graph is in
\* no checkpoint and in no line.
Numbered ==
  /\ thread.turn <= turns
  /\ \A r \in Requests : State(r).turn <= turns
  /\ \A i \in DOMAIN transcript : transcript[i].turn <= turns
  /\ \A r \in Turning : request[r].kind # "resume" =>
       /\ request[r].turn = turns /\ turns # 0
       /\ request[r].pc # "input" => State(r).turn = turns
       /\ request[r].pc = "input" =>
            /\ thread.turn # turns
            /\ ~Recorded("user", turns) /\ ~Recorded("assistant", turns)

\* No line is there before it is written, and none twice.
Once ==
  /\ \A i, j \in DOMAIN transcript :
       i < j /\ transcript[i].turn = transcript[j].turn /\ transcript[i].turn # 0 =>
         transcript[i].role # transcript[j].role
  /\ \A r \in Requests : Asks(r) => ~Recorded("user", turns)
  /\ \A r \in Requests : (Runs(r) \/ Replies(r)) /\ State(r).turn # 0 =>
       ~Recorded("assistant", State(r).turn)
  /\ thread.turn # 0 /\ thread.node # "end" => ~Recorded("assistant", thread.turn)
  /\ \A r \in Requests : Replies(r) /\ State(r).turn # 0 /\ thread.turn = State(r).turn =>
       thread.node = "end"

\* The question of turn t is there, or on its way.
HasQuestion(t) ==
  \/ t \in {0} \cup cut
  \/ Recorded("user", t)
  \/ \E r \in Requests : Asks(r) /\ request[r].turn = t

\* Each turn the checkpoint or a request is in has its question, and its reply once the graph
\* has finished.
Complete ==
  exists =>
    /\ HasQuestion(thread.turn)
    /\ \A r \in Requests : Runs(r) => HasQuestion(State(r).turn)
    /\ thread.node = "end" /\ thread.turn \notin {0} \cup cut =>
         \/ Recorded("assistant", thread.turn)
         \/ \E r \in Requests : Replies(r) /\ State(r).turn = thread.turn

TranscriptInv == Fits /\ Alone /\ Numbered /\ Once /\ Complete

\* What the other requests are doing stays the same beside a step of r.
Kept(r) ==
  \A q \in Requests \ {r} :
    /\ State(q)' = State(q) /\ (q \in Turning)' = (q \in Turning)
    /\ (q \in Deleting)' = (q \in Deleting)
    /\ Asks(q)' = Asks(q) /\ Runs(q)' = Runs(q)
    /\ Replies(q)' = Replies(q) /\ Shown(q)' = Shown(q)
\* That holds of every step that writes one request.
LEMMA OthersStay ==
  ASSUME NEW r \in Requests, \A q \in Requests \ {r} : request'[q] = request[q]
  PROVE  Kept(r)
BY DEF Kept, State, Turning, Deleting, Asks, Runs, Replies, Shown, Paused

\* Beside a request that has not shown a prompt there is at most a stream that has.
LEMMA Beside ==
  ASSUME Alone, NEW r \in Turning, ~Shown(r), NEW q \in Turning, q # r
  PROVE  /\ Shown(q) /\ ~Runs(q) /\ ~Replies(q) /\ request[r].kind = "resume"
         /\ request[q].kind = "stream" /\ request[q].pc = "record"
BY DEF Alone, Shown, Runs, Replies

\* A step of the graph, that continues the turn, ends it or asks.
LEMMA TurnGoesOn ==
  ASSUME TypeOK, TranscriptInv, NEW r \in Requests, Runs(r),
         \A q \in Requests \ {r} : request'[q] = request[q],
         request'[r].kind = request[r].kind, request'[r].turn = request[r].turn,
         State(r)'.turn = State(r).turn,
         UNCHANGED <<exists, transcript, screen, turns, cut>>,
         \/ thread' = State(r)'
         \/ thread' = thread /\ request'[r].pc \in {"run", "advance", "note"},
         \/ request'[r].pc \in {"run", "advance", "note"} /\ State(r)'.node # "end"
         \/ request'[r].pc = Yield(r) /\ (Paused(State(r)') <=> State(r)'.node # "end")
  PROVE  TranscriptInv'
<1> USE DEF TranscriptInv, Kept
<1>1. /\ r \in Turning /\ r \in Turning' /\ ~Shown(r) /\ ~Shown(r)'
      /\ Asks(r)' <=> Asks(r)
      /\ request[r].pc \in {"run", "advance", "note"}
      /\ request'[r].pc \in {"run", "advance", "note", "frame", "record"}
      /\ request'[r].kind = "stream" => request'[r].pc # "record"
  BY DEF Runs, Turning, Shown, Asks, Yield
<1>2. /\ (Runs(r)' \/ Paused(State(r))') => State(r)'.node # "end"
      /\ Replies(r)' => State(r)'.node = "end" /\ thread' = State(r)'
      /\ thread'.node = "end" => thread' = thread \/ (Replies(r)' /\ thread' = State(r)')
      /\ Paused(thread)' => thread'.node # "end"
  BY <1>1 DEF Runs, Replies, Fits, Paused, Yield
<1>3. /\ \A q \in Turning \ {r} :
           /\ Shown(q) /\ ~Runs(q) /\ ~Replies(q) /\ request[r].kind = "resume"
           /\ request[q].kind = "stream" /\ request[q].pc = "record"
  BY <1>1, Beside
<1>4. Kept(r)
  BY OthersStay
<1>5. ~Replies(r) /\ \A q \in Requests \ {r} : ~Runs(q) /\ ~Replies(q)
  BY <1>1, <1>3 DEF Runs, Replies, Turning
<1>6. /\ Turning' = Turning /\ Deleting' = Deleting
      /\ Turning \subseteq Requests /\ Deleting \subseteq Requests \ {r}
  BY <1>1, <1>4 DEF Turning, Deleting
<1>7. Fits'
  BY <1>1, <1>2, <1>3, <1>4, <1>6 DEF Fits, Paused
<1>8. Alone'
  BY <1>1, <1>3, <1>4, <1>6 DEF Alone
<1>9. Numbered'
  <2>1. thread'.turn <= turns'
    BY DEF Numbered
  <2>2. \A q \in Requests : State(q)'.turn <= turns'
    BY <1>4 DEF Numbered
  <2>3. \A i \in DOMAIN transcript' : transcript'[i].turn <= turns'
    BY DEF Numbered
  <2>4. ASSUME NEW q \in Turning, request'[q].kind # "resume"
        PROVE  /\ request'[q].turn = turns' /\ turns' # 0
               /\ State(q)'.turn = turns' /\ request'[q].pc # "input"
    BY <1>1, <1>3, <1>4, <2>4 DEF Numbered, Turning
  <2>5. QED
    BY <1>6, <2>1, <2>2, <2>3, <2>4 DEF Numbered
<1>10. Once'
  BY <1>1, <1>2, <1>4, <1>5 DEF Once, Recorded
<1>11. Complete'
  <2>1. ASSUME NEW t, HasQuestion(t) PROVE HasQuestion(t)'
    BY <1>1, <1>4, <2>1 DEF HasQuestion, Recorded
  <2>2. exists => HasQuestion(thread.turn)' /\ HasQuestion(State(r).turn)'
    <3>1. PICK t, u : t = thread'.turn /\ u = State(r)'.turn
      OBVIOUS
    <3>2. exists => HasQuestion(t) /\ HasQuestion(u)
      BY <3>1 DEF Complete
    <3>3. exists => HasQuestion(t)' /\ HasQuestion(u)'
      BY <2>1, <3>2
    <3>4. QED
      BY <3>1, <3>3 DEF HasQuestion, Recorded
  <2>3. exists => \A q \in Requests : Runs(q)' => HasQuestion(State(q).turn)'
    BY <1>4, <1>5, <2>2
  <2>4. exists /\ thread'.node = "end" /\ thread'.turn \notin {0} \cup cut =>
          \/ Recorded("assistant", thread.turn)'
          \/ Replies(r)' /\ State(r)'.turn = thread'.turn
    BY <1>2, <1>5 DEF Complete, Recorded
  <2>5. QED
    BY <2>2, <2>3, <2>4 DEF Complete
<1>12. QED
  BY <1>7, <1>8, <1>9, <1>10, <1>11

\* A request that ends, with its answer or without.
LEMMA TurnEnds ==
  ASSUME TypeOK, TranscriptInv, NEW r \in Requests,
         request' = [request EXCEPT ![r] = Idle],
         UNCHANGED <<thread, exists, transcript, turns>>, cut \subseteq cut',
         screen' = screen \/ (r \in Turning /\ ~Shown(r)),
         exists /\ Asks(r) => request[r].turn \in cut',
         exists /\ Replies(r) => State(r).turn \in cut'
  PROVE  TranscriptInv'
<1> USE DEF TranscriptInv, Kept
<1>1. request'[r] = Idle /\ \A q \in Requests \ {r} : request'[q] = request[q]
  BY DEF TypeOK
<1>2. /\ ~Asks(r)' /\ ~Runs(r)' /\ ~Replies(r)' /\ r \notin Turning' /\ r \notin Deleting'
      /\ State(r)' = NoThread
  BY <1>1 DEF Asks, Runs, Replies, Turning, Deleting, State, Idle
<1>3. Kept(r)
  BY <1>1, OthersStay
<1>4. /\ Turning' = Turning \ {r} /\ Deleting' = Deleting \ {r}
      /\ Turning \subseteq Requests /\ Deleting \subseteq Requests
  BY <1>2, <1>3 DEF Turning, Deleting
<1>5. Fits'
  BY <1>1, <1>3, <1>4 DEF Fits, Paused
<1>6. Alone'
  BY <1>1, <1>3, <1>4 DEF Alone
<1>7. Numbered'
  <2>1. turns \in Nat /\ State(r)'.turn <= turns
    BY <1>2, LimitAssumption DEF TypeOK, Turns, NoThread
  <2>2. QED
    BY <1>1, <1>3, <1>4, <2>1 DEF Numbered, Recorded
<1>8. Once'
  BY <1>2, <1>3 DEF Once, Recorded
<1>9. Complete'
  <2>1. ASSUME NEW t, HasQuestion(t), exists PROVE HasQuestion(t)'
    BY <1>3, <2>1 DEF HasQuestion, Recorded
  <2>2. exists => HasQuestion(thread.turn)'
    <3>1. PICK t : t = thread.turn
      OBVIOUS
    <3>2. exists => HasQuestion(t)'
      BY <2>1, <3>1 DEF Complete
    <3>3. QED
      BY <3>1, <3>2 DEF HasQuestion, Recorded
  <2>3. ASSUME NEW q \in Requests, Runs(q)', exists
        PROVE  HasQuestion(State(q).turn)'
    <3>1. PICK t : t = State(q).turn
      OBVIOUS
    <3>2. HasQuestion(t)' /\ State(q)' = State(q)
      BY <1>2, <1>3, <2>1, <2>3, <3>1 DEF Complete
    <3>3. QED
      BY <3>1, <3>2 DEF HasQuestion, Recorded
  <2>4. exists /\ thread.node = "end" /\ thread.turn \notin {0} \cup cut' =>
          \/ Recorded("assistant", thread.turn)'
          \/ \E q \in Requests : Replies(q)' /\ State(q)'.turn = thread.turn
    BY <1>3 DEF Complete, Recorded
  <2>5. QED
    BY <2>2, <2>3, <2>4 DEF Complete
<1>10. QED
  BY <1>5, <1>6, <1>7, <1>8, <1>9

\* A request that begins or waits, with nothing of a turn in its hands.
LEMMA TurnWaits ==
  ASSUME TypeOK, TranscriptInv, NEW r \in Requests, NEW e \in RequestState,
         request[r].pc = "idle" \/ (r \in Turning /\ request[r].pc = "check"),
         request' = [request EXCEPT ![r] = e],
         \/ e.local.turn = 0 /\ ~Paused(e.local)
         \/ r \in Turning /\ e.local = request[r].local,
         \/ e.kind = "delete" /\ e.pc = "row" /\ thread' = NoThread
         \/ e.kind = "resume" /\ e.pc = "check" /\ thread' = thread
            /\ \A q \in Turning : request[q].kind = "stream" /\ Shown(q)
         \/ e.kind = "resume" /\ e.pc = "load" /\ thread' = thread /\ Paused(thread)
            /\ r \in Turning,
         UNCHANGED <<exists, transcript, screen, turns, cut>>
  PROVE  TranscriptInv'
<1> USE DEF TranscriptInv, Kept
<1>1. request'[r] = e /\ \A q \in Requests \ {r} : request'[q] = request[q]
  BY DEF TypeOK
<1>2. /\ ~Asks(r)' /\ ~Runs(r)' /\ ~Replies(r)' /\ ~Shown(r)'
      /\ State(r)' = e.local
      /\ \/ State(r)'.turn = 0 /\ ~Paused(State(r))'
         \/ r \in Turning /\ State(r)' = State(r)
  BY <1>1 DEF Asks, Runs, Replies, Shown, State, Turning, Paused
<1>3. Kept(r)
  BY <1>1, OthersStay
<1>4. /\ \A q \in Turning' \ {r} : q \in Turning
      /\ \A q \in Deleting' \ {r} : q \in Deleting
      /\ Turning' \subseteq Requests /\ Deleting' \subseteq Requests
      /\ r \in Turning' => e.kind = "resume"
      /\ r \in Deleting' => e.kind = "delete"
      /\ ~Asks(r) /\ ~Runs(r) /\ ~Replies(r) /\ ~Shown(r)
  BY <1>1, <1>3 DEF Turning, Deleting, Asks, Runs, Replies, Shown, Fits
<1>5. /\ NoThread.turn = 0 /\ NoThread.node = "end" /\ ~Paused(NoThread)
  BY DEF NoThread, Paused
<1>6. Fits'
  BY <1>1, <1>2, <1>3, <1>4, <1>5 DEF Fits, Paused
<1>7. Alone'
  BY <1>1, <1>2, <1>3, <1>4 DEF Alone
<1>8. Numbered'
  <2>1. turns \in Nat
    BY LimitAssumption DEF TypeOK, Turns
  <2>2. QED
    BY <1>1, <1>2, <1>3, <1>4, <1>5, <2>1 DEF Numbered, Recorded
<1>9. Once'
  BY <1>2, <1>3, <1>5 DEF Once, Recorded
<1>10. Complete'
  <2>1. ASSUME NEW t, HasQuestion(t) PROVE HasQuestion(t)'
    BY <1>3, <1>4, <2>1 DEF HasQuestion, Recorded
  <2>2. exists => HasQuestion(thread.turn)'
    <3>1. PICK t : t = thread'.turn
      OBVIOUS
    <3>2. HasQuestion(0)
      BY DEF HasQuestion
    <3>3. exists => HasQuestion(t)'
      BY <1>5, <2>1, <3>1, <3>2 DEF Complete
    <3>4. QED
      BY <3>1, <3>3 DEF HasQuestion, Recorded
  <2>3. ASSUME NEW q \in Requests, Runs(q)', exists
        PROVE  HasQuestion(State(q).turn)'
    <3>1. PICK t : t = State(q).turn
      OBVIOUS
    <3>2. HasQuestion(t)' /\ State(q)' = State(q)
      BY <1>2, <1>3, <2>1, <2>3, <3>1 DEF Complete
    <3>3. QED
      BY <3>1, <3>2 DEF HasQuestion, Recorded
  <2>4. exists /\ thread'.node = "end" /\ thread'.turn \notin {0} \cup cut =>
          \/ Recorded("assistant", thread.turn)'
          \/ \E q \in Requests : Replies(q)' /\ State(q)'.turn = thread'.turn
    BY <1>3, <1>4, <1>5 DEF Complete, Recorded
  <2>5. QED
    BY <2>2, <2>3, <2>4 DEF Complete
<1>11. QED
  BY <1>6, <1>7, <1>8, <1>9, <1>10

\* A new message, while no other turn is under way.
LEMMA TurnBegins ==
  ASSUME TypeOK, TranscriptInv, NEW r \in Requests, Turning = {}, Send(r)
  PROVE  TranscriptInv'
<1> USE DEF TranscriptInv, Kept
<1>1. PICK k \in {"chat", "stream"} : request' = [request EXCEPT ![r] =
        [Idle EXCEPT !.pc = "input", !.kind = k, !.turn = turns + 1]]
  BY DEF Send
<1>2. /\ \A q \in Requests \ {r} : request'[q] = request[q]
      /\ request'[r].pc = "input" /\ request'[r].kind \in {"chat", "stream"}
      /\ request'[r].turn = turns' /\ request'[r].local = NoThread
      /\ turns' = turns + 1 /\ turns \in Nat
      /\ UNCHANGED <<thread, exists, transcript, cut>> /\ screen' = NoPrompt
  BY <1>1, LimitAssumption DEF Send, TypeOK, Idle, Turns
<1>3. Kept(r) /\ Turning' = {r} /\ r \notin Deleting' /\ Deleting' \subseteq Deleting
  BY <1>2, OthersStay DEF Turning, Deleting
<1>4. State(r)' = NoThread /\ NoThread.turn = 0 /\ ~Paused(NoThread) /\ ~Shown(r)'
      /\ \A q \in Requests : ~Runs(q)' /\ ~Replies(q)'
  BY <1>2, <1>3 DEF State, NoThread, Paused, Shown, Runs, Replies
<1>5. /\ \A q \in Requests : State(q).turn \in Nat
      /\ thread.turn \in Nat /\ \A i \in DOMAIN transcript : transcript[i].turn \in Nat
  <2>1. \A q \in Requests : State(q).turn \in Turns
    BY RunType
  <2>2. thread.turn \in Turns
    BY DEF TypeOK, Checkpoint
  <2>3. \A i \in DOMAIN transcript : transcript[i].turn \in Turns
    <3> DEFINE M == [role : {"user", "assistant"}, turn : Turns, ack : Turns]
    <3>1. transcript \in Seq(M) /\ \A m \in M : m.turn \in Turns
      BY DEF TypeOK
    <3> HIDE DEF M
    <3>2. QED
      BY <3>1
  <2>4. QED
    BY <2>1, <2>2, <2>3, LimitAssumption DEF Turns
<1>6. Fits'
  BY <1>2, <1>3, <1>4 DEF Fits, Paused, Deleting
<1>7. Alone'
  BY <1>2, <1>3 DEF Alone
<1>8. Numbered'
  BY <1>2, <1>3, <1>4, <1>5 DEF Numbered, Recorded
<1>9. Once'
  BY <1>2, <1>4, <1>5 DEF Once, Numbered, Recorded
<1>10. Complete'
  <2>1. HasQuestion(thread.turn) => HasQuestion(thread.turn)'
    BY <1>2, <1>3 DEF HasQuestion, Recorded, Asks
  <2>2. \A q \in Requests : ~Replies(q)
    BY DEF Replies
  <2>3. QED
    BY <1>2, <1>4, <2>1, <2>2 DEF Complete, Recorded
<1>11. QED
  BY <1>6, <1>7, <1>8, <1>9, <1>10

\* A message reaches the graph.
LEMMA TurnStarts ==
  ASSUME TypeOK, TranscriptInv, NEW r \in Requests, Input(r)
  PROVE  TranscriptInv'
<1> USE DEF TranscriptInv, Kept
<1> DEFINE c == NewTurn(thread, request[r].turn)
<1>1. c.turn = request[r].turn /\ c.node = "guardrail_in" /\ c.prompt = NoPrompt
  BY DEF NewTurn, Goto, TypeOK, Checkpoint
<1>2. /\ request[r].pc = "input" /\ thread' = c
      /\ \A q \in Requests \ {r} : request'[q] = request[q]
      /\ request'[r].pc = "run" /\ request'[r].local = c
      /\ request'[r].kind = request[r].kind /\ request'[r].turn = request[r].turn
      /\ UNCHANGED <<exists, transcript, screen, turns, cut>>
  BY DEF Input, Continue, Checkpointed, client, losses, TypeOK, RequestState
<1> HIDE DEF c
<1>3. r \in Turning /\ request[r].kind # "resume" /\ ~Shown(r) /\ request[r].turn = turns
  BY <1>2 DEF Fits, Numbered, Turning, Deleting, Shown, TypeOK, RequestState, Kind
<1>4. Turning = {r}
  BY <1>3, Beside
<1>5. /\ Kept(r) /\ Turning' = {r} /\ Deleting' \subseteq Deleting \ {r}
      /\ Deleting \subseteq Requests
  BY <1>2, <1>3, <1>4, OthersStay DEF Turning, Deleting
<1>6. /\ State(r)' = c /\ Asks(r)' /\ Runs(r)' /\ ~Paused(State(r))'
      /\ \A q \in Requests : ~Replies(q)' /\ ~Shown(q)'
  BY <1>1, <1>2, <1>3, <1>5 DEF State, Asks, Runs, Replies, Shown, Paused, Turning
<1>7. turns \in Nat
  BY LimitAssumption DEF TypeOK, Turns
<1>8. turns # 0 /\ ~Recorded("user", turns) /\ ~Recorded("assistant", turns)
  BY <1>2, <1>3 DEF Numbered
<1>9. Fits'
  BY <1>1, <1>2, <1>3, <1>5, <1>6 DEF Fits, Paused
<1>10. Alone'
  BY <1>2, <1>5 DEF Alone
<1>11. Numbered'
  BY <1>1, <1>2, <1>3, <1>5, <1>6, <1>7, <1>8 DEF Numbered
<1>12. Once'
  BY <1>1, <1>2, <1>3, <1>5, <1>6, <1>7, <1>8 DEF Once, Recorded, Asks, Runs
<1>13. Complete'
  BY <1>1, <1>2, <1>3, <1>5, <1>6 DEF Complete, HasQuestion, Runs
<1>14. QED
  BY <1>9, <1>10, <1>11, <1>12, <1>13

\* The answer to a prompt continues the turn that waits for it, or finds no turn.
LEMMA TurnLoaded ==
  ASSUME TypeOK, TranscriptInv, NEW r \in Requests, LoadThread(r)
  PROVE  TranscriptInv'
<1> USE DEF TranscriptInv, Kept
<1> DEFINE c == IF Paused(thread)
                THEN [thread EXCEPT !.given = Append(@, request[r].decision)]
                ELSE thread
<1>1. c.turn = thread.turn /\ c.node = thread.node /\ c.prompt = thread.prompt
  BY DEF TypeOK, Checkpoint
<1>2. /\ request[r].pc = "load"
      /\ \A q \in Requests \ {r} : request'[q] = request[q]
      /\ request'[r].pc = IF thread.node = "end" THEN "record" ELSE "run"
      /\ request'[r].local = c
      /\ request'[r].kind = request[r].kind
      /\ UNCHANGED <<thread, exists, transcript, screen, turns, cut>>
  BY DEF LoadThread, client, losses, TypeOK, RequestState
<1> HIDE DEF c
<1>3. r \in Turning /\ request[r].kind = "resume" /\ ~Shown(r)
  BY <1>2 DEF Fits, Turning, Deleting, Shown, TypeOK, RequestState, Kind
<1>4. \A q \in Turning \ {r} :
        /\ Shown(q) /\ ~Runs(q) /\ ~Replies(q)
        /\ request[q].kind = "stream" /\ request[q].pc = "record"
  BY <1>3, Beside
<1>5. /\ Kept(r) /\ Turning' = Turning /\ Deleting' = Deleting
      /\ Turning \subseteq Requests /\ Deleting \subseteq Requests \ {r}
  BY <1>2, <1>3, OthersStay DEF Turning, Deleting
<1>6. /\ State(r)' = c /\ ~Asks(r)' /\ ~Shown(r)'
      /\ ~Asks(r) /\ ~Runs(r) /\ ~Replies(r)
      /\ \A q \in Requests \ {r} : ~Runs(q)' /\ ~Replies(q)'
  BY <1>2, <1>3, <1>4, <1>5 DEF State, Asks, Runs, Replies, Shown
<1>7. /\ (Runs(r)' \/ Paused(State(r))') => State(r)'.node # "end"
      /\ Runs(r)' => thread.node # "end"
      /\ Replies(r)' => /\ thread.node = "end" /\ thread = NoThread
                        /\ State(r)'.node = "end"
  BY <1>1, <1>2, <1>3, <1>6 DEF Fits, Runs, Replies, Paused
<1>8. NoThread.turn = 0
  BY DEF NoThread
<1>9. Fits'
  BY <1>2, <1>3, <1>4, <1>5, <1>7 DEF Fits, Paused
<1>10. Alone'
  BY <1>2, <1>3, <1>4, <1>5 DEF Alone
<1>11. Numbered'
  BY <1>1, <1>2, <1>3, <1>5, <1>6 DEF Numbered, Recorded
<1>12. Once'
  BY <1>1, <1>2, <1>5, <1>6, <1>7, <1>8 DEF Once, Recorded
<1>13. Complete'
  <2>1. ASSUME NEW t, HasQuestion(t) PROVE HasQuestion(t)'
    BY <1>2, <1>5, <1>6, <2>1 DEF HasQuestion, Recorded
  <2>2. exists => HasQuestion(thread.turn)' /\ HasQuestion(State(r).turn)'
    <3>1. PICK t : t = thread.turn
      OBVIOUS
    <3>2. exists => HasQuestion(t)'
      BY <2>1, <3>1 DEF Complete
    <3>3. QED
      BY <1>1, <1>2, <1>6, <3>1, <3>2 DEF HasQuestion, Recorded
  <2>3. exists => \A q \in Requests : Runs(q)' => HasQuestion(State(q).turn)'
    BY <1>6, <2>2
  <2>4. exists /\ thread.node = "end" /\ thread.turn \notin {0} \cup cut =>
          Recorded("assistant", thread.turn)'
    BY <1>2, <1>4, <1>6 DEF Complete, Recorded, Replies
  <2>5. QED
    BY <1>2, <2>2, <2>3, <2>4 DEF Complete
<1>14. QED
  BY <1>9, <1>10, <1>11, <1>12, <1>13

\* A stream shows its prompt, or clears the screen, and goes on to record.
LEMMA PromptShown ==
  ASSUME TypeOK, TranscriptInv, NEW r \in Requests, LastFrame(r)
  PROVE  TranscriptInv'
<1> USE DEF TranscriptInv, Kept
<1>1. /\ request[r].pc = "frame" /\ screen' = State(r).prompt
      /\ \A q \in Requests \ {r} : request'[q] = request[q]
      /\ request'[r].pc = "record" /\ request'[r].local = request[r].local
      /\ request'[r].kind = request[r].kind /\ request'[r].turn = request[r].turn
      /\ UNCHANGED <<thread, exists, transcript, turns, cut>>
  BY DEF LastFrame, losses, TypeOK, RequestState
<1>2. r \in Turning /\ ~Shown(r)
  BY <1>1 DEF Fits, Turning, Deleting, Shown, TypeOK, RequestState, Kind
<1>3. \A q \in Turning \ {r} : Shown(q)
  BY <1>2, Beside
<1>4. /\ Kept(r) /\ Turning' = Turning /\ Deleting' = Deleting
      /\ Turning \subseteq Requests /\ Deleting \subseteq Requests \ {r}
  BY <1>1, <1>2, OthersStay DEF Turning, Deleting
<1>5. /\ State(r)' = State(r) /\ Asks(r)' = Asks(r) /\ Replies(r)' = Replies(r)
      /\ Runs(r)' = Runs(r)
      /\ screen' # NoPrompt /\ request[r].kind = "stream" => Shown(r)'
  BY <1>1, <1>4 DEF State, Asks, Runs, Replies, Shown, Paused
<1>6. Fits'
  BY <1>1, <1>4, <1>5 DEF Fits, Paused
<1>7. Alone'
  BY <1>1, <1>2, <1>3, <1>4, <1>5 DEF Alone
<1>8. Numbered'
  BY <1>1, <1>4, <1>5 DEF Numbered, Recorded
<1>9. Once'
  BY <1>1, <1>4, <1>5 DEF Once, Recorded
<1>10. Complete'
  <2>1. ASSUME NEW t PROVE HasQuestion(t)' = HasQuestion(t)
    BY <1>1, <1>4, <1>5 DEF HasQuestion, Recorded
  <2>2. exists => HasQuestion(thread.turn)'
    BY <1>1, <1>4, <1>5 DEF Complete, HasQuestion, Recorded
  <2>3. ASSUME NEW q \in Requests, Runs(q)', exists
        PROVE  HasQuestion(State(q).turn)'
    <3>1. PICK t : t = State(q).turn
      OBVIOUS
    <3>2. HasQuestion(t)' /\ State(q)' = State(q)
      BY <1>4, <1>5, <2>1, <2>3, <3>1 DEF Complete
    <3>3. QED
      BY <3>1, <3>2 DEF HasQuestion, Recorded
  <2>4. QED
    BY <1>1, <1>4, <1>5, <2>2, <2>3 DEF Complete, Recorded
<1>11. QED
  BY <1>6, <1>7, <1>8, <1>9, <1>10

\* The conversation goes.
LEMMA RowDropped ==
  ASSUME TypeOK, TranscriptInv, NEW r \in Requests, DropRow(r)
  PROVE  TranscriptInv'
<1> USE DEF TranscriptInv, Kept
<1>1. /\ request'[r] = Idle /\ \A q \in Requests \ {r} : request'[q] = request[q]
      /\ ~exists' /\ transcript' = <<>> /\ screen' = NoPrompt
      /\ UNCHANGED <<thread, turns>>
  BY DEF DropRow, TypeOK
<1>2. /\ ~Asks(r)' /\ ~Runs(r)' /\ ~Replies(r)' /\ r \notin Turning' /\ r \notin Deleting'
      /\ State(r)' = NoThread /\ NoThread.turn = 0
  BY <1>1 DEF Asks, Runs, Replies, Turning, Deleting, State, Idle, NoThread
<1>3. Kept(r)
  BY <1>1, OthersStay
<1>4. /\ Turning' = Turning \ {r} /\ Deleting' = Deleting \ {r}
      /\ Turning \subseteq Requests /\ Deleting \subseteq Requests
  BY <1>2, <1>3 DEF Turning, Deleting
<1>5. turns \in Nat /\ DOMAIN transcript' = {} /\ \A role, t : ~Recorded(role, t)'
  BY <1>1, LimitAssumption DEF TypeOK, Turns, Recorded
<1>6. Fits'
  BY <1>1, <1>3, <1>4 DEF Fits, Paused
<1>7. Alone'
  BY <1>1, <1>3, <1>4 DEF Alone
<1>8. Numbered'
  BY <1>1, <1>2, <1>3, <1>4, <1>5 DEF Numbered, Recorded
<1>9. Once'
  BY <1>1, <1>2, <1>3, <1>5 DEF Once, Recorded
<1>10. Complete'
  BY <1>1 DEF Complete
<1>11. QED
  BY <1>6, <1>7, <1>8, <1>9, <1>10

\* What a request adds to the transcript: its question, unless it resumes the turn, and the
\* reply, unless the turn is paused.
LEMMA LinesWritten ==
  ASSUME TypeOK, NEW r \in Requests, transcript' = transcript \o Lines(r),
         NEW t, t = State(r).turn
  PROVE  /\ \A i \in DOMAIN transcript : i \in DOMAIN transcript' /\ transcript'[i] = transcript[i]
         /\ \A i, j \in DOMAIN transcript' : i < j =>
              \/ i \in DOMAIN transcript
              \/ transcript'[i].role # transcript'[j].role
         /\ \A i \in DOMAIN transcript' \ DOMAIN transcript :
              /\ transcript'[i].turn = t
              /\ \/ transcript'[i].role = "user" /\ request[r].kind # "resume"
                 \/ transcript'[i].role = "assistant" /\ ~Paused(State(r))
         /\ request[r].kind # "resume" => Recorded("user", t)'
         /\ ~Paused(State(r)) => Recorded("assistant", t)'
<1> DEFINE M == [role : {"user", "assistant"}, turn : Turns, ack : Turns]
           u == Message("user", State(r))
           a == Message("assistant", State(r))
           n == Len(transcript)
<1>1. transcript \in Seq(M) /\ Lines(r) \in Seq(M)
  BY LinesType DEF TypeOK
<1>2. /\ u.role = "user" /\ u.turn = t
      /\ a.role = "assistant" /\ a.turn = t
  BY DEF Message
<1>3. Lines(r) = (IF request[r].kind = "resume" THEN <<>> ELSE <<u>>) \o
                 (IF Paused(State(r)) THEN <<>> ELSE <<a>>)
  BY DEF Lines
<1> HIDE DEF M, u, a
<1>4. /\ n \in Nat /\ DOMAIN transcript = 1..n
      /\ DOMAIN transcript' = 1..(n + Len(Lines(r)))
      /\ \A i \in 1..n : transcript'[i] = transcript[i]
      /\ \A i \in 1..Len(Lines(r)) : transcript'[n + i] = Lines(r)[i]
  BY <1>1
<1> DEFINE new == DOMAIN transcript' \ DOMAIN transcript
<1>5. \A i \in DOMAIN transcript : i \in DOMAIN transcript' /\ transcript'[i] = transcript[i]
  <2>1. Len(Lines(r)) \in Nat
    BY <1>1
  <2>2. QED
    BY <1>4, <2>1
<1>6. /\ DOMAIN transcript' = DOMAIN transcript \cup new
      /\ \A i \in new, j \in DOMAIN transcript : j < i
  <2>1. Len(Lines(r)) \in Nat
    BY <1>1
  <2>2. QED
    BY <1>4, <2>1
<1>7. CASE request[r].kind = "resume" /\ Paused(State(r))
  <2>1. Len(Lines(r)) = 0
    BY <1>3, <1>7
  <2>2. new = {}
    BY <1>4, <2>1
  <2>3. QED
    BY <1>5, <1>6, <1>7, <2>2
<1>8. CASE request[r].kind = "resume" /\ ~Paused(State(r))
  <2>1. Len(Lines(r)) = 1 /\ Lines(r)[1] = a
    BY <1>3, <1>8
  <2>2. new = {n + 1} /\ transcript'[n + 1] = a
    BY <1>4, <2>1
  <2>3. QED
    <3>1. \A i, j \in DOMAIN transcript' : i < j => i \in DOMAIN transcript
      BY <1>4, <1>6, <2>2
    <3>2. Recorded("assistant", t)'
      BY <1>2, <1>6, <2>2 DEF Recorded
    <3>3. QED
      BY <1>2, <1>5, <1>8, <2>2, <3>1, <3>2
<1>9. CASE request[r].kind # "resume" /\ Paused(State(r))
  <2>1. Len(Lines(r)) = 1 /\ Lines(r)[1] = u
    BY <1>3, <1>9
  <2>2. new = {n + 1} /\ transcript'[n + 1] = u
    BY <1>4, <2>1
  <2>3. QED
    <3>1. \A i, j \in DOMAIN transcript' : i < j =>
            \/ i \in DOMAIN transcript
            \/ transcript'[i].role # transcript'[j].role
      BY <1>2, <1>4, <1>6, <2>2
    <3>2. Recorded("user", t)' /\ (~Paused(State(r)) => Recorded("assistant", t)')
      BY <1>2, <1>6, <1>9, <2>2 DEF Recorded
    <3>3. QED
      BY <1>2, <1>5, <1>9, <2>2, <3>1, <3>2
<1>10. CASE request[r].kind # "resume" /\ ~Paused(State(r))
  <2>1. Len(Lines(r)) = 2 /\ Lines(r)[1] = u /\ Lines(r)[2] = a
    BY <1>3, <1>10
  <2>2. new = {n + 1, n + 2} /\ transcript'[n + 1] = u /\ transcript'[n + 2] = a
    BY <1>4, <2>1
  <2>3. QED
    <3>1. \A i, j \in DOMAIN transcript' : i < j =>
            \/ i \in DOMAIN transcript
            \/ transcript'[i].role # transcript'[j].role
      BY <1>2, <1>4, <1>6, <2>2
    <3>2. Recorded("user", t)' /\ (~Paused(State(r)) => Recorded("assistant", t)')
      BY <1>2, <1>6, <1>10, <2>2 DEF Recorded
    <3>3. QED
      BY <1>2, <1>5, <1>10, <2>2, <3>1, <3>2
<1>11. QED
  BY <1>7, <1>8, <1>9, <1>10

\* The lines of a request complete the transcript for what it has done of its turn.
LEMMA TurnRecorded ==
  ASSUME TypeOK, TranscriptInv, NEW r \in Requests, Record(r)
  PROVE  TranscriptInv'
<1> USE DEF TranscriptInv, Kept
<1>1. /\ request[r].pc = "record" /\ exists /\ transcript' = transcript \o Lines(r)
      /\ \A q \in Requests \ {r} : request'[q] = request[q]
      /\ UNCHANGED <<thread, exists, screen, turns, cut>>
      /\ \/ request'[r] = Idle
         \/ /\ request'[r].pc = "respond" /\ request'[r].local = request[r].local
            /\ request'[r].kind = request[r].kind /\ request'[r].turn = request[r].turn
            /\ request[r].kind # "stream"
  BY DEF Record, losses, TypeOK, RequestState
<1>2. PICK t : t = State(r).turn
  OBVIOUS
<1> DEFINE new == DOMAIN transcript' \ DOMAIN transcript
<1>3. /\ \A i \in DOMAIN transcript : i \in DOMAIN transcript' /\ transcript'[i] = transcript[i]
      /\ \A i, j \in DOMAIN transcript' : i < j =>
           i \in DOMAIN transcript \/ transcript'[i].role # transcript'[j].role
      /\ \A i \in new :
           /\ transcript'[i].turn = t
           /\ \/ transcript'[i].role = "user" /\ request[r].kind # "resume"
              \/ transcript'[i].role = "assistant" /\ ~Paused(State(r))
      /\ request[r].kind # "resume" => Recorded("user", t)'
      /\ ~Paused(State(r)) => Recorded("assistant", t)'
  BY <1>1, <1>2, LinesWritten
<1> HIDE DEF new
<1>4. \A role, u :
        /\ Recorded(role, u) => Recorded(role, u)'
        /\ Recorded(role, u)' /\ ~Recorded(role, u) =>
             /\ u = t
             /\ \/ role = "user" /\ request[r].kind # "resume"
                \/ role = "assistant" /\ ~Paused(State(r))
  BY <1>3 DEF Recorded, new
<1>5. /\ r \in Turning /\ t \in Nat /\ t <= turns
      /\ request[r].kind # "resume" =>
           Asks(r) /\ t = turns /\ t # 0 /\ request[r].turn = t
      /\ ~Paused(State(r)) => Replies(r) /\ ~Shown(r)
  <2>1. r \in Turning
    BY <1>1 DEF Fits, Turning, Deleting, TypeOK, RequestState, Kind
  <2>2. t \in Nat
    BY <1>2, RunType, LimitAssumption DEF Turns
  <2>3. QED
    BY <1>1, <1>2, <2>1, <2>2 DEF Numbered, Asks, Replies, Shown
<1>6. /\ request[r].kind # "resume" => ~Recorded("user", t)
      /\ ~Paused(State(r)) /\ t # 0 => ~Recorded("assistant", t)
  BY <1>2, <1>5 DEF Once
<1>7. /\ Kept(r) /\ r \notin Deleting' /\ Deleting' \subseteq Deleting
      /\ Turning' \subseteq Turning
      /\ Turning \subseteq Requests /\ Deleting \subseteq Requests \ {r}
  <2>1. Kept(r)
    BY <1>1, OthersStay
  <2>2. r \notin Deleting /\ r \notin Deleting'
    BY <1>1, <1>5 DEF Turning, Deleting, Idle
  <2>3. QED
    BY <1>5, <2>1, <2>2 DEF Turning, Deleting
<1>8. /\ ~Asks(r)' /\ ~Runs(r)' /\ ~Replies(r)' /\ ~Shown(r)' /\ ~Runs(r)
      /\ State(r)' \in {State(r), NoThread} /\ NoThread.turn = 0 /\ ~Paused(NoThread)
      /\ r \in Turning' => State(r)' = State(r) /\ request'[r].pc = "respond"
  BY <1>1 DEF Asks, Runs, Replies, Shown, Turning, State, Idle, NoThread, Paused
<1>9. Fits'
  BY <1>1, <1>5, <1>7, <1>8 DEF Fits, Paused
<1>10. Alone'
  <2>1. r \in Turning' => request'[r].kind = request[r].kind /\ request[r].kind # "stream"
    BY <1>1 DEF Turning, Idle
  <2>2. Shown(r) => request[r].kind = "stream"
    BY DEF Shown
  <2>3. QED
    BY <1>1, <1>7, <2>1, <2>2 DEF Alone
<1>11. ASSUME NEW q \in Turning \ {r}, ~Shown(q)
       PROVE  Paused(State(r)) /\ request[r].kind = "stream"
  BY <1>5, <1>11 DEF Alone, Shown
<1>12. Numbered'
  <2>1. \A q \in Requests : State(q)'.turn <= turns'
    BY <1>1, <1>2, <1>5, <1>7, <1>8, LimitAssumption DEF Numbered, TypeOK, Turns
  <2>2. \A i \in DOMAIN transcript' : transcript'[i].turn <= turns'
    BY <1>1, <1>3, <1>5 DEF Numbered, new
  <2>3. ASSUME NEW q \in Turning', request'[q].kind # "resume"
        PROVE  /\ request'[q].turn = turns' /\ turns' # 0
               /\ request'[q].pc # "input" => State(q)'.turn = turns'
    <3>1. CASE q = r
      BY <1>1, <1>2, <1>5, <1>8, <2>3, <3>1 DEF Turning, Idle
    <3>2. CASE q # r
      BY <1>1, <1>7, <2>3, <3>2 DEF Numbered
    <3>3. QED
      BY <3>1, <3>2
  <2>4. ASSUME NEW q \in Turning', request'[q].kind # "resume", request'[q].pc = "input"
        PROVE  FALSE
    <3>1. q # r /\ q \in Turning /\ request[q].kind # "resume" /\ ~Shown(q)
      BY <1>1, <1>7, <2>4 DEF Shown, Turning, Idle
    <3>2. request[r].kind = "stream"
      BY <1>11, <3>1
    <3>3. QED
      BY <1>5, <3>1, <3>2 DEF Alone
  <2>5. QED
    BY <1>1, <2>1, <2>2, <2>3, <2>4 DEF Numbered
<1>13. Once'
  <2>1. ASSUME NEW i \in DOMAIN transcript', NEW j \in DOMAIN transcript', i < j,
               transcript'[i].turn = transcript'[j].turn, transcript'[i].turn # 0
        PROVE  transcript'[i].role # transcript'[j].role
    <3>1. CASE i \in DOMAIN transcript /\ j \in DOMAIN transcript
      BY <1>3, <2>1, <3>1 DEF Once
    <3>2. CASE i \in DOMAIN transcript /\ j \in new
      BY <1>3, <1>6, <2>1, <3>2 DEF Recorded
    <3>3. QED
      BY <1>3, <2>1, <3>1, <3>2 DEF new
  <2>2. ASSUME NEW q \in Requests, Asks(q)' PROVE ~Recorded("user", turns)'
    <3>1. q # r /\ Asks(q) /\ q \in Turning /\ request[q].kind # "resume"
      BY <1>7, <1>8, <2>2 DEF Asks
    <3>2. PICK u : u = turns
      OBVIOUS
    <3>3. request[r].kind = "resume" /\ ~Recorded("user", u)
      BY <1>5, <3>1, <3>2 DEF Alone, Once
    <3>4. ~Recorded("user", u)'
      BY <1>4, <3>3
    <3>5. QED
      BY <1>1, <3>2, <3>4 DEF Recorded
  <2>3. ASSUME NEW q \in Requests, Runs(q)' \/ Replies(q)', State(q)'.turn # 0
        PROVE  ~Recorded("assistant", State(q).turn)'
    <3>1. /\ q # r /\ (Runs(q) \/ Replies(q)) /\ q \in Turning /\ ~Shown(q)
          /\ State(q)' = State(q)
      BY <1>7, <1>8, <2>3 DEF Runs, Replies, Shown
    <3>2. PICK u : u = State(q).turn
      OBVIOUS
    <3>3. Paused(State(r)) /\ ~Recorded("assistant", u)
      BY <1>11, <2>3, <3>1, <3>2 DEF Once
    <3>4. ~Recorded("assistant", u)'
      BY <1>4, <3>3
    <3>5. QED
      BY <3>1, <3>2, <3>4 DEF Recorded
  <2>4. thread.turn # 0 /\ thread.node # "end" => ~Recorded("assistant", thread.turn)'
    <3>1. PICK u : u = thread.turn
      OBVIOUS
    <3>2. u # 0 /\ thread.node # "end" => ~Recorded("assistant", u)'
      BY <1>2, <1>4, <1>5, <3>1 DEF Once
    <3>3. QED
      BY <1>1, <3>1, <3>2 DEF Recorded
  <2>5. \A q \in Requests : Replies(q)' /\ State(q)'.turn # 0 /\ thread'.turn = State(q)'.turn =>
          thread'.node = "end"
    BY <1>1, <1>7, <1>8 DEF Once
  <2>6. QED
    BY <1>1, <2>1, <2>2, <2>3, <2>4, <2>5 DEF Once
<1>14. Complete'
  <2>1. ASSUME NEW u, HasQuestion(u) PROVE HasQuestion(u)'
    <3>1. CASE u \in {0} \cup cut \/ Recorded("user", u)
      BY <1>1, <1>4, <3>1 DEF HasQuestion
    <3>2. ASSUME NEW q \in Requests, Asks(q), request[q].turn = u
          PROVE  HasQuestion(u)'
      <4>1. CASE q = r
        BY <1>3, <1>5, <3>2, <4>1 DEF Asks, HasQuestion
      <4>2. CASE q # r
        BY <1>1, <1>7, <3>2, <4>2 DEF HasQuestion
      <4>3. QED
        BY <4>1, <4>2
    <3>3. QED
      BY <2>1, <3>1, <3>2 DEF HasQuestion
  <2>2. HasQuestion(thread.turn)'
    <3>1. PICK u : u = thread.turn
      OBVIOUS
    <3>2. HasQuestion(u)'
      BY <1>1, <2>1, <3>1 DEF Complete
    <3>3. QED
      BY <1>1, <3>1, <3>2 DEF HasQuestion, Recorded
  <2>3. ASSUME NEW q \in Requests, Runs(q)'
        PROVE  HasQuestion(State(q).turn)'
    <3>1. PICK u : u = State(q).turn
      OBVIOUS
    <3>2. HasQuestion(u)' /\ State(q)' = State(q)
      BY <1>1, <1>7, <1>8, <2>1, <2>3, <3>1 DEF Complete
    <3>3. QED
      BY <3>1, <3>2 DEF HasQuestion, Recorded
  <2>4. ASSUME thread.node = "end", thread.turn \notin {0} \cup cut
        PROVE  \/ Recorded("assistant", thread.turn)'
               \/ \E q \in Requests : Replies(q)' /\ State(q)'.turn = thread.turn
    <3>1. PICK u : u = thread.turn
      OBVIOUS
    <3>2. \/ Recorded("assistant", u)
          \/ \E q \in Requests : Replies(q) /\ State(q).turn = u
      BY <1>1, <2>4, <3>1 DEF Complete
    <3>3. \/ Recorded("assistant", u)'
          \/ \E q \in Requests : Replies(q)' /\ State(q)'.turn = u
      BY <1>2, <1>3, <1>4, <1>7, <3>2 DEF Replies
    <3>4. QED
      BY <1>1, <3>1, <3>3 DEF Recorded
  <2>5. QED
    BY <1>1, <2>2, <2>3, <2>4 DEF Complete
<1>15. QED
  BY <1>9, <1>10, <1>12, <1>13, <1>14

\* Steps of the graph.
LEMMA GraphKeepsTranscript ==
  ASSUME TypeOK, TranscriptInv, NEW r \in Requests, GraphStep(r)
  PROVE  TranscriptInv'
<1> DEFINE c == State(r)
<1> USE DEF progress, client, losses
<1>1. c \in Checkpoint
  BY RunType
<1>2. request[r].pc \in {"run", "advance", "note"} => Runs(r)
  BY DEF TranscriptInv, Fits, Runs, Turning, Deleting, TypeOK, RequestState, Kind
<1>3. ASSUME NEW d, d.turn = c.turn, d.prompt = NoPrompt, request[r].pc = "run",
             \/ d.node # "end" /\ Continue(r, d)
             \/ d.node = "end" /\ Finish(r, d),
             UNCHANGED <<exists, transcript, screen, turns, cut>>
      PROVE  TranscriptInv'
  <2>1. /\ thread' = d /\ request'[r].local = d
        /\ request'[r].kind = request[r].kind /\ request'[r].turn = request[r].turn
        /\ \A q \in Requests \ {r} : request'[q] = request[q]
        /\ request'[r].pc = IF d.node = "end" THEN Yield(r) ELSE "run"
    BY <1>3 DEF Continue, Finish, Checkpointed, TypeOK, RequestState
  <2>2. State(r)' = d
    BY <2>1 DEF State
  <2>3. QED
    BY <1>2, <1>3, <2>1, <2>2, TurnGoesOn DEF Paused
<1>4. ASSUME NEW p, p # NoPrompt, Pause(r, p), At(r, c.node),
             UNCHANGED <<exists, transcript, screen, turns, cut>>
      PROVE  TranscriptInv'
  <2> DEFINE d == [c EXCEPT !.prompt = p]
  <2>1. d.turn = c.turn /\ d.prompt = p /\ d.node = c.node
    BY <1>1 DEF Checkpoint
  <2>2. /\ thread' = d /\ request'[r].local = d
        /\ request'[r].kind = request[r].kind /\ request'[r].turn = request[r].turn
        /\ \A q \in Requests \ {r} : request'[q] = request[q]
        /\ request'[r].pc = Yield(r)
    BY <1>4 DEF Pause, Checkpointed, TypeOK, RequestState
  <2> HIDE DEF d
  <2>3. State(r)' = d /\ Runs(r)
    BY <1>2, <1>4, <2>2 DEF State, At
  <2>4. d.node # "end"
    BY <2>1, <2>3 DEF TranscriptInv, Fits, Runs
  <2>5. QED
    BY <1>4, <2>1, <2>2, <2>3, <2>4, TurnGoesOn DEF Paused
<1>5. ASSUME NEW n
      PROVE  /\ Goto(c, n).turn = c.turn /\ Goto(c, n).prompt = NoPrompt
             /\ Goto(c, n).node = n
  BY <1>1 DEF Goto, Checkpoint
<1>6. CASE GuardrailIn(r)
  <2>1. /\ [Goto(c, "end") EXCEPT !.text = "refused"].turn = c.turn
        /\ [Goto(c, "end") EXCEPT !.text = "refused"].prompt = NoPrompt
        /\ [Goto(c, "end") EXCEPT !.text = "refused"].node = "end"
    BY <1>1 DEF Goto, Checkpoint
  <2>2. QED
    BY <1>3, <1>5, <1>6, <2>1 DEF GuardrailIn, At
<1>7. CASE Generate(r)
  <2>1. ASSUME NEW b
        PROVE  /\ [Goto(c, "tools") EXCEPT !.batch = b, !.round = @ + 1].turn = c.turn
               /\ [Goto(c, "tools") EXCEPT !.batch = b, !.round = @ + 1].prompt = NoPrompt
               /\ [Goto(c, "tools") EXCEPT !.batch = b, !.round = @ + 1].node = "tools"
    BY <1>1 DEF Goto, Checkpoint
  <2>2. QED
    BY <1>3, <1>5, <1>7, <2>1 DEF Generate, At
<1>8. CASE GenerateRejected(r)
  <2>1. Runs(r) /\ request[r].pc = "run"
    BY <1>2, <1>8 DEF GenerateRejected, At
  <2>2. Asks(r) => request[r].turn = State(r).turn
    BY <2>1 DEF TranscriptInv, Numbered, Asks
  <2>3. ~Replies(r)
    BY <2>1 DEF Replies
  <2>4. QED
    BY <1>8, <2>2, <2>3, TurnEnds DEF GenerateRejected
<1>9. CASE RunTools(r)
  <2>1. CASE Pause(r, Gate(c, Len(c.given) + 1))
    BY <1>4, <1>9, <2>1 DEF RunTools, At, Gate, NoPrompt
  <2>2. ASSUME Continue(r, [Goto(c, "generate") EXCEPT !.active = c.batch.names,
                              !.unjudged = @ \/ c.batch.names])
        PROVE  TranscriptInv'
    <3> DEFINE d == [Goto(c, "generate") EXCEPT !.active = c.batch.names,
                                               !.unjudged = @ \/ c.batch.names]
    <3>1. d.turn = c.turn /\ d.prompt = NoPrompt /\ d.node = "generate" /\ Continue(r, d)
      BY <1>1, <2>2 DEF Goto, Checkpoint
    <3> HIDE DEF d
    <3>2. QED
      BY <1>3, <1>9, <3>1 DEF RunTools, At
  <2>3. QED
    BY <1>9, <2>1, <2>2 DEF RunTools
<1>10. CASE PersistAsks(r)
  BY <1>4, <1>10 DEF PersistAsks, At, NoPrompt
<1>11. CASE PersistSkips(r)
  BY <1>3, <1>5, <1>11 DEF PersistSkips, At
<1>12. CASE SaveSummary(r) \/ AdvancePage(r)
  <2>1. /\ request[r].pc \in {"run", "advance"} /\ request'[r].pc \in {"advance", "note"}
        /\ request'[r].local = request[r].local
        /\ request'[r].kind = request[r].kind /\ request'[r].turn = request[r].turn
        /\ \A q \in Requests \ {r} : request'[q] = request[q]
        /\ UNCHANGED <<thread, exists, transcript, screen, turns, cut>>
    BY <1>12 DEF SaveSummary, AdvancePage, At, TypeOK, RequestState
  <2>2. Runs(r) /\ State(r)' = State(r) /\ State(r).node # "end"
    BY <1>2, <2>1 DEF TranscriptInv, Fits, State, Runs
  <2>3. QED
    BY <2>1, <2>2, TurnGoesOn
<1>13. CASE NoteSaved(r)
  <2> DEFINE d == [Goto(c, "guardrail_out") EXCEPT !.ack = c.turn]
  <2>1. d.turn = c.turn /\ d.prompt = NoPrompt /\ d.node = "guardrail_out"
    BY <1>1 DEF Goto, Checkpoint
  <2>2. /\ thread' = d /\ request'[r].local = d /\ request'[r].pc = "run"
        /\ request'[r].kind = request[r].kind /\ request'[r].turn = request[r].turn
        /\ \A q \in Requests \ {r} : request'[q] = request[q]
        /\ UNCHANGED <<exists, transcript, screen, turns, cut>>
        /\ request[r].pc = "note"
    BY <1>13 DEF NoteSaved, TypeOK, RequestState
  <2> HIDE DEF d
  <2>3. State(r)' = d
    BY <2>2 DEF State
  <2>4. QED
    BY <1>2, <2>1, <2>2, <2>3, TurnGoesOn
<1>14. ASSUME NEW t
       PROVE  /\ Reply(c, t).prompt = NoPrompt /\ Judged(c, t).prompt = NoPrompt
              /\ Reply(c, t).turn = c.turn /\ Judged(c, t).turn = c.turn
              /\ Reply(c, t).node = "end" /\ Judged(c, t).node = "end"
  BY <1>1 DEF Reply, Judged, Goto, Checkpoint
<1>15. CASE PassUnjudged(r) \/ JudgedSafe(r)
  BY <1>3, <1>14, <1>15 DEF PassUnjudged, JudgedSafe, At
<1>16. CASE JudgedRisky(r)
  <2> DEFINE p == [turn |-> c.turn, round |-> c.round, at |-> "guardrail_out",
                   item |-> 0, range |-> NoRange]
  <2>1. p # NoPrompt /\ At(r, c.node) /\ request[r].pc = "run"
        /\ UNCHANGED <<exists, transcript, screen, turns, cut>>
    BY <1>16 DEF JudgedRisky, At, NoPrompt
  <2>2. Pause(r, p) \/ Finish(r, Judged(c, "shown")) \/ Finish(r, Judged(c, "withheld"))
    BY <1>16 DEF JudgedRisky
  <2> HIDE DEF p
  <2>3. QED
    BY <1>3, <1>4, <1>14, <2>1, <2>2
<1>17. QED
  BY <1>6, <1>7, <1>8, <1>9, <1>10, <1>11, <1>12, <1>13, <1>15, <1>16, TurnStarts
     DEF GraphStep

\* With a patient client the transcript and the agent's memory agree, whatever requests are
\* resumed, rejected, overtaken by a delete or cut off.
THEOREM TranscriptAlwaysMatches == Patient => (Spec => []TranscriptMatches)
<1> SUFFICES ASSUME Patient PROVE Spec => []TranscriptMatches
  OBVIOUS
<1>1. Init => TranscriptInv
  <2> SUFFICES ASSUME Init PROVE TranscriptInv
    OBVIOUS
  <2>1. /\ Turning = {} /\ Deleting = {} /\ turns = 0 /\ DOMAIN transcript = {}
        /\ thread.turn = 0 /\ thread.node = "end" /\ ~Paused(thread)
        /\ \A r \in Requests : State(r).turn = 0
    BY DEF Init, Idle, NoThread, Paused, State, Turning, Deleting
  <2>2. \A r \in Requests : ~Asks(r) /\ ~Runs(r) /\ ~Replies(r)
    BY <2>1 DEF Asks, Runs, Replies
  <2>3. QED
    BY <2>1, <2>2 DEF TranscriptInv, Fits, Alone, Numbered, Once, Complete, Recorded,
                      HasQuestion
<1>2. TypeOK /\ TranscriptInv /\ [Next]_vars => TranscriptInv'
  <2> SUFFICES ASSUME TypeOK, TranscriptInv, [Next]_vars PROVE TranscriptInv'
    OBVIOUS
  <2> USE DEF vars, progress, client, losses
  <2>1. ASSUME NEW r \in Requests, Send(r) PROVE TranscriptInv'
    BY <2>1, TurnBegins DEF Send
  <2>2. NoThread.turn = 0 /\ ~Paused(NoThread)
    BY DEF NoThread, Paused
  <2>3. ASSUME NEW r \in Requests, Resume(r) PROVE TranscriptInv'
    <3>1. PICK d \in Answers(screen) : request' = [request EXCEPT ![r] =
                 [Idle EXCEPT !.pc = "check", !.kind = "resume", !.decision = d]]
      BY <2>3 DEF Resume
    <3> DEFINE e == [Idle EXCEPT !.pc = "check", !.kind = "resume", !.decision = d]
    <3>2. d \in Decision
      BY LimitAssumption DEF Answers, Decision, NoRange, Ranges, Pages
    <3>3. e \in RequestState
      BY <3>2, Defaults DEF RequestState, Kind
    <3>4. e.pc = "check" /\ e.kind = "resume" /\ e.local = NoThread
      BY DEF Idle
    <3>5. \A q \in Turning : request[q].kind = "stream" /\ Shown(q)
      BY <2>3 DEF Resume, TranscriptInv, Alone
    <3>6. /\ request[r].pc = "idle"
          /\ UNCHANGED <<thread, exists, transcript, screen, turns, cut>>
      BY <2>3 DEF Resume
    <3> HIDE DEF e
    <3>7. request' = [request EXCEPT ![r] = e]
      BY <3>1 DEF e
    <3>8. QED
      BY <2>2, <3>3, <3>4, <3>5, <3>6, <3>7, TurnWaits
  <2>4. ASSUME NEW r \in Requests, Delete(r) PROVE TranscriptInv'
    <3> DEFINE e == [Idle EXCEPT !.pc = "row", !.kind = "delete"]
    <3>1. e \in RequestState
      BY Defaults DEF RequestState, Kind
    <3>2. e.pc = "row" /\ e.kind = "delete" /\ e.local = NoThread
      BY DEF Idle
    <3>3. /\ request[r].pc = "idle" /\ request' = [request EXCEPT ![r] = e]
          /\ thread' = NoThread /\ UNCHANGED <<exists, transcript, screen, turns, cut>>
      BY <2>4 DEF Delete
    <3> HIDE DEF e
    <3>4. QED
      BY <2>2, <3>1, <3>2, <3>3, TurnWaits
  <2>5. ASSUME NEW r \in Requests, CheckPaused(r) PROVE TranscriptInv'
    <3>1. r \in Turning /\ request[r].kind = "resume" /\ request[r].pc = "check"
      BY <2>5 DEF CheckPaused, TranscriptInv, Fits, Turning, Deleting, TypeOK,
                  RequestState, Kind
    <3>2. CASE Paused(thread)
      <4> DEFINE e == [request[r] EXCEPT !.pc = "load"]
      <4>1. /\ e \in RequestState /\ e.pc = "load" /\ e.kind = "resume"
            /\ e.local = request[r].local /\ request' = [request EXCEPT ![r] = e]
        BY <2>5, <3>1, <3>2 DEF CheckPaused, TypeOK, RequestState
      <4> HIDE DEF e
      <4>2. QED
        BY <2>5, <3>1, <3>2, <4>1, TurnWaits DEF CheckPaused
    <3>3. CASE ~Paused(thread)
      BY <2>5, <3>1, <3>3, TurnEnds DEF CheckPaused, Asks, Replies
    <3>4. QED
      BY <3>2, <3>3
  <2>6. ASSUME NEW r \in Requests, RecordRejected(r) PROVE TranscriptInv'
    BY <2>6, TurnEnds DEF RecordRejected
  <2>7. ASSUME NEW r \in Requests, Respond(r) PROVE TranscriptInv'
    <3>1. request[r].pc = "respond" /\ r \in Turning /\ ~Shown(r) /\ ~Asks(r) /\ ~Replies(r)
      BY <2>7 DEF Respond, TranscriptInv, Fits, Turning, Deleting, TypeOK,
                  RequestState, Kind, Shown, Asks, Replies
    <3>2. QED
      BY <2>7, <3>1, TurnEnds DEF Respond
  <2>8. ASSUME NEW r \in Requests, RequestDies(r) PROVE TranscriptInv'
    <3>1. Asks(r) => request[r].turn \in cut'
      <4>1. Asks(r) => request[r].pc \notin {"respond", "row", "check", "load"}
        BY DEF Asks, TranscriptInv, Fits
      <4>2. Asks(r) /\ request[r].pc # "input" => State(r).turn = request[r].turn
        BY DEF Asks, TranscriptInv, Numbered
      <4>3. QED
        BY <2>8, <4>1, <4>2 DEF RequestDies, State
    <3>2. Replies(r) => State(r).turn \in cut'
      BY <2>8 DEF RequestDies, Replies, State
    <3>3. QED
      BY <2>8, <3>1, <3>2, TurnEnds DEF RequestDies
  <2>9. CASE MovePage \/ UNCHANGED vars
    <3>1. UNCHANGED <<thread, request, exists, transcript, screen, turns, cut>>
      BY <2>9 DEF MovePage
    <3>2. QED
      BY <3>1 DEF TranscriptInv, Fits, Alone, Numbered, Once, Complete, HasQuestion,
                  Recorded, Asks, Runs, Replies, Shown, Turning, Deleting, State, Paused
  <2>10. QED
    BY <2>1, <2>3, <2>4, <2>5, <2>6, <2>7, <2>8, <2>9, TurnLoaded, PromptShown,
       TurnRecorded, RowDropped, GraphKeepsTranscript DEF Next, HandlerStep
<1>3. TranscriptInv => TranscriptMatches
  <2> SUFFICES ASSUME TranscriptInv PROVE TranscriptMatches
    OBVIOUS
  <2>1. ASSUME ~Busy, NEW r \in Requests PROVE ~Asks(r) /\ ~Replies(r)
    BY <2>1 DEF Busy, Asks, Replies, Turning
  <2>2. QED
    BY <2>1 DEF TranscriptMatches, TranscriptInv, Once, Complete, HasQuestion
<1>4. QED
  BY <1>1, <1>2, <1>3, ChatTypeCorrect, PTL DEF Spec
=============================================================================
