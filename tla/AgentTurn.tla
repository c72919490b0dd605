----------------------------- MODULE AgentTurn -----------------------------
(***************************************************************************)
(* The agent graph of one conversation: the checkpoint LangGraph keeps of  *)
(* its thread, the nodes that advance it, and the reading position and     *)
(* summaries the nodes use.                                                *)
(*                                                                         *)
(* Abstractions.                                                           *)
(*   - One reader, one conversation, one document with a progress row.     *)
(*   - A model response with tool calls is a batch: how many of its calls  *)
(*     need approval, and whether one of them names the document.          *)
(*   - The judges and the model answer anything: their verdicts and        *)
(*     batches are nondeterministic.                                       *)
(*   - Nodes between guardrail_in and generate only add context or save    *)
(*     personal notes; compact only rewrites history.  Neither touches     *)
(*     what is modelled here.                                              *)
(*   - A node is one step and its checkpoint is written with it (the graph *)
(*     runs with durability "sync"), except persist_memory, whose two      *)
(*     commits and checkpoint are three.                                   *)
(***************************************************************************)
EXTENDS Naturals, Sequences, FiniteSets

CONSTANTS
  Requests,     \* API request handlers in flight
  Batches,      \* tool-call batches the answer model may ask for
  SpoilerSafe,  \* resolve_spoiler_safe of the document
  Patient,      \* the client awaits each answer before the next message
  LastPage,     \* bound: pages of the document
  MaxRounds,    \* bound: tool rounds of a turn
  MaxTurns,     \* bound: messages the reader sends
  MaxFaults     \* bound: requests that die

ASSUME BatchAssumption == Batches \subseteq [gated : Nat, names : BOOLEAN]
ASSUME ChoiceAssumption == SpoilerSafe \in BOOLEAN /\ Patient \in BOOLEAN
ASSUME LimitAssumption ==
  /\ LastPage \in Nat /\ MaxRounds \in Nat
  /\ MaxTurns \in Nat /\ MaxFaults \in Nat

VARIABLES
  thread,      \* the latest checkpoint of the conversation's thread
  request,     \* each request's progress, with its own copy of the state
  exists,      \* the conversations row is there
  transcript,  \* the messages rows, oldest first
  screen,      \* the prompt the reader's client displays
  turns,       \* messages sent so far
  page,        \* reading_progress.current_page
  mark,        \* reading_progress.last_summarized_page
  summaries,   \* summary memories saved, oldest first, with the range shown
  consented,   \* history: prompts the reader did not refuse when shown
  unasked,     \* history: prompts acted on without consent
  cut,         \* history: turns a request of which ended before its answer
  missed,      \* history: a resume ended before its answer
  torn,        \* history: persist_memory died between its commits
  crossed,     \* history: a delete and a turn were in flight together
  faults       \* history: requests that died

progress == <<page, mark, summaries>>
client   == <<exists, transcript, screen, turns, consented>>
losses   == <<cut, missed, torn, crossed, faults>>
vars     == <<thread, request, progress, client, unasked, losses>>

-----------------------------------------------------------------------------
Pages   == 0..LastPage
Ranges  == Pages \X Pages
NoRange == <<0, 0>>
Turns   == 0..MaxTurns
Rounds  == 0..MaxRounds

\* interrupt(): what a paused turn asks.  One kind per place that asks.
Prompt ==
  [turn : Turns, round : Rounds,
   at : {"nothing", "tools", "persist_memory", "guardrail_out"},
   item : Nat, range : Ranges]
NoPrompt ==
  [turn |-> 0, round |-> 0, at |-> "nothing", item |-> 0, range |-> NoRange]
Decision == [act : {"approve", "deny", "edit"}, range : Ranges]

\* AgentState with the position in the graph and what is pending there.
Node == {"guardrail_in", "generate", "tools", "persist_memory",
         "guardrail_out", "end"}
Checkpoint ==
  [turn   : Turns,                \* the turn its last human message belongs to
   round  : Rounds,               \* tool rounds of this turn
   node   : Node,                 \* the next node
   batch  : Batches \cup {[gated |-> 0, names |-> FALSE]},
   prompt : Prompt,               \* the pending interrupt
   given  : Seq(Decision),        \* resume values of the interrupted node
   sound  : BOOLEAN,              \* earlier turns left no call unanswered
   active : BOOLEAN,              \* active_document_id is set
   unjudged : BOOLEAN,            \* a call of this turn named it, and the
                                  \* spoiler judge has not seen the answer
   ack    : Turns,                \* the turn summary_save_ack is from; 0: none
   text   : {"none", "refused", "shown", "withheld"}]
NoBatch  == [gated |-> 0, names |-> FALSE]
NoThread ==
  [turn |-> 0, round |-> 0, node |-> "end", batch |-> NoBatch,
   prompt |-> NoPrompt, given |-> <<>>, sound |-> TRUE, active |-> FALSE,
   unjudged |-> FALSE, ack |-> 0, text |-> "none"]

Kind == {"chat", "stream", "resume", "delete"}
RequestState ==
  [pc       : {"idle", "input", "check", "load", "run", "advance", "note",
               "frame", "record", "respond", "row"},
   kind     : Kind,
   turn     : Turns,              \* the turn of the message it carries
   decision : Decision,           \* the resume payload
   local    : Checkpoint,         \* the state its graph run works on
   range    : Ranges,             \* pages it is saving
   seen     : Pages]              \* last_summarized_page as persist_memory read it
NoDecision == [act |-> "deny", range |-> NoRange]
Idle ==
  [pc |-> "idle", kind |-> "chat", turn |-> 0, decision |-> NoDecision,
   local |-> NoThread, range |-> NoRange, seen |-> 0]

\* What prompts P asked about is carried out.
Act(P) == unasked' = unasked \cup (P \ consented)

Paused(c) == c.prompt # NoPrompt
State(r)  == request[r].local

At(r, node) == request[r].pc = "run" /\ State(r).node = node
\* The request stops running the graph: a stream first relays the last frame.
Yield(r) == IF request[r].kind = "stream" THEN "frame" ELSE "record"

\* The node of r ends in state c, which becomes the checkpoint.
Checkpointed(r, c, pc) ==
  /\ thread'  = c
  /\ request' = [request EXCEPT ![r].local = c, ![r].pc = pc]

Goto(c, node) ==
  [c EXCEPT !.node = node, !.prompt = NoPrompt, !.given = <<>>]
Continue(r, c) == Checkpointed(r, c, "run")
Finish(r, c)   == Checkpointed(r, c, Yield(r))
Pause(r, p)    == Checkpointed(r, [State(r) EXCEPT !.prompt = p], Yield(r))

-----------------------------------------------------------------------------
(* The nodes *)

\* A new message on the thread, and normalize_input.  Whatever the last turn
\* was waiting for is dropped; what its checkpoint holds besides is kept.
NewTurn(c, t) ==
  [Goto(c, "guardrail_in") EXCEPT
     !.turn = t, !.round = 0, !.batch = NoBatch,
     !.sound = c.sound /\ c.node # "tools",
     !.active = FALSE, !.unjudged = FALSE, !.text = "none"]

\* graph.ainvoke / astream with a new message.
Input(r) ==
  /\ request[r].pc = "input"
  /\ Continue(r, NewTurn(thread, request[r].turn))
  /\ UNCHANGED <<progress, client, unasked, losses>>

GuardrailIn(r) ==
  /\ At(r, "guardrail_in")
  /\ \/ Continue(r, Goto(State(r), "generate"))
     \/ Finish(r, [Goto(State(r), "end") EXCEPT !.text = "refused"])
  /\ UNCHANGED <<progress, client, unasked, losses>>

\* The answer model asks for tools or drafts the answer.
Generate(r) ==
  /\ At(r, "generate")
  /\ State(r).sound
  /\ \/ /\ State(r).round < MaxRounds
        /\ \E b \in Batches :
             Continue(r, [Goto(State(r), "tools") EXCEPT
                            !.batch = b, !.round = @ + 1])
     \/ Continue(r, Goto(State(r), "persist_memory"))
  /\ UNCHANGED <<progress, client, unasked, losses>>

\* Providers reject a history with a tool call nobody answered.
GenerateRejected(r) ==
  /\ At(r, "generate")
  /\ ~State(r).sound
  /\ request' = [request EXCEPT ![r] = Idle]
  /\ cut'     = cut \cup {State(r).turn}
  /\ UNCHANGED <<thread, progress, client, unasked, missed, torn, crossed, faults>>

\* The approval asked for the i-th gated call of the current batch.
Gate(c, i) ==
  [turn |-> c.turn, round |-> c.round, at |-> "tools", item |-> i,
   range |-> NoRange]
Answered(c) ==
  IF Len(c.given) < c.batch.gated THEN Len(c.given) ELSE c.batch.gated
\* Variant with a bug: a refusal is taken for an answer like any other.
PermittedAll(c) == 1..Answered(c)
\* Resume values meet the interrupts of the node in order; only "deny" skips.
Permitted(c) == {i \in 1..Answered(c) : c.given[i].act # "deny"}

\* run_tools.  All calls of the batch start, those already approved included;
\* the first one without a decision pauses the node.
RunTools(r) ==
  LET c == State(r) IN
  /\ At(r, "tools")
  /\ Act({Gate(c, i) : i \in Permitted(c)})
  /\ \/ /\ Len(c.given) < c.batch.gated
        /\ Pause(r, Gate(c, Len(c.given) + 1))
     \/ /\ Len(c.given) >= c.batch.gated
        /\ Continue(r, [Goto(c, "generate") EXCEPT
             !.active = c.batch.names, !.unjudged = @ \/ c.batch.names])
  /\ UNCHANGED <<progress, client, losses>>

\* persist_memory asks, or does nothing, or is told not to save.
Proposed == <<mark + 1, page>>
PersistAsks(r) ==
  LET c == State(r) IN
  /\ At(r, "persist_memory")
  /\ c.active /\ page > mark /\ c.given = <<>>
  /\ Pause(r, [turn |-> c.turn, round |-> c.round, at |-> "persist_memory",
               item |-> 0, range |-> Proposed])
  /\ UNCHANGED <<progress, client, unasked, losses>>
\* Variant with a bug: a refused summary is confirmed.
PersistSkipsNoted(r) ==
  LET c == State(r) IN
  /\ At(r, "persist_memory")
  /\ ~c.active \/ page <= mark \/ c.given # <<>>
  /\ Continue(r, [Goto(c, "guardrail_out") EXCEPT
                   !.ack = IF c.given = <<>> THEN @ ELSE c.turn])
  /\ UNCHANGED <<progress, client, unasked, losses>>
PersistSkips(r) ==
  LET c == State(r) IN
  /\ At(r, "persist_memory")
  /\ \/ ~c.active
     \/ page <= mark
     \/ c.given # <<>>                   \* denied, or the range has no text
  /\ Continue(r, Goto(c, "guardrail_out"))
  /\ UNCHANGED <<progress, client, unasked, losses>>
\* The commit of write_summary.  A decision without a range stands for the
\* proposal as it is computed now.
SaveSummary(r) ==
  LET c     == State(r)
      range == IF Head(c.given).range = NoRange
               THEN Proposed ELSE Head(c.given).range
  IN
  /\ At(r, "persist_memory")
  /\ c.active /\ page > mark /\ c.given # <<>>
  /\ Head(c.given).act # "deny"
  /\ summaries' = Append(summaries, [turn |-> c.turn, range |-> range,
                                     shown |-> c.prompt.range])
  /\ request'   = [request EXCEPT ![r].pc = "advance", ![r].range = range,
                                  ![r].seen = mark]
  /\ Act({c.prompt})
  /\ UNCHANGED <<thread, page, mark, client, losses>>
\* Variant with a bug: the mark keeps the value it had when the node began.
AdvanceNothing(r) ==
  /\ request[r].pc = "advance"
  /\ mark'    = request[r].seen
  /\ request' = [request EXCEPT ![r].pc = "note"]
  /\ UNCHANGED <<thread, page, summaries, client, unasked, losses>>
\* The commit of advance_summarized_page.  The session still holds the row
\* persist_memory read, so the maximum is taken with that value.
AdvancePage(r) ==
  /\ request[r].pc = "advance"
  /\ mark'    = IF request[r].seen > request[r].range[2]
                THEN request[r].seen ELSE request[r].range[2]
  /\ request' = [request EXCEPT ![r].pc = "note"]
  /\ UNCHANGED <<thread, page, summaries, client, unasked, losses>>
NoteSaved(r) ==
  /\ request[r].pc = "note"
  /\ LET c == [Goto(State(r), "guardrail_out") EXCEPT !.ack = State(r).turn] IN
       /\ thread'  = c
       /\ request' = [request EXCEPT ![r].local = c, ![r].pc = "run",
                                     ![r].range = NoRange, ![r].seen = 0]
  /\ UNCHANGED <<progress, client, unasked, losses>>

\* guardrail_out.  The judge looks again each time the node runs.
Reply(c, text) == [Goto(c, "end") EXCEPT !.text = text]
Judged(c, text) == [Reply(c, text) EXCEPT !.unjudged = FALSE]
PassUnjudged(r) ==
  /\ At(r, "guardrail_out")
  /\ ~State(r).active \/ ~SpoilerSafe
  /\ Finish(r, Reply(State(r), "shown"))
  /\ UNCHANGED <<progress, client, unasked, losses>>
JudgedSafe(r) ==
  /\ At(r, "guardrail_out")
  /\ State(r).active /\ SpoilerSafe
  /\ Finish(r, Judged(State(r), "shown"))
  /\ UNCHANGED <<progress, client, unasked, losses>>
JudgedRisky(r) ==
  LET c == State(r) IN
  /\ At(r, "guardrail_out")
  /\ c.active /\ SpoilerSafe
  /\ \/ /\ c.given = <<>>
        /\ Pause(r, [turn |-> c.turn, round |-> c.round, at |-> "guardrail_out",
                     item |-> 0, range |-> NoRange])
        /\ UNCHANGED unasked
     \/ /\ c.given # <<>> /\ Head(c.given).act = "approve"
        /\ Finish(r, Judged(c, "shown"))
        /\ Act({c.prompt})
     \/ /\ c.given # <<>> /\ Head(c.given).act # "approve"
        /\ Finish(r, Judged(c, "withheld"))
        /\ UNCHANGED unasked
  /\ UNCHANGED <<progress, client, losses>>

GraphStep(r) ==
  \/ Input(r) \/ GuardrailIn(r) \/ Generate(r) \/ GenerateRejected(r)
  \/ RunTools(r)
  \/ PersistAsks(r) \/ PersistSkips(r) \/ SaveSummary(r) \/ AdvancePage(r)
  \/ NoteSaved(r)
  \/ PassUnjudged(r) \/ JudgedSafe(r) \/ JudgedRisky(r)
=============================================================================
