------------------------------- MODULE History -------------------------------
(***************************************************************************)
(* What a conversation remembers: the checkpointed messages of its turns,  *)
(* the slice of them the cheap judges see, and their compaction.  A turn   *)
(* runs the nodes of the graph one after the other and may break off, or   *)
(* be left waiting for ever, in front of any of them.                      *)
(*                                                                         *)
(* A message has a role, the turn it is of, its words and its tool calls,  *)
(* a call being the document it names.  A "note" is a system message the   *)
(* graph injects, recognised by its first words; a "seed" is the summary   *)
(* a compaction leaves, with what was said before it (covers).             *)
(***************************************************************************)
EXTENDS AgentTools, FiniteSetsExt

CONSTANTS
  Secret, Redacted,   \* a word the redactor knows, and what it leaves of it
  Label,              \* the words in front of an attachment's text
  Typed, Attached,    \* inputs: typed texts, and texts made of attachments
  Proposals,          \* inputs: batches of tool calls
  HistoryTurns,       \* reader turns shown to a judge
  Overhead, Budget,   \* tokens of a message beside its words; the threshold
  MaxTurns, MaxRounds \* bounds: messages of the reader, batches in a turn

\* The calls a batch is made of.
Callable == UNION {ToSet(calls) : calls \in Proposals}

\* Texts are sequences of words, a word a number; what the redactor and the graph
\* write themselves holds nothing to redact.
ASSUME TalkAssumption ==
  /\ Typed \subseteq Seq(Nat) /\ Attached \subseteq Seq(Seq(Nat))
  /\ {Secret, Redacted, Label} \subseteq Nat /\ Secret \notin {Redacted, Label}
  /\ Proposals \subseteq Seq(Callable)
  /\ HistoryTurns \in Nat \ {0}

VARIABLE talk

NewTalk == [node |-> "none", turn |-> 0, rounds |-> 0, messages |-> <<>>, media |-> <<>>,
            active |-> Unset, screened |-> {}, finished |-> {}]

Message(role, text, calls) ==
  [role |-> role, turn |-> talk.turn, text |-> text, calls |-> calls, covers |-> {}]

Add(message, node) ==
  talk' = [talk EXCEPT !.messages = Append(@, message), !.node = node]

-----------------------------------------------------------------------------
(* Helpers of the graph.                                                   *)

CombineInputText(typed, parts) ==
  typed \o FlattenSeq([i \in DOMAIN parts |-> <<Label>> \o parts[i]])

ScreenInput(text) == [i \in DOMAIN text |-> IF text[i] = Secret THEN Redacted ELSE text[i]]

\* Injected notes count as prose.
GuardrailHistoryLineOrNote(m) == m.text # <<>> /\ m.role # "tool"

GuardrailHistoryLine(m) == m.text # <<>> /\ m.role \in {"human", "ai", "seed"}

WithoutLast(lines, role) ==
  IF lines # <<>> /\ Last(lines).role = role THEN Front(lines) ELSE lines

RecentChatContext(messages) ==
  LET lines == WithoutLast(WithoutLast(Filter(messages, GuardrailHistoryLine), "ai"), "human")
      readers == {i \in DOMAIN lines : lines[i].role = "human"}
  IN  IF Cardinality(readers) < HistoryTurns THEN lines
      ELSE SubSeq(lines,
                  CHOOSE i \in readers : Cardinality({j \in readers : j >= i}) = HistoryTurns,
                  Len(lines))

DocumentIdFromToolCalls(calls) ==
  LET named == Filter(calls, LAMBDA c : c # Unset /\ ParseDocumentId(c) # None)
  IN  IF named = <<>> THEN Unset ELSE ParseDocumentId(named[1])

CountTokens(messages) ==
  FoldLeft(LAMBDA n, m : n + Len(m.text) + Overhead, 0, messages)

\* Every call is followed by its results, or the provider rejects the history.
Answered(messages) ==
  \A i \in DOMAIN messages : \A k \in DOMAIN messages[i].calls :
    i + k \in DOMAIN messages /\ messages[i + k].role = "tool"

-----------------------------------------------------------------------------
(* The nodes of the graph.                                                 *)

\* The message as the reader sent it is checkpointed before the first node runs.
Say ==
  /\ talk.node \in {"none", "end", "broken"}
  /\ talk.turn < MaxTurns
  /\ \E typed \in Typed, parts \in Attached :
       /\ typed # <<>> \/ parts # <<>>
       /\ talk' = [talk EXCEPT !.turn = @ + 1, !.rounds = 0, !.node = "normalize_input",
                     !.media = parts,
                     !.messages = Append(@, [Message("human", typed, <<>>)
                                               EXCEPT !.turn = talk.turn + 1])]

\* The attachments are folded in and the message is redacted in place; the
\* active document is reset.
NormalizeInput ==
  /\ talk.node = "normalize_input"
  /\ talk' = [talk EXCEPT !.node = "guardrail_in", !.active = Unset, !.media = <<>>,
                !.screened = @ \cup {talk.turn},
                !.messages[Len(talk.messages)].text = ScreenInput(CombineInputText(@, talk.media))]

\* Blocked turns end here.
GuardrailIn ==
  /\ talk.node = "guardrail_in"
  /\ \E node \in {"load_progress", "end"} : talk' = [talk EXCEPT !.node = node]

LoadProgress ==
  /\ talk.node = "load_progress"
  /\ Add(Message("note", <<Label>>, <<>>), "load_memories")

LoadMemories ==
  /\ talk.node = "load_memories"
  /\ Add(Message("note", <<Label>>, <<>>), "plan")

Plan ==
  /\ talk.node = "plan"
  /\ talk' = [talk EXCEPT !.node = "extract_memory"]

\* The judge found nothing to save, saving failed, or it is told to the model.
ExtractMemory ==
  /\ talk.node = "extract_memory"
  /\ \/ talk' = [talk EXCEPT !.node = "generate"]
     \/ Add(Message("note", <<Label>>, <<>>), "generate")

\* A batch of calls, with or without prose, or the answer.
Generate ==
  /\ talk.node = "generate"
  /\ Answered(talk.messages)
  /\ \/ /\ talk.rounds < MaxRounds
        /\ \E calls \in Proposals, text \in {<<>>, <<Label>>} :
             Add(Message("ai", text, calls), "tools")
     \/ Add(Message("ai", <<Label>>, <<>>), "guardrail_out")

\* The provider rejects the history and the turn fails.
GenerateRejected ==
  /\ talk.node = "generate"
  /\ ~Answered(talk.messages)
  /\ talk' = [talk EXCEPT !.node = "broken"]

RunTools ==
  /\ talk.node = "tools"
  /\ LET calls == Last(talk.messages).calls
     IN  talk' = [talk EXCEPT
           !.messages = @ \o [i \in DOMAIN calls |-> Message("tool", <<Label>>, <<>>)],
           !.active = DocumentIdFromToolCalls(calls),
           !.rounds = @ + 1,
           !.node = "generate"]

\* Saving a summary and screening the answer leave the messages alone.
GuardrailOut ==
  /\ talk.node = "guardrail_out"
  /\ talk' = [talk EXCEPT !.node = "compact", !.finished = @ \cup {talk.turn}]

Said(messages) ==
  UNION {{<<messages[i].role, messages[i].turn>>} \cup messages[i].covers :
           i \in {i \in DOMAIN messages : messages[i].text # <<>> \/ messages[i].calls # <<>>}}

Seed(covers) ==
  <<[Message("seed", <<Label>>, <<>>) EXCEPT !.covers = covers]>>

\* The summary is of the prose only, without the one it replaces.
CompactedProse(messages) ==
  Seed({<<messages[i].role, messages[i].turn>> : i \in DOMAIN messages})

\* The whole history gives way to its summary.
Compacted(messages) == Seed(Said(messages))

Compact ==
  /\ talk.node = "compact"
  /\ talk' = [talk EXCEPT !.node = "end",
                !.messages = IF CountTokens(@) < Budget THEN @ ELSE Compacted(@)]

\* A node fails, its process dies, or the reader leaves its prompt unanswered.
BreakOff ==
  /\ talk.node \notin {"none", "end", "broken"}
  /\ talk' = [talk EXCEPT !.node = "broken"]

TalkStep ==
  \/ Say \/ NormalizeInput \/ GuardrailIn \/ LoadProgress \/ LoadMemories \/ Plan \/ ExtractMemory
  \/ Generate \/ GenerateRejected \/ RunTools \/ GuardrailOut \/ Compact \/ BreakOff

-----------------------------------------------------------------------------
\* The guardrail, the planner and the memory classifier see the talk before the
\* reader's message and nothing else: no tool result, no injected note, nothing
\* of this turn; all of it, or the last turns of the reader with every line
\* after the first of them.  The document a turn acts on is one its own calls
\* named (graph.py:377-444, 679-704).
JudgesSeeTheTalk ==
  LET seen == RecentChatContext(talk.messages)
      before == Filter(talk.messages, LAMBDA m :
                  /\ m.turn < talk.turn /\ m.text # <<>> /\ m.role \notin {"tool", "note"})
      turns == {i \in DOMAIN seen : seen[i].role = "human"}
  IN  /\ talk.node \in {"guardrail_in", "plan", "extract_memory"} =>
           /\ IsSuffix(seen, before)
           /\ \/ seen = before
              \/ seen[1].role = "human" /\ Cardinality(turns) = HistoryTurns
      /\ talk.node \in {"generate", "guardrail_out"} /\ talk.active # Unset =>
           \E i \in DOMAIN talk.messages :
             /\ talk.messages[i].turn = talk.turn
             /\ DocumentIdFromToolCalls(talk.messages[i].calls) = talk.active

\* Compaction forgets nothing that was said: every message of the reader that
\* was screened and every finished answer is in the history or in what its
\* summary was made of, wherever turns broke off; a turn that ran to its end
\* leaves a history below the budget or its summary alone; and of a message that
\* was screened no word the redactor knows is kept, typed or attached
\* (graph.py:672-704, 1069-1090; compaction_service.py:75-147).
TalkIsKept ==
  LET kept == talk.messages
  IN  /\ \A turn \in talk.screened : <<"human", turn>> \in Said(kept)
      /\ \A turn \in talk.finished : <<"ai", turn>> \in Said(kept)
      /\ talk.node = "end" /\ talk.turn \in talk.finished =>
           CountTokens(kept) < Budget \/ Len(kept) = 1
      /\ \A i \in DOMAIN kept : kept[i].turn \in talk.screened => Secret \notin ToSet(kept[i].text)
=============================================================================
