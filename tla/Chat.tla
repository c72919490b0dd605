-------------------------------- MODULE Chat --------------------------------
(***************************************************************************)
(* The chat endpoints around the agent graph: a message, streamed or not,  *)
(* the resume of a paused turn, the deletion of the conversation, and the  *)
(* reader whose client shows prompts and answers them.                     *)
(***************************************************************************)
EXTENDS AgentTurn

Init ==
  /\ thread     = NoThread
  /\ request    = [r \in Requests |-> Idle]
  /\ exists     = TRUE
  /\ transcript = <<>>
  /\ screen     = NoPrompt
  /\ turns      = 0
  /\ page       = 0
  /\ mark       = 0
  /\ summaries  = <<>>
  /\ consented  = {}
  /\ unasked    = {}
  /\ cut        = {}
  /\ missed     = FALSE
  /\ torn       = FALSE
  /\ crossed    = FALSE
  /\ faults     = 0

Busy     == \E r \in Requests : request[r].pc # "idle"
Turning  == {r \in Requests : request[r].pc # "idle" /\ request[r].kind # "delete"}
Deleting == {r \in Requests : request[r].pc # "idle" /\ request[r].kind = "delete"}

-----------------------------------------------------------------------------
(* The reader and their client *)

\* A new message, while nothing else is under way.  The client that shows a
\* prompt takes none, so the reader reopens the conversation first, which
\* forgets the prompt.
Send(r) ==
  /\ request[r].pc = "idle" /\ exists
  /\ Patient => Turning = {}
  /\ turns < MaxTurns
  /\ turns'  = turns + 1
  /\ screen' = NoPrompt
  /\ \E k \in {"chat", "stream"} :
       request' = [request EXCEPT ![r] =
         [Idle EXCEPT !.pc = "input", !.kind = k, !.turn = turns + 1]]
  /\ crossed' = (crossed \/ Deleting # {})
  /\ UNCHANGED <<thread, progress, exists, transcript, consented, unasked,
                 cut, missed, torn, faults>>

\* What can be answered to prompt p: a plain word or, for a summary, any range;
\* neither the client nor the API holds it to the one shown.  A tool call
\* approved with edited arguments runs like any other.
Answers(p) ==
  [act : {"approve", "deny"}, range : {NoRange}] \cup
  [act : {"edit"},
   range : {s \in Ranges : p.at = "persist_memory" /\ 1 <= s[1] /\ s[1] <= s[2]}]

\* The reader answers the prompt on the screen.  It stays there until the
\* response arrives, so it may be answered again if that is lost.
\* The client accepts the answer while the stream that brought the prompt is
\* still open.
Resume(r) ==
  /\ request[r].pc = "idle" /\ exists
  /\ Patient => \A q \in Turning :
                   request[q].kind = "stream" /\ request[q].pc = "record"
  /\ screen # NoPrompt
  /\ \E d \in Answers(screen) :
       /\ request'   = [request EXCEPT ![r] =
            [Idle EXCEPT !.pc = "check", !.kind = "resume", !.decision = d]]
       /\ consented' = IF d.act = "deny" THEN consented ELSE consented \cup {screen}
  /\ crossed' = (crossed \/ Deleting # {})
  /\ UNCHANGED <<thread, progress, exists, transcript, screen, turns, unasked,
                 cut, missed, torn, faults>>

\* PUT progress: the reader is on any page, also an earlier one.
MovePage ==
  /\ page' \in Pages \ {page}
  /\ UNCHANGED <<thread, request, mark, summaries, client, unasked, losses>>

-----------------------------------------------------------------------------
(* The handlers *)

\* AgentService.resume reads the checkpoint twice: to see that it is paused ...
CheckPaused(r) ==
  /\ request[r].pc = "check"
  /\ request' = [request EXCEPT ![r] =
       IF Paused(thread) THEN [@ EXCEPT !.pc = "load"] ELSE Idle]
  /\ UNCHANGED <<thread, progress, client, unasked, losses>>
\* ... and to continue it, whatever it has become in between.
LoadThread(r) ==
  /\ request[r].pc = "load"
  /\ request' = [request EXCEPT
       ![r].pc    = IF thread.node = "end" THEN "record" ELSE "run",
       ![r].local = IF Paused(thread)
                    THEN [thread EXCEPT !.given = Append(@, request[r].decision)]
                    ELSE thread,
       ![r].decision = NoDecision]
  /\ UNCHANGED <<thread, progress, client, unasked, losses>>

\* A stream's last frame, an interrupt or the answer, goes out first.
LastFrame(r) ==
  /\ request[r].pc = "frame"
  /\ screen'  = State(r).prompt
  /\ request' = [request EXCEPT ![r].pc = "record"]
  /\ UNCHANGED <<thread, progress, exists, transcript, turns, consented, unasked, losses>>

Message(role, c) ==
  [role |-> role, turn |-> c.turn,
   ack |-> IF role = "assistant" /\ c.text # "refused" THEN c.ack ELSE 0]
\* Variant with a bug: every request records its question.
LinesAgain(r) ==
  LET c == State(r) IN
  <<Message("user", c)>> \o
  (IF Paused(c) THEN <<>> ELSE <<Message("assistant", c)>>)

\* record_turn, record_user_message or record_assistant_reply.
Lines(r) ==
  LET c == State(r) IN
  (IF request[r].kind = "resume" THEN <<>> ELSE <<Message("user", c)>>) \o
  (IF Paused(c) THEN <<>> ELSE <<Message("assistant", c)>>)
Record(r) ==
  /\ request[r].pc = "record"
  /\ exists
  /\ transcript' = transcript \o Lines(r)
  /\ request' = [request EXCEPT ![r] =
       IF request[r].kind = "stream" THEN Idle ELSE [@ EXCEPT !.pc = "respond"]]
  /\ UNCHANGED <<thread, progress, exists, screen, turns, consented, unasked, losses>>
\* get_or_404 finds the conversation gone.
RecordRejected(r) ==
  /\ request[r].pc = "record"
  /\ ~exists
  /\ request' = [request EXCEPT ![r] = Idle]
  /\ cut'     = cut \cup {State(r).turn}
  /\ UNCHANGED <<thread, progress, client, unasked, missed, torn, crossed, faults>>

\* The response shows the next prompt, or the answer in its place.
Respond(r) ==
  /\ request[r].pc = "respond"
  /\ screen'  = State(r).prompt
  /\ request' = [request EXCEPT ![r] = Idle]
  /\ UNCHANGED <<thread, progress, exists, transcript, turns, consented, unasked, losses>>

\* Variant with a bug: the checkpoint of a turn under way is spared.
DeleteFinished(r) ==
  /\ request[r].pc = "idle" /\ exists
  /\ thread'  = IF thread.node = "end" THEN NoThread ELSE thread
  /\ request' = [request EXCEPT ![r] = [Idle EXCEPT !.pc = "row", !.kind = "delete"]]
  /\ crossed' = (crossed \/ Turning # {})
  /\ UNCHANGED <<progress, client, unasked, cut, missed, torn, faults>>
\* ConversationService.delete, which the client asks for at any time: the
\* checkpoint first, then the row with its messages.
Delete(r) ==
  /\ request[r].pc = "idle" /\ exists
  /\ thread'  = NoThread
  /\ request' = [request EXCEPT ![r] = [Idle EXCEPT !.pc = "row", !.kind = "delete"]]
  /\ crossed' = (crossed \/ Turning # {})
  /\ UNCHANGED <<progress, client, unasked, cut, missed, torn, faults>>
\* The response closes the conversation in the client.
DropRow(r) ==
  /\ request[r].pc = "row"
  /\ exists'     = FALSE
  /\ transcript' = <<>>
  /\ screen'     = NoPrompt
  /\ request'    = [request EXCEPT ![r] = Idle]
  /\ UNCHANGED <<thread, progress, turns, consented, unasked, losses>>

\* The process dies, a call of it raises, or the client goes away: what was
\* committed stays, the rest and the response never happen.
RequestDies(r) ==
  LET q == request[r] IN
  /\ faults < MaxFaults
  /\ q.pc # "idle"
  /\ faults'  = faults + 1
  /\ request' = [request EXCEPT ![r] = Idle]
  /\ cut'     = IF q.pc \in {"respond", "row", "check", "load"} THEN cut
                ELSE cut \cup {IF q.pc = "input" THEN q.turn ELSE q.local.turn}
  /\ missed'  = (missed \/ q.kind = "resume")
  /\ torn'    = (torn \/ q.pc \in {"advance", "note"})
  /\ UNCHANGED <<thread, progress, client, unasked, crossed>>

HandlerStep(r) ==
  \/ CheckPaused(r) \/ LoadThread(r) \/ LastFrame(r) \/ Record(r)
  \/ RecordRejected(r) \/ Respond(r) \/ DropRow(r)

Next ==
  \/ \E r \in Requests :
       \/ Send(r) \/ Resume(r) \/ Delete(r)
       \/ HandlerStep(r) \/ GraphStep(r) \/ RequestDies(r)
  \/ MovePage

Spec == Init /\ [][Next]_vars
-----------------------------------------------------------------------------
(* Correctness *)

Recorded(role, t) ==
  \E i \in DOMAIN transcript : transcript[i].role = role /\ transcript[i].turn = t

\* Every variable has its type; one request per handler, and a saved range
\* that awaits its advance lies within the document.
TypeOK ==
  /\ thread \in Checkpoint
  /\ request \in [Requests -> RequestState]
  /\ exists \in BOOLEAN
  /\ transcript \in Seq([role : {"user", "assistant"}, turn : Turns, ack : Turns])
  /\ screen \in Prompt
  /\ turns \in Turns
  /\ page \in Pages /\ mark \in Pages
  /\ summaries \in Seq([turn : Turns, range : Ranges, shown : Ranges])
  /\ consented \subseteq Prompt /\ unasked \subseteq Prompt
  /\ cut \subseteq Turns
  /\ missed \in BOOLEAN /\ torn \in BOOLEAN /\ crossed \in BOOLEAN
  /\ faults \in 0..MaxFaults

\* Every web search, saved summary and revealed spoiler answers a prompt the
\* reader was shown and did not refuse.  Only a reader who answers once more
\* because a resume gave no answer can permit what they have not seen.
ActsAreConsented == missed \/ unasked = {}

\* No page is summarized again (advance_summarized_page: "a re-run never
\* re-summarizes already-covered pages"): a saved range lies after all earlier
\* ones, unless the reader moved its start before the one they were shown, or
\* the process died between saving a summary and noting it.
SummariesDisjoint ==
  torn \/ \A i, j \in DOMAIN summaries :
    i < j /\ summaries[j].shown[1] <= summaries[j].range[1] =>
      summaries[i].range[2] < summaries[j].range[1]

\* The transcript agrees with the agent's own memory.  No turn has two questions
\* or two replies, however often it was resumed (a resume that a delete robbed
\* of its checkpoint replies to turn 0, which is no turn); and when nothing is
\* in flight the last turn's question is there, and its reply exactly if the
\* graph has finished, unless a request of that turn broke off
\* (conversation_service.py:131-257).
TranscriptMatches ==
  /\ \A i, j \in DOMAIN transcript :
       i < j /\ transcript[i].turn = transcript[j].turn /\ transcript[i].turn # 0 =>
         transcript[i].role # transcript[j].role
  /\ LET t == thread.turn IN
     ~Busy /\ exists /\ t # 0 /\ t \notin cut =>
       /\ Recorded("user", t)
       /\ Recorded("assistant", t) <=> thread.node = "end"

\* A reply that confirms a saved summary is right that one was saved in the
\* turn it was set in.
AcksAreTrue ==
  \A i \in DOMAIN transcript : transcript[i].ack # 0 =>
    \E j \in DOMAIN summaries : summaries[j].turn = transcript[i].ack

\* A deleted conversation leaves no checkpoint, wherever a delete of it broke
\* off, unless a turn ran next to it.
DeletedIsForgotten == ~exists /\ ~Busy /\ ~crossed => thread = NoThread

=============================================================================
