# Verification of Recap

TLA+ models of the Recap reading assistant, checked with TLC, with theorems about
them checked by TLAPS. Paths below are relative to the repository root; `api/` is
`services/api/api/`, `ing/` is `services/ingestion/ingestion/`, `shared/` is
`libs/shared/shared/` and `web/` is `frontend/src/`.

## 1. The system

Users upload books. A worker parses, chunks and embeds each one; users then chat about
them with an agent that must not reveal what they have not read yet. PostgreSQL holds
all rows, Qdrant the vectors, S3/MinIO the original files, Redis the Celery queues, the
rate-limit counters and cached analytics.

| part | code | state it keeps | operations |
|---|---|---|---|
| document requests | `api/services/ingestion_service.py`, `document_service.py`, `api/routers/documents.py` | `documents`, `outbox` rows; originals | upload, retry, delete, patch |
| outbox relay | `ing/outbox_relay.py` | `outbox.processed_at` | tick: read a batch, enqueue, stamp |
| ingestion pipeline | `ing/pipeline.py`, `ing/tasks.py` | `documents.status`, `chunks`, vectors | claim, fetch and embed, replace vectors, terminal transaction, fail |
| stuck-document sweep | `ing/sweep.py` | none | tick: re-enqueue unfinished rows past the threshold |
| re-embedding | `ing/reembed.py` | vectors | one document; the whole corpus |
| evaluation runs | `api/services/evaluation_service.py`, `api/eval_worker/` | `evaluation_runs`, a fixture | enqueue, execute, fail, sweep |
| agent turn | `api/agent/`, `api/services/agent_service.py` | LangGraph checkpoint per thread | run, stream, resume; three nodes pause for the reader |
| agent tools | `api/agent/tools.py` | none | progress, passages, recap, memory, recommendation, web search |
| chat and conversations | `api/routers/chat.py`, `conversation_service.py`, `compaction_service.py`, `scratchpad_service.py` | conversations, messages, scratchpad | chat, stream, resume, delete, compact |
| reading progress | `api/services/progress_service.py`, `shared/core/spoiler.py`, `web/pages/Read.tsx` | progress row and its events | update, advance the summarized page |
| analytics, usage | `api/services/analytics_service.py`, `usage_service.py` | a cache entry | pages and tokens per day, streaks |
| long-term memory | `api/services/memory_service.py` | memory rows and points | save, merge, retrieve, delete |
| retrieval, recommendations | `api/services/retrieval_service.py`, `recommendation_service.py` | none | filter, search, hydrate, rank |
| rate limits, accounts | `rate_limit_service.py`, `auth_service.py`, `web/api/client.ts`, `web/context/AuthContext.tsx` | counters; users; cookies | enforce; register, log in, renew, log out |
| pure algorithms | `shared/ingestion_core/`, `api/evaluation/scorers/` | none | chunking, scoring |

How they interact. An upload stores the original, then commits the row and an outbox
event in one transaction. Celery beat fires the relay and the sweeps; they put
messages on the queues, and a tick is itself a task any worker may run.
A message is acknowledged when its task has ended, so a dying worker gives it back. The
pipeline writes Qdrant before its terminal PostgreSQL transaction; delete empties Qdrant
and S3 before it removes the row. A chat request runs the graph, whose tools read chunks,
vectors, progress and memory and whose last nodes save summaries and move the recap mark.
No two of the stores share a transaction and no lock is taken across steps.

What is hard, and what each part owes:

- *ingestion*: several runs of one document (sweep, redelivery, user retry, overlapping
  ticks), deletes at any point, crashes at any point, lost messages. It owes: chunk rows
  never without a document; an indexed document is searchable as a whole; nobody has the
  same bytes twice; no accepted document is forgotten; each one settles.
- *re-embedding*: takes points away while ingestion goes on; it gives them back.
- *evaluation runs*: at-least-once execution of a long job over shared fixtures; a run ends
  once, for a reason, and is never stuck.
- *agent turn and chat*: interrupts for approval, re-execution of the interrupted node at
  resume, crashes between two commits of one node; no web search without approval, no
  summary saved twice, the visible history matches the turns.
- *reading progress*: concurrent read-modify-write by a screen, the agent and recaps; the
  trail explains the row, and figures computed from it catch up.
- *memory*: row and point without a common transaction; what was said stays, once, and can
  be recalled, until it is deleted and then nothing stays.
- *accounts and sessions*: two visitors at one address; renewal, login and logout of one tab
  at once; a counter and its expiry set by two calls.
- *queries*: the spoiler bound, the best passages, window arithmetic at the edges.

`PROJECT.json` lists the hazards at their lines and, for those no property covers,
why.

## 2. Modules

| module | models |
|---|---|
| `IngestionState` | the stores, the queue and the state of workers, requests and relays |
| `DocumentApi` | upload, retry, delete, patch |
| `IngestWorker` | the task and the pipeline |
| `Dispatch` | relay, sweep, broker, passing time |
| `Ingestion` | their composition: `Spec`, `FairSpec`, the properties |
| `DocumentLifecycle` | the abstract promise to a user, which `Ingestion` implements |
| `Reembed` | re-embedding, composed with all of `Ingestion` |
| `AgentTurn` | the checkpoint of one conversation and the graph's nodes |
| `Chat` | the chat endpoints, the client and the deletion around it |
| `EvalRuns` | evaluation runs, their executors, fixture and sweep |
| `Progress` | progress row, events, recap mark, reading screen, cached analytics |
| `Memory` | memory rows and points, facts, summaries, deletions |
| `RateLimit`, `Accounts`, `Sessions` | limiter; accounts behind it; one tab and its cookies on top of both |
| `Chunking`, `Retrieval`, `Figures`, `Frames` | pure: chunks of a file; searches, recommendations and their bounds; analytics, usage and scores; the answer stream's frames |
| `AgentTools` | pure: what each tool answers from its arguments and the reader's data |
| `History` | the messages of a conversation: context nodes, judges' slice, compaction |
| `Queries` | composes the previous six: every call, pause and answer over small libraries |
| `MC*`, `*.cfg` | the instances TLC checks |
| `IngestionProofs`, `ChatProofs`, `EvalProofs`, `ProgressProofs`, `MemoryProofs`, `SessionsProofs`, `QueriesProofs` | theorems about the specification of that name; `IngestionProofs` also about `Reembed` |
| `AlgorithmProofs` | theorems about the pure modules, on which `QueriesProofs` rests |

Ingestion, chat, progress, memory, sessions and evaluation share no variable. Where one
reads what another writes, the reader takes any outcome the writer may leave: a turn takes any
passages, a recap any page, a query any library.

Operators whose comment starts with "Variant with a bug" are used by no
specification. Each is what a plausible mistake would make of the definition below it, and
is used to confirm that the properties notice it.

### Ingestion: state and code

| variable | code |
|---|---|
| `status[d]` | `documents.status`; `"unborn"` and `"deleted"` when there is no row |
| `chunks[d]`, `vectors[d]` | chunk rows and Qdrant points of `d`, as the set of runs that wrote them |
| `objects` | contents whose original is in object storage (keyed by owner and hash) |
| `outbox` | events whose `processed_at` is null |
| `relay[k]` | a tick's open transaction: events still to dispatch, events stamped |
| `queue[<<d, n>>]` | copies of the message for `d` with `retries = n` |
| `stale` | unfinished rows whose `updated_at` is older than the threshold |
| `worker[w]` | where the task is, its document, retry count, chunk ids, rows it deleted |
| `request[q]` | the next call of an API request |
| `scrubbed`, `overlapped`, `lost`, `faults` | history used by properties and bounds |

All chunk ids of one run are one token: a run creates them, writes them in one upsert and
one flush, and nothing else touches some of them and not others. Tokens, and outbox
event ids, are reused once nothing in the system knows them; the code uses UUIDs.
Contents in `Blank` parse to no text, so their runs write nothing; contents in
`Malformed` raise `ParseError`. Content stands for owner and hash together. The format
in an object's key is left out.

### Ingestion: where atomic steps begin and end

- *Claim* is a read (`Receive`) and an UPDATE (`Claim`), because the row may change
  between them. The UPDATE is by id and does not test the status again. If the row
  already says processing, SQLAlchemy sees no change and sends no UPDATE: `Receive` goes
  straight to `fetch` and `stale` keeps the document, so the sweep finds it again.
- *Vectors* are removed and upserted in two calls (`ClearVectors`, `UpsertVectors`).
- *The terminal transaction* is `FlushChunks` (DELETE of the committed rows it sees, INSERT
  of the new ones) and `Commit` (status, event, COMMIT). Under READ COMMITTED a row
  another run commits in between is not deleted (`gone` holds those that are). The
  INSERTs hold a key-share lock on the document row, so a delete waits (`RowLocked`);
  if the row is already gone the foreign key rejects them (`FlushRejected`). In
  PostgreSQL the DELETEs of two runs on the same rows also wait for each other; the
  model lets them interleave, which adds orders and no outcome of its own.
- *A delete* is four calls: load, vectors, object, row with its cascade. *An upload*: check, put,
  insert with its event. *A retry*: load and UPDATE with its event.
- *fail_document* is a read and a write of one transaction, taken as one step.
- *A relay tick* reads a batch, dispatches event by event, commits all stamps at the end.
  Ticks take no lock, so `Relays` may have several.
- *The sweep* is one step: its enqueues follow each other without waiting for anything.

### Ingestion: failures

`Fault` guards every step the environment injects; `MaxFaults` bounds how many.

- `TransientError`: a call of a task raises; back-off and retry, or failed at the limit.
- `Crash`: a worker dies. The message comes back or, when Celery takes the loss of its child
  process for an acknowledgement or the failure hook fails too, is gone.
- `Redeliver`: the broker's visibility timeout hands out a message again while its worker
  still works on it.
- `LoseMessage`: the broker restarts without a message.
- `RelayCrash`, `RequestDies`: what was committed or sent stays, the rest never happens.

### Ingestion: time

`Age` puts an unfinished document past the stuck threshold; any UPDATE takes it back. With
`PatientSweep = TRUE` this only happens when no event, message or worker has the document in
hand, which is what `shared/core/config.py` intends with 900 seconds. With `FALSE` it may
happen at any time (a big book, a full queue, retries that take longer).

### Chat: state and code

| variable | code |
|---|---|
| `thread` | the latest checkpoint: next node, current batch of calls, pending interrupt, `active_document_id` (`active`), `summary_save_ack` (`ack`), what became of the answer (`text`) |
| `thread.given` | resume values the interrupted node has received so far |
| `thread.sound` | earlier turns left no tool call without a response |
| `request[r]` | the next step of a request; `local` is the state its graph run holds |
| `exists`, `transcript` | the conversation row and its message rows |
| `screen` | the prompt the client shows |
| `page`, `mark` | `current_page`, `last_summarized_page` |
| `summaries` | saved summaries: their turn, their range and the range in the prompt |
| `turns` | messages sent, which also numbers the turns |
| `consented`, `unasked` | prompts the reader saw and did not refuse; prompts acted on without that |
| `cut`, `missed`, `torn`, `crossed`, `faults` | history used by properties and bounds |

A node is one step and its checkpoint is written with it: the graph runs with durability
`"sync"`. `persist_memory` alone has three steps (`SaveSummary`, `AdvancePage`, `NoteSaved`), as it
commits twice before it returns. A node that pauses runs again from its start when it is
resumed: `RunTools` starts every call of the batch and passes those that are already decided,
`PersistAsks` and `SaveSummary` read the progress row anew, and `JudgedRisky` or `JudgedSafe`
judges the answer anew. A resume is two reads of the checkpoint (`CheckPaused`,
`LoadThread`); in between it may change. `Record` is one transaction. A delete removes the
checkpoint (`Delete`), then the row (`DropRow`). A request dies at any step (`RequestDies`).

The models' verdicts and the batches they ask for are nondeterministic. Assumed of
LangGraph: resume values meet the interrupts of a node in the order of the calls; new input
drops a pending interrupt; deleting a thread does not stop a run that holds its state, whose
next checkpoint brings the thread back. Assumed of the providers: they reject a history with
an unanswered tool call.

With `Patient = TRUE` the client sends a message only when no turn of its own is in flight, and
answers a prompt only once it is shown: the `busy` and `resuming` flags of `Chat.tsx` see to
that, in one window. It may answer while the stream that showed the prompt is still recording
the question, and may delete at any time. A second window is `Patient = FALSE`; some
theorems hold for it too.

### Re-embedding

`Reembed` EXTENDS `Ingestion` and adds one variable of code, `task`: what the maintenance task
is doing, the chunk rows it has loaded and the documents still to come. It is one task at a
time, as an operator starts it. `Recreate` drops the collection (`ing/reembed.py:105`);
`LoadRows`, `DropPoints`, `WritePoints` and `Stamp` are the calls for one document. The task
takes no claim on a document, and when it fails nothing retries it; when its process dies
its message comes back. `met` and `broken` are history: the documents the
property exempts.

### Evaluation runs

| variable | code |
|---|---|
| `row[r]` | `evaluation_runs.status`, per-case scores, whether `error` is set |
| `accepted` | rows committed whose message is not sent yet |
| `queue[r]` | copies of the message |
| `seeded`, `points` | the system user with its fixture rows; the fixture's vectors |
| `page` | `current_page` of the fixture document, one row for all runs |
| `job[x]` | where an executor is, the page it loaded, the scores so far |
| `overlapped`, `crowded`, `hit`, `wiped`, `faults` | history used by properties and bounds |

An executor is a worker process or a `--sync` CLI. A score is what it was measured against: the
page bound the retrieval used, and whether it searched the fixture's vectors. The UPDATEs
follow SQLAlchemy: taking up a run that is already running sends none (`Receive`), and
`Complete` clears `error` only if it was set when the row was loaded. `Insert` waits for
another open transaction on the same unique keys and then fails. Datasets are not empty
(`CaseAssumption`).

### Reading progress

| variable | code |
|---|---|
| `alive`, `length` | the document row, its `page_count` |
| `row` | the `reading_progress` row: position, recap mark, status, spoiler override |
| `trail` | `reading_events`, a bag |
| `put[p]`, `recap[t]`, `view[v]` | requests of `PUT /progress`, of the agent's recap, of `GET /analytics` |
| `screen` | the row `web/pages/Read.tsx` shows |
| `cache` | the analytics entry in Redis |
| `back`, `raced`, `lapped`, `muddled` | history used by properties |

A request reads the row (`LoadPut`, `LoadRecap`), decides, and commits (`CommitPut`,
`Advance`). Its UPDATE names only the columns that differ from what it read, so overlapping
requests merge column by column. The invalidation of the cache follows the commit.

### Long-term memory

| variable | code |
|---|---|
| `rows`, `points` | `long_term_memory` rows and points of the collection, by id |
| `alive` | the document summaries refer to |
| `write[w]`, `save[s]`, `del[d]` | turns saving a fact or a summary; `DELETE /memory/{id}` |
| `used`, `said`, `doomed`, `gone`, `torn`, `crossed`, `stray` | history used by properties |

A vector is the text it was computed from, and texts of one meaning score above the
de-duplication threshold. Saving a fact is search, load, merge or add, commit; the point is
upserted before the commit and deleted before the row. Any job may end between two calls.

### Rate limit, accounts, sessions

| variable | code |
|---|---|
| `count`, `expires` | the Redis counter and whether it has an expiry |
| `hit[h]` | where in the limiter a request is: INCR, EXPIRE, judgement |
| `users`, `visit[v]` | user rows by email; requests that register or return from Google |
| `access`, `refresh` | the browser's two cookies, as the account they were issued for |
| `shown` | `AuthContext`'s user |
| `call[c]`, `renewal` | calls of the tab; `refreshInFlight` of `client.ts` |
| `admitted`, `endless`, `registered`, `proven`, `left`, `crossed`, `faults` | history |

A request carries the cookies there are when it is sent; its answer sets cookies when it
arrives. Renewal and login pass the limiter as real requests do. A renewal is shared by all
calls that wait for it. Bounds: the counter is not counted beyond `Limit + 1`, past which
every count is judged the same, and visits and the tab's calls are not under way together, as
they only meet in accounts and counter.

### Queries and conversations

`Queries` asks one question of a small library and keeps question and `outcome` for the
properties to compare. The library is chunked by `Chunking`, so passages are real chunks of
real pages; a word is its own topic and the similarity of a passage to it the number of its
occurrences. A tool call that pauses (`ask_pages_read`, approval of a web search) is executed
again from its start by `ResumeSummarize` or `ResumeApproval`, with the data there is then:
in between `ReadOn` records a page or a status. `Chunk`, `Stream`, `Report`, `Score` and
`RecallNote` put the pure computations to their small inputs.

`talk` (module `History`) is a conversation's checkpointed messages. Each step is a node:
the reader's message, guardrail with redaction, context notes, batches of calls and their
answers, the final answer, the judge's slice, compaction. A turn may break off in front of any
node.

## 3. Checked with TLC

| run | instance | properties | distinct states |
|---|---|---|---|
| `ingestion_races` | 1 document, 2 workers, 1 request of any kind at a time, 1 relay, 1 retry, 1 fault, impatient sweep | `ChunksHaveDocument`, `IndexedHasChunks`, `IndexedIsSearchable`, `UnfinishedHasWork` | 737,150 |
| `ingestion_uploads` | 2 documents of one textless content, 2 requests, 2 relays, 1 worker | `OneDocumentPerContent` | 1,498,911 |
| `ingestion_serial` | 2 documents, one malformed, 1 worker, 1 request, 1 relay, 1 fault, fair | `OriginalIsStored`, `EveryDocumentSettles`, `ImplementsLifecycle` | 360,173 |
| `ingestion_overlap` | as `races` | `IndexedHasVectors` is violated | |
| `reembedding` | 2 documents, 2 requests that upload or retry, 1 worker, 1 relay, 1 fault | `RebuiltIsSearchable` | 572,381 |
| `chat_turns` | 2 messages, 2 requests, batches of two gated calls or a read, 2 pages, 1 fault | `ActsAreConsented`, `SummariesDisjoint`, `TranscriptMatches`, `AcksAreTrue`, `DeletedIsForgotten` | 3,953,868 |
| `evaluations` | 1 run, 1 worker and 1 CLI, cases at page 2, page 1 and whole, 2 faults, fair | `OutcomeIsConsistent`, `ScoredInPlace`, `FailsForAReason`, `EndedStaysEnded`, `EveryRunEnds` | 92,497 |
| `progress` | 2 updates of 5 kinds, 2 recaps, 1 viewer, 2 pages, fair | `TrailExplainsRow`, `PagesAccounted`, `MarkGrowsAlone`, `ScreenIsTrue`, `AnalyticsCatchUp` | 542,954 |
| `memory` | 2 ids, 2 writers, 1 saver, 1 deleter, 2 kinds, 2 texts of one meaning | `RowsAreRecallable`, `DeletedIsForgotten`, `VectorMatchesText`, `NoTwins`, `SaidIsKept` | 1,619,054 |
| `sessions` | 2 calls, 2 visitors, 2 addresses, 1 subject, limit 1, 1 fault, fair | `AtMostLimit`, `AccountsHold`, `TabShowsSession`, `WindowsEnd` | 1,144,596 |
| `queries` | every tool call on libraries of 4 documents, small inputs of every computation, conversations of 3 turns | `ShownIsRead`, `BestIsFound`, `PiecesMakeTheWhole`, `FiguresAddUp`, `JudgesSeeTheTalk`, `TalkIsKept`, `WebIsShown` | 844,172 |
| `queries_recap` | as `queries` | `RecapStaysRead` is violated | |

What they show.

Ingestion:

- `ChunksHaveDocument`: whatever deletes and terminal transactions do to each other, chunk rows
  never outlive their document.
- `IndexedHasChunks`: runs that replace each other's rows never leave an indexed document with
  text without any. They can leave it with two sets of rows.
- `IndexedIsSearchable`: if no two runs of a document overlapped and no delete of it began, being
  indexed means that its rows and its points are those of one and the same run, through
  failures, crashes, redeliveries and retries.
- `UnfinishedHasWork`: a pending or processing document has an undispatched event, a message or a
  worker, or a message of it was lost and the sweep has not replaced it yet. This is the
  outbox's guarantee, with relay crashes and user retries.
- `OneDocumentPerContent`: racing uploads, retries and deletes never leave a user two rows
  with the same bytes.
- `OriginalIsStored`: with one request at a time, a document nobody asked to delete can always be retried.
- `EveryDocumentSettles`: each accepted document is indexed, failed or deleted in the end, also
  when its message or its worker is lost.
- `ImplementsLifecycle`: users see `DocumentLifecycle`: nothing of a document until it is
  ready, all of it from then on until its removal begins, and no two with the same bytes.
  What they see is what `RetrievalService._hydrate` can return, so points without a row do
  not count. With two faults it needs the absence of retries: a redelivered run may index the document
  between the load and the UPDATE of a user's retry, which then sends a ready document back
  to pending.
- `RebuiltIsSearchable`: re-embedding gives back what it takes. The exempted documents are
  real losses: a worker between its upsert and its commit at the recreation loses its
  vectors, and one that re-runs a document while the task holds its old rows leaves points
  no row has.

Chat:

- `ActsAreConsented`: no gated call runs, no summary is saved and no flagged answer is revealed
  unless the reader was shown exactly that prompt and did not refuse it, through several
  prompts in a row, page moves, new turns and deletes. The exemption is a reader who answers
  again because a resume gave no answer: the resume carries no prompt id, so the repeated
  answer meets whatever prompt the turn has reached meanwhile.
- `SummariesDisjoint`: `advance_summarized_page` promises that no page is summarized twice. True unless
  the reader moves the start of the range back, or the process dies between the commit of the
  summary and that of the mark.
- `TranscriptMatches`: no turn has two questions or two replies, however often it paused; and when
  nothing is in flight, the visible transcript has the question of the checkpoint's turn, and its
  reply exactly if the graph finished.
- `AcksAreTrue`: a confirmation in a reply is of a summary that was saved, if perhaps in an earlier turn.
- `DeletedIsForgotten` (chat): with the row gone no checkpoint stays, unless a turn was in flight next to
  the delete: such a turn writes its state back, and nobody ever removes it.

Evaluations:

- `OutcomeIsConsistent`, `EndedStaysEnded`: a run ends once and what it reports fits its status,
  through redelivery, the sweep and the failure hook. Two executions of one run are the
  exemption: the slower one overwrites the outcome, and may leave a completed run with an error.
- `ScoredInPlace`: each case was measured at the page the dataset gives and against the
  fixture's vectors, although all runs share one progress row and an aborted run leaves its page there.
- `FailsForAReason`: a run fails only if something failed under it or it ran next to another.
- `EveryRunEnds`: also when dispatch, message or worker are lost.

Progress:

- `TrailExplainsRow`: however requests interleave, each page up to the position lies in a recorded
  advance and each status was recorded when it was entered. Analytics rest on it.
- `PagesAccounted`: without overlapping updates no page is counted twice or lost. Two
  overlapping updates from one page do count it twice.
- `MarkGrowsAlone`: one recap at a time never moves the mark back.
- `ScreenIsTrue`, `AnalyticsCatchUp`: what the screen and the cached figures show catches up
  with the row once changes stop, even if an older figure is stored late (it expires).

Memory:

- `RowsAreRecallable`, `DeletedIsForgotten`: between save and delete a memory is found by recall;
  after a confirmed delete neither row nor point is left, unless a merge into it was under way.
- `VectorMatchesText`, `NoTwins`, `SaidIsKept`: restating, merging and failing never lose a fact
  or pile up copies; the exemptions (two merges of one memory, two savings of one kind at
  once, a point left without a row) are what really breaks them.

Sessions:

- `AtMostLimit`, `WindowsEnd`: concurrent requests never pass more than the limit on one window's count, and a
  window ends, unless the request that had to set the expiry failed in between.
- `AccountsHold`: racing registrations and Google sign-ins keep the first password, and lead to the
  account with their subject.
- `TabShowsSession`: tab and cookies agree, through expiry and shared renewals, and a logout that
  worked leaves no session; overlapping a login or logout with other calls breaks it.

Queries:

- `ShownIsRead`: with protection on, no tool call about a document shows a passage past the
  reader's page, whatever arguments the model passes and whatever the reader does during a pause.
- `BestIsFound`: searches, recommendations and memory lists return the best there is within their limits.
- `PiecesMakeTheWhole`: chunks rebuild the text and know their pages; stream frames survive any cut.
- `FiguresAddUp`: analytics, usage, scores and the recall of scratchpad notes equal their
  definitions from scratch.
- `JudgesSeeTheTalk`, `TalkIsKept`: the judges see a suffix of what was really said;
  compaction loses nothing that was said and redacted words stay out.
- `WebIsShown`: what goes to the web is what the reader was shown or typed.

The violated properties quote what the repository says:

1. *Re-enqueuing a document in flight is harmless* (`ing/sweep.py:15`, and `ing/pipeline.py:12`:
   never indexed with missing vectors). Run A upserts; run B passes the status check; A commits
   indexed; B deletes the vectors and dies. Delivered again, it finds the document indexed and is
   skipped. The document stays indexed without a single vector.
2. *A protected recap shows no page the reader has not reached* (`api/agent/tools.py:720`,
   `spec/requirements.md:194`). The recap loads the chunks that overlap the range
   (`document_repository.py`, `list_by_page_span`): one that begins on the reader's page and ends on the next
   is included whole.

Behaviour met on the way, not stated as a property of a run, mostly because the code says
nothing else or the exemption of a property names it:

- *ingestion*: a document deleted while it is written keeps its vectors (with chunks to write the foreign key
  raises before `ing/pipeline.py:140` can undo them, and the retry finds no row). An upload
  that races with the delete of the same bytes ends with a row whose original is gone
  (`api/services/document_service.py:49`).
- *chat*: a message sent on a thread that waits for an approval leaves the call unanswered for good
  (`api/agent/graph.py:563`), and nothing repairs the history; a read followed by a web search hides the
  document from the spoiler check (`graph.py:865`, `graph.py:1005`); the acknowledgement of a summary is
  never reset (`graph.py:298`). A reader who declines a flagged answer may still be shown it, as the
  judge looks again. An approval without a range saves the range as it is now. A reopened
  conversation has lost its prompt.
- *history*: a turn whose normalisation fails leaves its unredacted message in the checkpoint
  (`graph.py:697`). Compaction only sees turns that reach it, and its failure fails a finished
  turn. `load_memories` lists the 20 newest and then drops summaries, so 20 recent summaries hide
  saved preferences. A resumed turn gets a new scratchpad.
- *progress*: overlapping recaps can move the mark back. A row that is not started is in no group, so the
  screen shows "Use my default" over a stored override.
- *memory*: summary points stay after their document is deleted. A point without a row hides its fact
  and defeats de-duplication.
- *sessions*: a refused or failed renewal signs the tab out although the cookie is valid. Logging out with an
  expired access token is answered with 401 and leaves the refresh cookie. A collision on a unique
  constraint is a 500.
- *queries*: a chunk that straddles the reader's page cannot be retrieved though half of it is
  read. Duplicates are dropped before hydration. Only the documents in the history that seeds a
  recommendation are excluded from it. A memory list filtered by pages looks at the newest entries only. A
  resumed recommendation proposes its query anew. The streak cannot be longer than the window.

### Bounds

| bound | meaning and why it is enough |
|---|---|
| `MaxRuns` | chunk-id tokens known at once. 5 in `races`: raising it from 4 adds no state. 2 or 3 suffice for one worker |
| `MaxEvents` | outbox events known at once; an action that needs another one waits. 4 in `serial`, as fewer starve liveness by the bound itself |
| `MaxCopies` | the relay and the sweeps wait while a copy of a message is queued; retries, crashes and redeliveries ignore it, so two copies do occur |
| `MaxRetries` | 1 where retry counts matter (the code has 3); 0 elsewhere, where the first error fails the document |
| `BatchSize` | 2 events per tick (4 in `serial`); the code has 100 |
| `MaxFaults` | one fault (two in `evaluations`, where a failure and the failure of its handling differ), at any step; the theorems hold for any number |
| `LastPage` | 2 pages: the smallest document with two successive summaries or advances; 1 in `memory`, where a page only tells summaries from facts |
| `MaxRounds`, `MaxTurns` | 1 round of tools a turn and 2 messages in chat, 3 in the conversations of `queries`: what one turn leaves to the next shows in the second, and compaction needs a third |
| `HistoryTurns`, `Budget`, `Size`, `Overlap`, `TopK`, ... | limits of the code scaled down so that inputs of two or three items reach and pass them |
| one-shot jobs | requests of `progress`, `sessions` visitors and the ids of `memory` are used once; two of each make every pair of steps meet |

Deletes are left out of `reembedding`, where they exempt their document; the theorem
includes them. `CHECK_DEADLOCK FALSE` everywhere: when nobody does anything more, the system
rightly stops. Symmetry is used only in runs without liveness, over actors and ids that
are never told apart.

### Fairness

- `ingestion_serial`: a worker with a message continues
  (weak, per worker); each kind of message is handed to some worker if this is possible again and
  again (strong: Celery's Redis lists are first in first out, while the model's queue is a bag);
  relay ticks and the sweep keep firing (weak: beat schedules them for ever); time passes
  (weak, `Age`). Patches are left out: a client that patches an unfinished
  document at least every 15 minutes restarts the sweep's clock each time and may postpone its
  rescue for ever.
- `evaluations`: an executor goes on unless it dies (weak), a queued message is taken in the end
  (strong, as above), the sweep fires (weak).
- `progress`: a request that was let in is worked off, an analytics request that counted stores its
  figure, Redis expires its keys (weak).
- `sessions`: the limiter's calls of a request follow each other, Redis drops keys whose time is over (weak).

Nothing forces a user to act, an API process to survive, or a failure to happen.

## 4. Proved with TLAPS

All theorems hold for every set of documents, workers, requests, runs, memories, visitors
and so on, and for every value of the bounds, from the named assumptions of the modules that declare the
constants; TLC evaluates these in every run.

| module | theorem | statement |
|---|---|---|
| `IngestionProofs` | `TypeCorrect` | `Spec => []TypeOK` |
| | `ChunksAlwaysHaveDocument` | `Spec => []ChunksHaveDocument` |
| | `IndexedAlwaysHasChunks` | `Spec => []IndexedHasChunks` |
| | `AlwaysOneDocumentPerContent` | `Spec => []OneDocumentPerContent` |
| | `UnfinishedAlwaysHasWork` | `Spec => []UnfinishedHasWork` |
| | `IndexedAlwaysSearchable` | `Spec => []IndexedIsSearchable` |
| | `OriginalAlwaysStored` | `OneRequest => (Spec => []OriginalIsStored)` |
| | `LifecycleImplemented` | `Plain => (Spec /\ RetriesInTime => ImplementsLifecycle)` |
| | `LifecycleWithoutRetries` | `Plain /\ "retry" \notin Operations => (Spec => ImplementsLifecycle)` |
| | `ReembedTypeCorrect` | `ReembedSpec => []ReembedTypeOK` |
| | `RebuiltAlwaysSearchable` | `ReembedSpec => []RebuiltIsSearchable` |
| `ChatProofs` | `ChatTypeCorrect` | `Spec => []TypeOK` |
| | `AcksAlwaysTrue` | `Spec => []AcksAreTrue` |
| | `DeletedAlwaysForgotten` | `Spec => []DeletedIsForgotten` |
| | `ActsAlwaysConsented` | `Patient => (Spec => []ActsAreConsented)` |
| | `SummariesAlwaysDisjoint` | `Patient => (Spec => []SummariesDisjoint)` |
| | `TranscriptAlwaysMatches` | `Patient => (Spec => []TranscriptMatches)` |
| `EvalProofs` | `EvalTypeCorrect` | `Spec => []TypeOK` |
| | `OutcomeAlwaysConsistent` | `Spec => []OutcomeIsConsistent` |
| | `EndedAlwaysStays` | `Spec => EndedStaysEnded` |
| | `AlwaysFailsForAReason` | `Spec => []FailsForAReason` |
| | `AlwaysScoredInPlace` | `Spec => []ScoredInPlace` |
| `ProgressProofs` | `ProgressTypeCorrect` | `Spec => []TypeOK` |
| | `TrailAlwaysExplainsRow` | `Spec => []TrailExplainsRow` |
| | `MarkAlwaysGrowsAlone` | `Spec => MarkGrowsAlone` |
| | `ScreenAlwaysTrue` | `Spec => []ScreenIsTrue` |
| | `PagesAlwaysAccounted` | `Spec => []PagesAccounted` |
| `MemoryProofs` | `MemoryTypeCorrect` | `Spec => []TypeOK` |
| | `RowsAlwaysRecallable`, `DeletedAlwaysForgotten`, `SaidAlwaysKept`, `VectorAlwaysMatchesText`, `NeverTwins` | the five properties of the run `memory` |
| `SessionsProofs` | `SessionsTypeCorrect` | `Spec => []TypeOK` |
| | `NeverAboveLimit`, `AccountsAlwaysHold`, `TabAlwaysShowsSession` | `AtMostLimit`, `AccountsHold`, `TabShowsSession` |
| `QueriesProofs` | `ShownAlwaysRead` | `Spec => []ShownIsRead` |
| | `BestAlwaysFound` | `Spec => []BestIsFound` |
| | `WebAlwaysShown` | `Spec => WebIsShown` |
| | `TalkAlwaysKept` | `Spec => []TalkIsKept` |
| | `JudgesAlwaysSee` | `Spec => []JudgesSeeTheTalk` |
| | `PiecesAlwaysWhole` | `Spec => []PiecesMakeTheWhole` |
| | `FiguresAlwaysAddUp` | `Spec => []FiguresAddUp` |
| `AlgorithmProofs` | `ChunksMakeTheText`, `ChunksKnowPages` | `ChunksRebuildText`, `ChunksKnowTheirPages` of any document, size and overlap |
| | `FramesAlwaysArrive` | `FramesArriveWhole` of any frames, tail and pieces |
| | `AnalyticsAddUp`, `UsageAddsUp` | `AnalyticsAreSound`, `UsageIsSound` of any trail and window |
| | `ScoresAlwaysAgree`, `BestIsRecalled` | `ScoresAgree` of any retrieval, `RecallKeepsTheBest` of any scratchpad |

The arguments:

- *Ingestion.* `TypeOK` is inductive: it also says that a worker past the fetch holds
  a run and that only unfinished documents are stale. `RowSteps`
  classifies every step by what it does to the tables (insert, update, delete with cascade,
  index, nothing); the table properties and uniqueness follow from that classification alone.
  `UnfinishedHasWork` is inductive with `TypeOK`; its lemmas say for each kind of step who holds
  the document next. `IndexedIsSearchable` is not inductive: a clean result at commit
  depends on what the run did before. `SearchInv` adds
  what the one worker that holds an unscrubbed document knows as it goes (`RunOwns`: nobody else
  holds it and it is not indexed; at `upsert` it has no vectors; from `persist` on they are this
  run's; at `commit` the rows this run deletes are all there are), and that a delete is announced
  in `scrubbed` before it removes the original or the row (`DeletesAnnounced`).
- *Lifecycle.* `OneRequest` means one API request at a time, `Plain` one worker and documents with text;
  documents, failures and, for `Plain`, concurrent uploads, patches, retries and deletes
  are unlimited. `RetriesInTime` is the one thing asked of the behaviour: no retry commits after its document
  has become ready, which nothing in its UPDATE sees to and one fault, as in the run `ingestion_serial`, cannot
  bring about; where nobody retries it holds of itself. `OriginalInv` adds that a request about to
  insert has stored its original, and that one that deletes finds its document. `LifeInv` says that only
  ready documents have rows, that the worker never works on a ready one, and that an upload keeps its
  id to itself. With `SearchInv` every step is then one of `DocumentLifecycle` or not
  seen by it.
- *Re-embedding.* The theorem is about ingestion and the task together, deletes included.
  `RebuildInv` joins what is known of each document (`DocInv`: an indexed one has the rows of one run, and its
  points unless the task owes them; the rows the task has loaded are still those of the table), of one a
  worker holds (`RunInv`, as `RunOwns` above) and `DeletesAnnounced`.
- *Chat.* The theorems without `Patient` hold with any number of clients.
  `AckInv` adds that the acknowledgement in the checkpoint, in every request's copy of it and in
  every reply is of a turn that saved a summary. `ForgetInv` adds that, while no turn ever met a delete,
  a delete that is past its first call has left no checkpoint. Consent and summaries rest on one turn
  being active at a time (`OneAtATime`), which is what `Patient` gives. `ConsentInv` says of the active
  request that the decisions it holds belong, in order, to prompts the reader saw
  (`Asked`, `Allowed`), and that the prompt on the screen is the one the checkpoint waits for.
  `MarkInv` says that every saved range ends at or before the mark, unless a request is about to
  advance the mark to its end, and that a summary that waits for an answer starts after the mark
  (`Ahead`).
  For the transcript, `TranscriptInv` says what each request has yet to write (`Asks` its question, `Runs`
  towards a reply, `Replies`): beside a turn there is at most the stream that has shown the prompt it
  answers (`Alone`); no line to come is there yet (`Numbered`, `Once`); and the question and reply of
  every turn in a checkpoint are there or on their way (`Complete`). A request that
  breaks off is the exemption `cut`.
- *Evaluations.* `Recorded`: two executions at once are noted in the history the
  exemptions speak of. On it rest `HeldOpen` (a run that somebody executes has not ended), `Reasons` (an
  executor on its way to fail has been hit or is crowded) and `Places` (the scores an executor holds, and the
  page it is about to use, are in place).
- *Progress.* `TrailExplains` is `TrailExplainsRow` also for every row a request has read: an UPDATE
  of some columns then leaves a row that is explained column by column. `MarkKnown`: a lone
  recap still knows the mark it read. `ScreenFollows`: unless the row changed behind the screen, its requests
  know the row and it shows it once they are answered. `AccountInv` adds to `PagesAccounted` that the trail is
  finite and empty until there is a row, and that, unless updates overlapped, a request knows the position it
  is about to change (`KnowsPosition`). What the trail counts is a fold over a set: it is shown to exist, to
  depend on nothing but what is added (`AddsAgree`) and to allow any element as the last one (`AddsOne`),
  each from a least set at which it could fail, so that a commit adds to it exactly what it moves forward by
  (`CommitCounts`).
- *Memory.* `PointFirst`: a row has its point until its deletion begins, and an id whose row is still to come
  belongs to one job. `Forgetting` says where a deletion stands. `InStep`: a point is that of the one writer
  about to commit it, or of its row. `Distinct`: no two points restate each other, and a writer past its
  search is alone with its meaning; it is kept as long as no two facts of a kind are saved at once and no
  point loses its row.
- *Sessions.* `CountCovers`: the requests admitted in this window and those still to pass are
  at most the counter and at most the limit. `RowsBehind`: what a visit has reported is in a row.
  `InOrder`: unless `crossed`, every cookie and every request carries the one session of the tab, and
  a login or logout is alone.
- *Queries.* The definitions sort by counting, for each element, those in front of it. `ByRank` says
  what such a list is, and the lemmas on strict orders show that a list by rank holds every
  element once, in order; passages, memories and candidates are such lists with what does not
  match taken out (`Picks`, `Lists`, `Ranking`). `RetrieveIsSound`, `RecallIsSound`
  and `RecommendIsSound` say, for any points, memories, histories and scores, what the three
  algorithms return; they rest on what chunking makes of a document (`ChunksTyped`) and on the shelf a
  library gives (`ShelfTyped`). `QuestionInv` adds to the two properties what a pause must not lose:
  `AskedWell` (a call that waits kept its arguments and the rows it was asked with) and `ReaderTyped` (the
  reader's rows are rows of progress, and who waits for an answer is a reader).
- *Conversations.* `TalkInv` adds to `TalkIsKept` that a message that waits for the guardrail is the last one
  of the history, of the turn under way, with words or attachments, and all others are of earlier turns
  (`MessageArrived`); and that a turn is finished only after its answer, the last message then, was
  screened (`AnswerScreened`). What `FlattenSeq` joins is shown from the least length at which it could fail;
  the dropped messages are covered by lemmas about membership. `JudgeInv` adds that between the guardrail
  and the answer the reader's message has only notes behind it and only earlier turns in front
  (`MessageAt`), and that a document is active only when a call of the turn named it (`IsNamed`); the
  lines a judge gets are then the talk before that message or its last turns (`LastLines`).

- *Algorithms.* `PiecesMakeTheWhole` and `FiguresAddUp` speak of one computation each, so all of their
  content is in theorems about the pure modules, for inputs of any size. Chunks: the windows start
  at fixed distances (`WindowsInARow`) and each chunk is a window (`ChunksAreWindows`); joined without what
  they share they are the words (`SpanJoined`), and a stretch of words reads as the pages it is on
  (`WordsReadAsPages`). Frames: what is split of a buffer is not changed by what comes behind it
  (`SplitGoesOn`), so reading in pieces is reading at once (`PiecesAreRead`). Sums: a `SumFunction` takes its
  elements in an order nobody knows; it is shown to be a total over subsets (`Totals`) that may lose any element
  last (`AnyOrder`), from which it follows that a sum may be carried to other indices (`SumCarried`), taken in
  groups (`SumOfGroups`: pages by day, calls by tool) and of two figures at once (`SumOfSums`). The events
  looked at are those within the window (`WindowIsRecent`). Streaks: `StreakSoFar` is the invariant of the one
  pass over the sorted days, and `CurrentIsFound` counts back from today. Recall: the order by shared words and
  age is a strict one, and its first notes are the best (`BestNotesFirst`).
  Recursive functions and folds over data (`Split`, `FoldLeft`, `FlattenSeq`) are handled as in *Conversations*:
  a function that satisfies the recursion is built by hand (`FoldExists`, `SplitsExist`), and what
  it computes is shown from the least input at which it could be wrong (`LeastNumber`, `LeastSet`).

What the constants of `Queries` are assumed to be (`SizesAssumption`, `ReadersAssumption`,
`ShelvesAssumption`, `ArgumentsAssumption`, `TalkAssumption`, `UnsetAssumption`, `FilesAssumption`,
`CutsAssumption`, `TrailsAssumption`, `CasesAssumption`, `PadsAssumption`) is what the settings, the
columns and the schemas declare: sizes are numbers and the overlap is less than the size; rows and
memories have the columns' types, and only a summary has pages; a judge is shown at least one turn of
history; an argument is of its schema's type,
and a limit is not negative, which the schemas do not check; a file is pages of words or cannot be
read; the server writes frames without a blank line in them; events have a day, and page numbers or none;
a case expects finitely many chunks, and a note is of finitely many words.

Each invariant was checked by TLC on the instance of its run before it was proved.

Only model-checked: liveness, out of the prover's reach (`EveryDocumentSettles`, `EveryRunEnds`,
`AnalyticsCatchUp`, `WindowsEnd`), and the two violations. Every invariant and every action property of a passing
run is a theorem; those marked with an assumption in the table are theorems under it.

## 5. Not modelled

Left out of ingestion: titles, authors, language, page numbers, the multi-part cover of
files, per-user isolation (every key already contains the owner), metrics and traces, the
exact back-off, the order of outbox and queue (any order is allowed), a read and an UPDATE
split inside the terminal transaction of a document without text; the 1000 rows after which
`list_by_document` stops when a document is re-embedded.

Left out of chat (`AgentTurn`, `Chat`): a resume that edits a call's arguments (in `Queries`); the gates
inside `summarize` and `recommend`, which count as gated calls (in `AgentTools`); ranges past the
last page and summaries of pages without text (these skip); a document deleted during a turn;
several documents in one conversation; the WebSocket endpoint, which runs the same
`_run_turn`; the tool steps in a reply; listing and renaming conversations.

Left out elsewhere: `last_accessed_at` and the list of documents by status; the archive of attachments, which never
fails a turn; the memory page and the other screens that show what the API returns; the judge's
prompt and verdict; reading dataset files; the clock inside a rate-limit window; other
rate-limited routes, which use the same limiter.

Providers, prompts, observability, service wiring, migrations and infrastructure have no state machine of their
own, and enter the models as outcomes of a call, as constraints, or as the number of processes.
