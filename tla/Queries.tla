------------------------------- MODULE Queries -------------------------------
(***************************************************************************)
(* One question put to the stored data: a call of one of the agent's       *)
(* tools, or a computation or a conversation that no reader's data takes   *)
(* part in.                                                                *)
(*                                                                         *)
(* A reader's library is a set of documents chunked from their files; a    *)
(* word is its own topic, so a query is a word and the similarity of a     *)
(* passage to it the number of times it occurs.  A call that pauses keeps  *)
(* its arguments; while it waits the reader may turn a page, and the       *)
(* answer executes it again.                                               *)
(***************************************************************************)
EXTENDS AgentTools, Chunking, Figures, Frames, History

CONSTANTS
  Readers,        \* the libraries: user, default, files, owner, gone, titles,
                  \*   memories, preferences, habits
  Shelves,        \* the rows and the order of last access to begin with
  Nobody,         \* in place of a reader: the computations' own inputs
  Size, Overlap,  \* of a window, in words
  Words, Topics,  \* words, and those a question is about
  Values, Pages, Limits, Answers, MemoryTypes,
  Files, Cuts, Trails, Cases, Pads

\* The documents there are or were: an id of no document is as that of a deleted one.
Documents == UNION {DOMAIN r.files : r \in Readers}

Integral == Int \cup {Unset}

\* The progress of a reader in a document.
ProgressRow ==
  [status : {"not_started", "reading", "completed", "cancelled"}, current_page : Nat,
   last_summarized_page : Nat, spoiler_safe : BOOLEAN \cup {Unset}]

\* A summary is of pages of a document, any other memory of none.
MemoryRow(m) ==
  IF m.type = "summary" THEN {m.document, m.page_start, m.page_end} \subseteq Nat
  ELSE {m.document, m.page_start, m.page_end} = {Unset}

\* The sizes the settings hold, and the limits that are constants of the code.
ASSUME SizesAssumption ==
  /\ {Size, Overlap} \subseteq Nat /\ ValidSizes(Size, Overlap)
  /\ {TopK, PageFilteredLimit, HistorySeeds, MemorySeeds, Candidates} \subseteq Nat

\* What stands for nothing is none of the things.
ASSUME UnsetAssumption == Unset \notin Int \cup ProgressRow \cup {None}

\* A library has parsed files, and titles, wishes and memories of its owner.
ASSUME ReadersAssumption ==
  \A r \in Readers :
    /\ r.files \in Seq(Seq(Seq(Nat)) \ {<<>>, Corrupt})
    /\ r.titles \in [DOMAIN r.files -> Words \cup {Unset}]
    /\ {r.preferences, r.habits} \subseteq Seq(Words)
    /\ r.memories \in Seq(ToSet(r.memories))
    /\ \A i, j \in DOMAIN r.memories :
         MemoryRow(r.memories[i]) /\ (i # j => r.memories[i].id # r.memories[j].id)

\* Every document has a row of progress or none.
ASSUME ShelvesAssumption ==
  \A shelf \in Shelves : /\ shelf.rows \in [Documents -> ProgressRow \cup {Unset}]
                         /\ shelf.recent \in Seq(Documents)

\* What a call may be given.  A limit of 0 is as none.  One below zero, which the
\* schemas let through, is left out: the stores refuse it, and a list they have
\* already given it only cuts from the end.
ASSUME ArgumentsAssumption ==
  /\ Topics \subseteq Words /\ Untitled \in Words
  /\ \A v \in Values \ {Unset} : ParseDocumentId(v) \in Documents \cup {None}
  /\ Pages \subseteq Integral /\ Limits \subseteq (Nat \ {0}) \cup {Unset}
  /\ \A a \in Answers : {a.page_start, a.page_end} \subseteq Integral

\* A file that can be read is pages of words.
ASSUME FilesAssumption == Files \subseteq Seq(Seq(Nat)) \cup {Corrupt}

\* A stream is frames as the server writes them and, where it breaks off, a part of one.
ASSUME CutsAssumption ==
  \A cut \in Cuts :
    /\ cut.frames \in Seq(Seq(Nat)) /\ \A i \in DOMAIN cut.frames : IsFrame(cut.frames[i])
    /\ cut.tail \in Seq(Nat) /\ Boundary(cut.tail) = 0
    /\ cut.pieces \in Seq(Seq(Nat))

\* What a trail holds, and how far back it is looked at.
ASSUME TrailsAssumption ==
  \A t \in Trails :
    /\ \A i \in DOMAIN t.events : /\ {t.events[i].from_page, t.events[i].to_page} \subseteq Integral
                                  /\ t.events[i].day \in Int
    /\ \A i \in DOMAIN t.calls : /\ {t.calls[i].prompt, t.calls[i].completion} \subseteq Nat
                                 /\ t.calls[i].day \in Int
    /\ \A i \in DOMAIN t.tools : t.tools[i].day \in Int
    /\ \A s \in {t.events, t.calls, t.tools} : s \in Seq(ToSet(s))
    /\ {t.today, t.window} \subseteq Int

\* A case finds some passages and expects a finite number.
ASSUME CasesAssumption ==
  \A run \in Cases :
    /\ run \in Seq(ToSet(run))
    /\ \A i \in DOMAIN run : /\ run[i].retrieved \in Seq(ToSet(run[i].retrieved))
                             /\ IsFiniteSet(run[i].expected)

\* Notes and questions are of finitely many words.
ASSUME PadsAssumption ==
  \A pad \in Pads :
    /\ pad.notes \in Seq(ToSet(pad.notes)) /\ pad.limit \in Nat
    /\ \A i \in DOMAIN pad.notes : IsFiniteSet(pad.query \cap pad.notes[i].words)

VARIABLES reader, rows, recent, call, outcome

question == <<reader, rows, recent, call, outcome>>

vars == <<question, talk>>

Idle == [kind |-> "idle"]

-----------------------------------------------------------------------------
(* The reader's data as the tools see it.                                  *)

Docs == DOMAIN reader.files

\* The reader's documents that have not been deleted since they were indexed.
Stored == {d \in Docs : reader.owner[d] = reader.user /\ d \notin reader.gone}

Titles == [d \in Stored |-> reader.titles[d]]

Occurrences(w, text) == Cardinality({i \in DOMAIN text : text[i] = w})

PointsOf(d, owner, chunks) ==
  {[id |-> <<d, i>>, user |-> owner, document |-> d,
    page_start |-> chunks[i].page_start, page_end |-> chunks[i].page_end,
    chapter |-> Unset, section |-> Unset,
    text |-> chunks[i].text, content_hash |-> chunks[i].content_hash] :
      i \in DOMAIN chunks}

Everywhere(user) ==
  [user |-> user, document |-> Unset, max_page_end |-> Unset,
   chapter |-> Unset, section |-> Unset]

\* The chunks of a reader's documents, their points and what searches find.
Indexed(r) ==
  LET passages == [d \in DOMAIN r.files |-> ChunkDocument(ParsePdf(r.files[d]), Size, Overlap)]
      points == UNION {PointsOf(d, r.owner[d], passages[d]) : d \in DOMAIN r.files}
      scores == [w \in Words |->
                   [id \in {p.id : p \in points} |->
                      Occurrences(w, (CHOOSE p \in points : p.id = id).text)]]
      Hits(w) == LET found == Search(points, Everywhere(r.user), scores[w], Candidates)
                 IN  [i \in DOMAIN found |-> [document |-> found[i].document,
                                              score |-> scores[w][found[i].id]]]
  IN  [passages |-> passages, points |-> points, scores |-> scores,
       hits |-> [w \in Words |-> Hits(w)]]

Shelf == [r \in Readers |-> Indexed(r)]

InStatus(status) ==
  Filter(recent, LAMBDA d : rows[d] # Unset /\ rows[d].status = status)

Library ==
  [completed |-> InStatus("completed"), reading |-> InStatus("reading"),
   titles |-> Titles,
   preferences |-> reader.preferences, habits |-> reader.habits,
   hits |-> Shelf[reader].hits]

Context ==
  [user |-> reader.user, default |-> reader.default, rows |-> rows, titles |-> Titles,
   page_count |-> [d \in Docs |-> Len(reader.files[d])],
   passages |-> Shelf[reader].passages, points |-> Shelf[reader].points,
   memories |-> reader.memories, library |-> Library,
   texts |-> {p.id : p \in {q \in Shelf[reader].points : q.document \in Stored}}]

MemoryScores(w) ==
  [id \in {reader.memories[i].id : i \in DOMAIN reader.memories} |->
     IF \E i \in DOMAIN reader.memories : /\ reader.memories[i].id = id
                                          /\ w \in reader.memories[i].about
     THEN 1 ELSE 0]

-----------------------------------------------------------------------------
Init ==
  /\ \/ /\ reader \in Readers
        /\ \E shelf \in Shelves : rows = shelf.rows /\ recent = shelf.recent
     \/ reader = Nobody /\ rows = <<>> /\ recent = <<>>
  /\ call = None
  /\ outcome = Idle
  /\ talk = NewTalk

Asking == outcome = Idle /\ reader # Nobody

Computing == outcome = Idle /\ reader = Nobody /\ talk = NewTalk

\* The arguments of a call, kept with the rows it was run on and the order they
\* were last used in.
Kept(arguments) ==
  [field \in DOMAIN arguments \cup {"rows", "recent"} |->
     CASE field = "rows" -> rows
       [] field = "recent" -> recent
       [] OTHER -> arguments[field]]

Calls(arguments, result) ==
  /\ call' = Kept(arguments)
  /\ outcome' = result
  /\ UNCHANGED <<reader, rows, recent, talk>>

CallProgress ==
  /\ Asking
  /\ \E v \in Values : Calls([document |-> v], GetReadingProgress(Context, v))

CallRetrieve ==
  /\ Asking
  /\ \E v \in Values, unread \in BOOLEAN, limit \in Limits, w \in Topics :
       Calls([document |-> v, unread |-> unread, limit |-> limit, query |-> w],
             RetrieveChunks(Context, Shelf[reader].scores[w], v, unread, limit))

CallSummarize ==
  /\ Asking
  /\ \E v \in Values \ {Unset}, first, last \in Pages :
       Calls([tool |-> "summarize", document |-> v, first |-> first, last |-> last],
             Summarize(Context, v, first, last, None))

CallRecall ==
  /\ Asking
  /\ \E v \in Values, w \in Topics \cup {Unset}, type \in MemoryTypes,
        first, last \in Pages, limit \in Limits :
       LET q == [document |-> v, type |-> type, page_start |-> first, page_end |-> last,
                 limit |-> limit, query |-> IF w = Unset THEN Unset ELSE MemoryScores(w)]
       IN  Calls(q, QueryLongTermMemory(Context, q))

CallRecommend ==
  /\ Asking
  /\ \E web \in BOOLEAN, w \in Topics \cup {Unset}, limit \in Limits \ {Unset} :
       Calls([tool |-> "recommend", web |-> web, query |-> w, limit |-> limit, answer |-> None],
             Recommend(Context, web, w, limit, None))

CallWebSearch ==
  /\ Asking
  /\ \E w \in Topics :
       Calls([tool |-> "web_search", query |-> w, answer |-> None], WebSearch(w, None))

Paused == outcome.kind \in {"ask_pages_read", "tool_approval"}

\* While a call waits, once: a page of a document is recorded, or its status.
ReadOn ==
  /\ Paused /\ rows = call.rows /\ recent = call.recent
  /\ \E d \in Stored :
       LET old == IF rows[d] = Unset THEN RecordPosition(0, Len(reader.files[d])) ELSE rows[d]
       IN  /\ \/ \E page \in Pages \cap 1 .. Len(reader.files[d]) :
                   rows' = [rows EXCEPT ![d] = [old EXCEPT !.current_page = page,
                     !.status = RecordPosition(page, Len(reader.files[d])).status]]
              \/ rows' = [rows EXCEPT ![d] = [old EXCEPT !.status = "completed"]]
           /\ recent' = <<d>> \o Filter(recent, LAMBDA e : e # d)
  /\ UNCHANGED <<reader, call, outcome, talk>>

\* The answer executes the call again; the recap of a document without a
\* position records the page the reader gave.
ResumeSummarize ==
  /\ outcome.kind = "ask_pages_read"
  /\ \E answer \in Answers :
       LET result == Summarize(Context, call.document, call.first, call.last, answer)
           d == ParseDocumentId(call.document)
       IN  /\ call' = [call EXCEPT !.rows = rows]
           /\ outcome' = result
           /\ rows' = IF "row" \in DOMAIN result THEN [rows EXCEPT ![d] = result.row] ELSE rows
           /\ recent' = IF rows' = rows THEN recent
                        ELSE <<d>> \o Filter(recent, LAMBDA e : e # d)
           /\ UNCHANGED <<reader, talk>>

ResumeApproval ==
  /\ outcome.kind = "tool_approval"
  /\ \E answer \in Answers :
       /\ call' = [call EXCEPT !.answer = answer]
       /\ outcome' = IF call.tool = "recommend"
                     THEN Recommend(Context, call.web, call.query, call.limit, answer)
                     ELSE WebSearch(call.query, answer)
       /\ UNCHANGED <<reader, rows, recent, talk>>

-----------------------------------------------------------------------------
(* Computations.                                                           *)

Computes(arguments, result) ==
  /\ call' = arguments
  /\ outcome' = result
  /\ UNCHANGED <<reader, rows, recent, talk>>

Chunk ==
  /\ Computing
  /\ \E file \in Files, size \in 1 .. Size, overlap \in 0 .. Overlap, found \in {Unknown, "es"} :
       LET pages == ParsePdf(file)
       IN  Computes([pages |-> pages, overlap |-> overlap],
                    IF pages = ParseError THEN [kind |-> "failed"]
                    ELSE [kind |-> "chunks",
                          language |-> DetectLanguage(FullText(pages), found, "en"),
                          chunks |-> ChunkDocument(pages, size, overlap)])

Stream ==
  /\ Computing
  /\ \E cut \in Cuts :
       Computes(cut, [kind |-> "frames", read |-> ConsumeSse(cut.pieces)])

\* A trail: reading events, calls of the model (its tokens) and of tools.
Report ==
  /\ Computing
  /\ \E t \in Trails :
       LET tokens == FoldLeft(LAMBDA u, c : RecordTokenUsage(u, c.prompt, c.completion, c.day),
                              <<>>, t.calls)
           usage == FoldLeft(LAMBDA u, c : RecordToolCall(u, c.tool, c.day), tokens, t.tools)
       IN  Computes([trail |-> t, usage |-> usage],
                    [kind |-> "report", usage |-> Usage(usage, t.today, t.window),
                     analytics |-> Analytics(t.events, t.today, t.window)])

Score ==
  /\ Computing
  /\ \E run \in Cases :
       Computes([cases |-> run],
                [kind |-> "scores", summary |->
                   SummarizeCases([i \in DOMAIN run |->
                     [hit |-> HitRate(run[i].retrieved, run[i].expected), judged |-> run[i].judged]])])

RecallNote ==
  /\ Computing
  /\ \E pad \in Pads :
       Computes(pad, [kind |-> "notes", notes |-> RecallNotes(pad.notes, pad.query, pad.limit)])

\* A conversation, of which each step is a node of the graph.
Talk ==
  /\ outcome = Idle /\ reader = Nobody
  /\ TalkStep
  /\ UNCHANGED question

Next ==
  \/ CallProgress \/ CallRetrieve \/ CallSummarize \/ CallRecall
  \/ CallRecommend \/ CallWebSearch
  \/ ReadOn \/ ResumeSummarize \/ ResumeApproval
  \/ Chunk \/ Stream \/ Report \/ Score \/ RecallNote \/ Talk

Spec == Init /\ [][Next]_vars

-----------------------------------------------------------------------------
(* Properties.                                                             *)

Protected(d, row) == ResolveSpoilerSafe(Unset, Override(row), reader.default)

\* With spoiler protection on, no passage of a document a tool is asked about
\* reaches past the reader's page, asking for unread pages or for a later end
\* page included; a recap ends at that page, which the reader gave if it was
\* not known; and the summaries recalled of a document end there whatever the
\* setting (tools.py:256-361, 709-737; retrieval_service.py:155-178).
ShownIsRead ==
  LET d == ParseDocumentId(call.document)
      Page == CurrentPage(call.rows[d])
      shown == outcome.kind
  IN  /\ /\ shown = "passages" /\ call.document # Unset
         /\ Protected(d, call.rows[d]) \/ ~call.unread
         => \A i \in DOMAIN outcome.passages : outcome.passages[i].page_end <= Page
      /\ shown = "recap" =>
           /\ outcome.row # Unset \/ call.first # Unset \/ call.last # Unset
           /\ Protected(d, outcome.row) =>
                /\ outcome.span[2] <= CurrentPage(outcome.row)
                /\ \A i \in DOMAIN outcome.passages :
                     outcome.passages[i].page_start <= CurrentPage(outcome.row)
      /\ shown = "memories" /\ call.document # Unset =>
           \A i \in DOMAIN outcome.memories :
             /\ outcome.memories[i].document = d
             /\ outcome.memories[i].page_end <= Page

\* A protected recap shows no page the reader has not reached, as
\* _resolve_summary_span promises (tools.py:720-722).  A chunk that begins on
\* the reader's page and ends on the next one does.
RecapStaysRead ==
  outcome.kind = "recap" /\ Protected(ParseDocumentId(call.document), outcome.row) =>
    \A i \in DOMAIN outcome.passages :
      outcome.passages[i].page_end <= CurrentPage(outcome.row)

\* What a question finds is the best there is: passages as RetrievalIsSound,
\* recommendations as RecommendationsAreSound, and of the memories that match
\* none left out while there was room, unless more of them match but for their
\* pages than the tool looks at
\* (recommendation_service.py:215-236, tools.py:363-436).
BestIsFound ==
  LET target == Targeted(call.document)
      row == IF target = Unset THEN Unset ELSE call.rows[target]
  IN  /\ outcome.kind = "passages" =>
           RetrievalIsSound(Shelf[reader].points, Context.texts, Shelf[reader].scores[call.query], row,
             [user |-> reader.user, document |-> target,
              include_unread |-> call.unread, chapter |-> Unset, section |-> Unset,
              override |-> Unset, default |-> reader.default,
              limit |-> IF call.limit = Unset THEN TopK ELSE call.limit],
             outcome.passages)
      /\ outcome.kind \in {"library", "web"} /\ call.tool = "recommend" =>
           RecommendationsAreSound(Library, call.limit, outcome.internal)
      /\ outcome.kind = "memories" =>
           LET all == ToSet(reader.memories)
               open == {m \in all :
                 /\ Match(m.type, call.type) /\ Match(m.document, target)
                 /\ target # Unset => m.page_end <= CurrentPage(row)}
               asked == {m \in open : OverlapsPageRange(m, call.page_start, call.page_end)}
               top == IF call.limit = Unset THEN TopK ELSE call.limit
           IN  /\ ToSet(outcome.memories) \subseteq asked
               /\ Len(outcome.memories) < top /\ Cardinality(open) <= PageFilteredLimit =>
                    ToSet(outcome.memories) = asked

\* Nothing is sent to the web that the reader was not shown: the query sent is
\* the one of the pause or the reader's own edit of it, unless the tool made
\* the query up and the reading list changed during the pause
\* (graph.py:565-586, tools.py:460-506; a resumed recommend proposes anew).
WebIsShown ==
  [][outcome'.kind = "web" =>
       /\ outcome.kind = "tool_approval"
       /\ call'.answer.decision # "deny"
       /\ \/ outcome'.sent = outcome.asked
          \/ call'.answer.decision = "edit" /\ outcome'.sent = call'.answer.query
          \/ call.query = Unset /\ <<rows, recent>> # <<call.rows, call.recent>>]_vars

\* What is cut into pieces is put together again: a document from its chunks,
\* each of which knows its pages, and the events of the answer stream from
\* whatever pieces the network delivers (chunking.py:74-121, client.ts:337-353).
PiecesMakeTheWhole ==
  /\ outcome.kind = "chunks" /\ outcome.chunks # Refused =>
       /\ ChunksRebuildText(call.pages, outcome.chunks, call.overlap)
       /\ ChunksKnowTheirPages(call.pages, outcome.chunks)
  /\ outcome.kind = "frames" => FramesArriveWhole(call.frames, call.tail, call.pieces)

\* The figures of the dashboards and of an evaluation add up, and the scratchpad
\* recalls the best notes (analytics_service.py:76-145, scorers/retrieval.py,
\* scratchpad_service.py:135-168).
FiguresAddUp ==
  /\ outcome.kind = "report" =>
       /\ AnalyticsAreSound(call.trail.events, call.trail.today, call.trail.window, outcome.analytics)
       /\ UsageIsSound(call.usage, call.trail.today, call.trail.window, outcome.usage)
  /\ outcome.kind = "scores" =>
       /\ \A i \in DOMAIN call.cases : ScoresAgree(call.cases[i].retrieved, call.cases[i].expected)
       /\ outcome.summary.hit_rate[1] <= outcome.summary.hit_rate[2]
  /\ outcome.kind = "notes" =>
       RecallKeepsTheBest(call.notes, call.query, call.limit, outcome.notes)
=============================================================================
