----------------------------- MODULE AgentTools -----------------------------
(***************************************************************************)
(* The agent's tools, as what a call answers from its arguments and the    *)
(* reader's data: an observation, named by its kind.  The two calls that   *)
(* pause the turn take the reader's answer as an argument, None while      *)
(* there is none: the resumed turn executes the call again from its start, *)
(* with whatever data there is by then.                                    *)
(*                                                                         *)
(* ctx is the turn's ToolContext: user, default (the user's spoiler        *)
(* setting), titles (of the stored documents), rows (progress, by          *)
(* document, Unset without one), page_count, passages (the chunks of each  *)
(* document), memories (newest first) and the library a recommendation     *)
(* draws on.                                                               *)
(***************************************************************************)
EXTENDS Retrieval

CONSTANTS None, TopK, PageFilteredLimit

RequiresApproval(tool) == tool = "web_search"

\* A model passes the bare id, the label it was shown, or anything.
ParseDocumentId(value) ==
  IF value.shape \in {"id", "label"} THEN value.id ELSE None

NotAnId == [kind |-> "not an id"]

\* Arguments that name a document; an omitted one is Unset.
Targeted(value) == IF value = Unset THEN Unset ELSE ParseDocumentId(value)

-----------------------------------------------------------------------------
(* Progress and passages.                                                  *)

ReadingList(ctx) ==
  [status \in {"reading", "completed", "cancelled"} |->
     {d \in DOMAIN ctx.rows : ctx.rows[d] # Unset /\ ctx.rows[d].status = status}]

GetReadingProgress(ctx, value) ==
  LET d == Targeted(value)
  IN  IF d = Unset THEN [kind |-> "list", list |-> ReadingList(ctx)]
      ELSE IF d = None THEN NotAnId
      ELSE IF ctx.rows[d] = Unset THEN [kind |-> "not tracked"]
      ELSE [kind |-> "progress", row |-> ctx.rows[d]]

RetrieveChunks(ctx, score, value, includeUnread, limit) ==
  LET d == Targeted(value)
      ask == [user |-> ctx.user, document |-> d, include_unread |-> includeUnread,
              chapter |-> Unset, section |-> Unset, override |-> Unset,
              limit |-> IF limit = Unset THEN TopK ELSE limit,
              default |-> ctx.default]
      row == IF d = Unset THEN Unset ELSE ctx.rows[d]
      hits == Retrieve(ctx.points, ctx.texts, score, row, ask)
  IN  IF d = None THEN NotAnId
      ELSE IF hits = <<>> THEN [kind |-> "no passages"]
      ELSE [kind |-> "passages", passages |-> hits]

-----------------------------------------------------------------------------
(* Recaps.                                                                 *)

\* A resume answer needs a last page; recaps begin at page 1 without a first.
PagesFromAnswer(answer) ==
  IF answer.page_end = Unset THEN <<Unset, Unset>>
  ELSE <<IF answer.page_start = Unset THEN 1 ELSE answer.page_start, answer.page_end>>

LastSummarized(row) == IF row = Unset THEN 0 ELSE row.last_summarized_page

ResolveSummarySpan(row, default, first, last) ==
  LET end == IF last = Unset THEN CurrentPage(row) ELSE last
  IN  <<IF first = Unset THEN LastSummarized(row) + 1 ELSE first,
        IF ResolveSpoilerSafe(Unset, Override(row), default)
        THEN Least(end, CurrentPage(row)) ELSE end>>

\* Every chunk that overlaps the pages, in the order of the document.
ListByDocumentPageRange(chunks, first, last) ==
  Filter(chunks, LAMBDA c : c.page_start <= last /\ c.page_end >= first)

\* The row of a document without one, once a page of it is recorded.
RecordPosition(page, count) ==
  [status |-> IF page = 0 THEN "not_started"
              ELSE IF page = count THEN "completed" ELSE "reading",
   current_page |-> page, last_summarized_page |-> 0, spoiler_safe |-> Unset]

Recap(ctx, d, row, first, last) ==
  LET span == ResolveSummarySpan(row, ctx.default, first, last)
      chunks == ListByDocumentPageRange(ctx.passages[d], span[1], span[2])
  IN  IF span[2] < span[1] THEN [kind |-> "nothing new", row |-> row]
      ELSE IF chunks = <<>> THEN [kind |-> "no text", row |-> row]
      ELSE [kind |-> "recap", row |-> row, span |-> span, passages |-> chunks]

Summarize(ctx, value, first, last, answer) ==
  LET d == ParseDocumentId(value)
      pages == PagesFromAnswer(answer)
  IN  IF d = None THEN NotAnId
      ELSE IF d \notin DOMAIN ctx.titles THEN [kind |-> "not in the library"]
      ELSE IF ctx.rows[d] # Unset \/ first # Unset \/ last # Unset
           THEN Recap(ctx, d, ctx.rows[d], first, last)
      ELSE IF answer = None THEN [kind |-> "ask_pages_read"]
      ELSE IF pages[2] = Unset THEN [kind |-> "no pages given"]
      ELSE IF pages[2] \notin 0 .. ctx.page_count[d] THEN [kind |-> "error"]
      ELSE Recap(ctx, d, RecordPosition(pages[2], ctx.page_count[d]), pages[1], pages[2])

-----------------------------------------------------------------------------
(* Memories.                                                               *)

MemoryReadRangeBound(ctx, d) == IF d = Unset THEN Unset ELSE CurrentPage(ctx.rows[d])

OverlapsPageRange(m, first, last) ==
  \/ first = Unset /\ last = Unset
  \/ /\ m.page_start # Unset /\ m.page_end # Unset
     /\ last # Unset => m.page_start <= last
     /\ first # Unset => m.page_end >= first

WithinBound(m, bound) ==
  bound # Unset => m.page_end # Unset /\ m.page_end <= bound

SearchMemories(memories, score, type, d, bound, limit) ==
  LET open == {i \in DOMAIN memories :
                 /\ Match(memories[i].type, type) /\ Match(memories[i].document, d)
                 /\ WithinBound(memories[i], bound)}
  IN  First(Ranked(memories, open,
              LAMBDA i, j : \/ score[memories[i].id] > score[memories[j].id]
                            \/ score[memories[i].id] = score[memories[j].id] /\ i < j),
            limit)

ListSummariesCovering(memories, d, bound) ==
  Ranked(memories, {i \in DOMAIN memories : /\ memories[i].document = d
                                            /\ memories[i].type = "summary"
                                            /\ WithinBound(memories[i], bound)},
    LAMBDA i, j : \/ memories[i].page_start < memories[j].page_start
                  \/ memories[i].page_start = memories[j].page_start /\ i < j)

ListMemories(memories, type, limit) ==
  First(Filter(memories, LAMBDA m : Match(m.type, type)), limit)

\* q: query (the scores, or Unset), type, document, page_start, page_end, limit.
QueryLongTermMemory(ctx, q) ==
  LET d == Targeted(q.document)
      top == IF q.limit = Unset THEN TopK ELSE q.limit
      filtered == q.page_start # Unset \/ q.page_end # Unset
      fetch == IF filtered /\ top < PageFilteredLimit THEN PageFilteredLimit ELSE top
      bound == MemoryReadRangeBound(ctx, d)
      hits == IF q.query # Unset
              THEN SearchMemories(ctx.memories, q.query, q.type, d, bound, fetch)
              ELSE IF d = Unset THEN ListMemories(ctx.memories, q.type, fetch)
              ELSE IF Match("summary", q.type) THEN ListSummariesCovering(ctx.memories, d, bound)
              ELSE <<>>
      found == First(Filter(hits, LAMBDA m : OverlapsPageRange(m, q.page_start, q.page_end)), top)
  IN  IF d = None THEN NotAnId
      ELSE IF found = <<>> THEN [kind |-> "no memories"]
      ELSE [kind |-> "memories", memories |-> found]

-----------------------------------------------------------------------------
(* The web.                                                                *)

\* A call that leaves the system carries what it sends.
Outside(internal, query) == [kind |-> "web", internal |-> internal, sent |-> query]

RecommendInside(internal) == [kind |-> "library", internal |-> internal]

\* What the reader's answer makes of a proposed query.
Edited(proposed, answer) ==
  IF answer.decision = "edit" /\ answer.query # Unset THEN answer.query ELSE proposed

\* A call of a gated tool pauses before it runs.
WebSearch(query, answer) ==
  IF ~RequiresApproval("web_search") THEN Outside(<<>>, query)
  ELSE IF answer = None THEN [kind |-> "tool_approval", internal |-> <<>>, asked |-> query]
  ELSE IF answer.decision = "deny" THEN [kind |-> "denied"]
  ELSE Outside(<<>>, Edited(query, answer))

\* Only a query of the model's own is put to the reader.
RecommendAskingLess(ctx, includeWeb, query, limit, answer) ==
  LET internal == RecommendFromLibrary(ctx.library, limit)
      proposed == IF query # Unset THEN query ELSE DefaultWebQuery(ctx.library)
  IN  IF ~includeWeb \/ proposed = Unset THEN RecommendInside(internal)
      ELSE IF answer = None /\ query # Unset
           THEN [kind |-> "tool_approval", internal |-> internal, asked |-> proposed]
      ELSE IF answer # None /\ answer.decision = "deny" THEN RecommendInside(internal)
      ELSE Outside(internal, proposed)

Recommend(ctx, includeWeb, query, limit, answer) ==
  LET internal == RecommendFromLibrary(ctx.library, limit)
      proposed == IF query # Unset THEN query ELSE DefaultWebQuery(ctx.library)
  IN  IF ~includeWeb \/ proposed = Unset THEN RecommendInside(internal)
      ELSE IF answer = None
           THEN [kind |-> "tool_approval", internal |-> internal, asked |-> proposed]
      ELSE IF answer.decision = "deny" THEN RecommendInside(internal)
      ELSE Outside(internal, Edited(proposed, answer))
=============================================================================
