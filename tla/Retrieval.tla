------------------------------ MODULE Retrieval ------------------------------
(***************************************************************************)
(* Reading a library back: the passages a question finds, bounded by what  *)
(* the reader has read, the documents recommended from the reading         *)
(* history, and the scores an evaluation gives to a retrieval.             *)
(*                                                                         *)
(* A point of the collection carries its chunk's payload.  A query is the  *)
(* function from points to similarity it stands for, so the embedder and   *)
(* the metric are that function; equal scores come back in one fixed       *)
(* order.                                                                  *)
(***************************************************************************)
EXTENDS Integers, Sequences, FiniteSets, SequencesExt

CONSTANTS
  Untitled,  \* the words that stand for a document without a title
  Unset,     \* None: no override, no document, no filter, no page, no hash
  HistorySeeds, MemorySeeds, Candidates   \* recommendation_service.py's limits

Least(i, j) == IF i < j THEN i ELSE j

First(s, n) == SubSeq(s, 1, Least(n, Len(s)))

\* The elements of S in the strict order Before.
Sorted(S, Before(_, _)) ==
  [k \in 1 .. Cardinality(S) |->
     CHOOSE x \in S : Cardinality({y \in S : Before(y, x)}) = k - 1]

\* The elements of s at the positions in D, the positions in the order Before.
Ranked(s, D, Before(_, _)) ==
  LET at == Sorted(D, Before) IN [k \in DOMAIN at |-> s[at[k]]]

\* The elements of s at the positions in D, and those that satisfy P, in order.
Keep(s, D) == Ranked(s, D, <)

Filter(s, P(_)) == Keep(s, {i \in DOMAIN s : P(s[i])})

-----------------------------------------------------------------------------
(* Spoiler protection and the read range.                                  *)

ResolveSpoilerSafe(perQuery, perDocument, userDefault) ==
  IF perQuery # Unset THEN perQuery
  ELSE IF perDocument # Unset THEN perDocument ELSE userDefault

CurrentPage(row) == IF row = Unset THEN 0 ELSE row.current_page

Override(row) == IF row = Unset THEN Unset ELSE row.spoiler_safe

\* Asking for unread pages lifts the bound whatever the reader set.
ReadRangeBoundLifted(row, document, includeUnread, spoilerOn) ==
  IF document = Unset \/ includeUnread THEN Unset ELSE CurrentPage(row)

ReadRangeBound(row, document, includeUnread, spoilerOn) ==
  IF document = Unset \/ (includeUnread /\ ~spoilerOn)
  THEN Unset ELSE CurrentPage(row)

-----------------------------------------------------------------------------
(* Searching the chunk collection.                                         *)

Match(value, wanted) == wanted = Unset \/ value = wanted

\* f: user, document, max_page_end, chapter, section.
Found(points, f) ==
  {p \in points :
     /\ p.user = f.user
     /\ Match(p.document, f.document)
     /\ f.max_page_end # Unset =>
          p.page_end # Unset /\ p.page_end <= f.max_page_end
     /\ Match(p.chapter, f.chapter)
     /\ Match(p.section, f.section)}

\* A point's id is the chunk's: its document and its ordinal there.
Nearer(score, p, q) ==
  \/ score[p.id] > score[q.id]
  \/ /\ score[p.id] = score[q.id]
     /\ p.id[1] < q.id[1] \/ (p.id[1] = q.id[1] /\ p.id[2] < q.id[2])

Search(points, f, score, limit) ==
  First(Sorted(Found(points, f), LAMBDA p, q : Nearer(score, p, q)), limit)

CollapseDuplicates(hits) ==
  Keep(hits, {i \in DOMAIN hits :
    \/ hits[i].content_hash = Unset
    \/ \A j \in 1 .. i - 1 : hits[j].content_hash # hits[i].content_hash})

\* texts: the chunks of the caller's documents that still have a row.
Hydrate(hits, texts) == Filter(hits, LAMBDA h : h.id \in texts)

\* ask: user, document, include_unread, chapter, section, limit, override
\* and the user's default; row: the document's progress row.
Retrieve(points, texts, score, row, ask) ==
  LET spoilerOn == ResolveSpoilerSafe(ask.override, Override(row), ask.default)
      bound == ReadRangeBound(row, ask.document, ask.include_unread, spoilerOn)
      f == [user |-> ask.user, document |-> ask.document,
            max_page_end |-> bound,
            chapter |-> ask.chapter, section |-> ask.section]
  IN  Hydrate(CollapseDuplicates(Search(points, f, score, ask.limit)), texts)

-----------------------------------------------------------------------------
(* Recommending from the library.                                          *)

Titled(d, titles) ==
  IF d \in DOMAIN titles /\ titles[d] # Unset THEN titles[d] ELSE Untitled

\* The first rows of the list, titled; completed documents come first.
HistoryItems(completed, reading, titles) ==
  LET rows == First([i \in DOMAIN completed |-> [document |-> completed[i], status |-> "completed"]]
                      \o [i \in DOMAIN reading |-> [document |-> reading[i], status |-> "reading"]],
                    HistorySeeds)
  IN  [i \in DOMAIN rows |->
         [document |-> rows[i].document, status |-> rows[i].status,
          title |-> Titled(rows[i].document, titles)]]

\* A seed is the text it searches with and why; both are known by either.
Seeds(history, preferences, habits) ==
  [i \in DOMAIN history |-> [query |-> history[i].title, why |-> history[i].status]]
    \o [i \in DOMAIN First(preferences, MemorySeeds) |->
          [query |-> preferences[i], why |-> "mentioned"]]
    \o [i \in DOMAIN First(habits, MemorySeeds) |->
          [query |-> habits[i], why |-> "mentioned"]]

\* Every hit in the order the searches return them; hits[q] is query q's.
Signals(seeds, hits, exclude) ==
  Filter(
    FlattenSeq([i \in DOMAIN seeds |->
      LET found == First(hits[seeds[i].query], Candidates)
      IN  [j \in DOMAIN found |->
             [document |-> found[j].document, score |-> found[j].score,
              seed |-> seeds[i]]]]),
    LAMBDA s : s.document \notin exclude)

\* A document's first signal instead of its strongest.
RankCandidatesFirst(seeds, hits, exclude) ==
  LET s == Signals(seeds, hits, exclude)
  IN  Keep(s, {i \in DOMAIN s : \A j \in 1 .. i - 1 : s[j].document # s[i].document})

\* The strongest signal of each document; the earliest of equal ones.
RankCandidates(seeds, hits, exclude) ==
  LET s == Signals(seeds, hits, exclude)
      About(d) == {i \in DOMAIN s : s[i].document = d}
      Strongest(i) == \A j \in About(s[i].document) :
                        \/ s[j].score < s[i].score
                        \/ s[j].score = s[i].score /\ i <= j
      Entered(i) == CHOOSE j \in About(s[i].document) :
                      \A k \in About(s[i].document) : j <= k
  IN  Ranked(s, {i \in DOMAIN s : Strongest(i)},
        LAMBDA i, j : \/ s[i].score > s[j].score
                      \/ s[i].score = s[j].score /\ Entered(i) < Entered(j))

\* lib: the reading list, the titles of the stored documents, what the user
\* said, and the hits of each query.
RecommendFromLibrary(lib, limit) ==
  LET history == HistoryItems(lib.completed, lib.reading, lib.titles)
      seeds == Seeds(history, lib.preferences, lib.habits)
      exclude == {history[i].document : i \in DOMAIN history}
  IN  Filter(First(RankCandidates(seeds, lib.hits, exclude), limit),
             LAMBDA r : r.document \in DOMAIN lib.titles)

DefaultWebQuery(lib) ==
  LET history == HistoryItems(lib.completed, lib.reading, lib.titles)
  IN  IF history = <<>> THEN Unset ELSE history[1].title

-----------------------------------------------------------------------------
(* Scoring a retrieval against the chunks a case expects; recall and MRR   *)
(* are pairs <<numerator, denominator>>.                                   *)

HitRate(retrieved, expected) ==
  IF ToSet(retrieved) \cap expected # {} THEN 1 ELSE 0

Recall(retrieved, expected) ==
  IF expected = {} THEN <<0, 1>>
  ELSE <<Cardinality(ToSet(retrieved) \cap expected), Cardinality(expected)>>

MeanReciprocalRank(retrieved, expected) ==
  LET ranks == {r \in DOMAIN retrieved : retrieved[r] \in expected}
  IN  IF ranks = {} THEN <<0, 1>>
      ELSE <<1, CHOOSE r \in ranks : \A s \in ranks : r <= s>>

-----------------------------------------------------------------------------
(* What retrieval promises.                                                *)

\* The reader sees their own chunks alone; with protection on, a question
\* about a document never shows a page past the reader's, whoever asked for
\* unread pages (retrieval_service.py:155-178); the order is by similarity,
\* no passage twice, and what a full limit did not cut off is missing only if
\* a closer copy of it was found (retrieval_service.py:223-242).
RetrievalIsSound(points, texts, score, row, ask, hits) ==
  LET Mine(p) == p.user = ask.user /\ Match(p.document, ask.document)
                   /\ Match(p.chapter, ask.chapter) /\ Match(p.section, ask.section)
      protected == ResolveSpoilerSafe(ask.override, Override(row), ask.default)
      Read(p) == p.page_end # Unset /\ p.page_end <= CurrentPage(row)
      bounded == ask.document # Unset /\ (protected \/ ~ask.include_unread)
  IN  /\ \A i \in DOMAIN hits :
           /\ Mine(hits[i]) /\ hits[i].id \in texts
           /\ bounded => Read(hits[i])
      /\ \A i, j \in DOMAIN hits : i < j =>
           /\ score[hits[i].id] >= score[hits[j].id]
           /\ hits[i].id # hits[j].id
           /\ hits[i].content_hash = Unset \/ hits[i].content_hash # hits[j].content_hash
      /\ LET open == {p \in points : Mine(p) /\ (bounded => Read(p))}
         IN  Cardinality(open) <= ask.limit =>
               \A p \in open :
                 \/ p.id \notin texts
                 \/ p \in ToSet(hits)
                 \/ \E q \in open : /\ q # p /\ q.content_hash = p.content_hash
                                    /\ score[q.id] >= score[p.id]

\* A recommendation is of a stored document outside the history used, once,
\* for the strongest reason there is and in that order
\* (recommendation_service.py:215-236).
RecommendationsAreSound(lib, limit, found) ==
  LET history == HistoryItems(lib.completed, lib.reading, lib.titles)
      seeds == Seeds(history, lib.preferences, lib.habits)
      hits == UNION {ToSet(First(lib.hits[seeds[i].query], Candidates)) : i \in DOMAIN seeds}
      Scores(d) == {h.score : h \in {h \in hits : h.document = d}}
  IN  /\ Len(found) <= limit
      /\ \A i \in DOMAIN found :
           /\ found[i].document \in DOMAIN lib.titles
           /\ \A k \in DOMAIN history : found[i].document # history[k].document
           /\ \A s \in Scores(found[i].document) : s <= found[i].score
           /\ \E j \in DOMAIN lib.hits[found[i].seed.query] :
                lib.hits[found[i].seed.query][j]
                  = [document |-> found[i].document, score |-> found[i].score]
      /\ \A i, j \in DOMAIN found : i < j =>
           /\ found[i].document # found[j].document
           /\ found[i].score >= found[j].score
=============================================================================
