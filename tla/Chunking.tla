------------------------------- MODULE Chunking -------------------------------
(***************************************************************************)
(* What the ingestion worker makes of a file: the pages the parser         *)
(* extracts, the language it settles on, and the overlapping, page-tagged  *)
(* chunks that retrieval, recaps and the reading position all refer to.    *)
(*                                                                         *)
(* A word is a number, its length in characters: two words of one length   *)
(* are one word, which is as much as the content hash and the token        *)
(* estimate tell apart.  A page is the sequence of its words, a file the   *)
(* sequence of its pages or Corrupt.                                       *)
(***************************************************************************)
EXTENDS Integers, Sequences, SequencesExt

CONSTANTS
  Corrupt,      \* bytes pypdf cannot read
  ParseError,   \* what the parser raises
  Refused,      \* what invalid window sizes raise
  Unknown       \* the detector's answer when it has none

-----------------------------------------------------------------------------
(* Parsing and language.                                                   *)

ParsePdf(file) == IF file \in {Corrupt, <<>>} THEN ParseError ELSE file

FullText(pages) == FlattenSeq(SelectSeq(pages, LAMBDA p : p # <<>>))

DetectLanguage(text, detected, default) ==
  IF text = <<>> \/ detected = Unknown THEN default ELSE detected

-----------------------------------------------------------------------------
(* Chunking.                                                               *)

Word(text, page) == [text |-> text, page |-> page]

FlattenWords(pages) ==
  FlattenSeq([p \in DOMAIN pages |->
                [i \in DOMAIN pages[p] |-> Word(pages[p][i], p)]])

Texts(words) == [i \in DOMAIN words |-> words[i].text]

\* A fourth of the characters, rounded up; joined words have a space between.
EstimateTokens(texts) ==
  LET length == FoldLeft(LAMBDA n, w : n + w, 0, texts) + Len(texts) - 1
  IN  IF texts = <<>> THEN 0 ELSE (length + 3) \div 4

\* The digest of the text with its white space normalised: the words.
ContentHash(texts) == texts

ValidSizes(size, overlap) == size > 0 /\ overlap \in 0 .. size - 1

\* Windows begin as long as there are words.
OrdinalsToTheEnd(n, size, overlap) ==
  {k \in 0 .. n - 1 : k * (size - overlap) < n}

\* The windows of n words: one begins unless the one before reached the end.
Ordinals(n, size, overlap) ==
  {k \in 0 .. n - 1 :
     k = 0 \/ (k - 1) * (size - overlap) + size < n}

ChunkData(ordinal, window) ==
  [ordinal |-> ordinal, text |-> Texts(window),
   page_start |-> window[1].page, page_end |-> window[Len(window)].page,
   token_count |-> EstimateTokens(Texts(window)),
   content_hash |-> ContentHash(Texts(window))]

ChunkDocument(pages, size, overlap) ==
  LET words == FlattenWords(pages)
      n == Len(words)
      Window(k) == LET start == k * (size - overlap)
                   IN  SubSeq(words, start + 1,
                              IF start + size < n THEN start + size ELSE n)
  IN  IF ValidSizes(size, overlap)
      THEN [i \in {k + 1 : k \in Ordinals(n, size, overlap)} |->
              ChunkData(i - 1, Window(i - 1))]
      ELSE Refused

-----------------------------------------------------------------------------
(* What chunking promises.                                                 *)

\* Nothing is lost and nothing is invented: a document can be put together
\* from its chunks by dropping from each the words it shares with the one
\* before (chunking.py:98-121), and no chunk is wholly inside the one before.
ChunksRebuildText(pages, chunks, overlap) ==
  /\ FlattenSeq([i \in DOMAIN chunks |->
        IF i = 1 THEN chunks[i].text
        ELSE SubSeq(chunks[i].text, overlap + 1, Len(chunks[i].text))])
     = Texts(FlattenWords(pages))
  /\ \A i \in DOMAIN chunks : i > 1 => Len(chunks[i].text) > overlap

\* A chunk's pages span exactly its words: it begins on its first page, ends
\* on its last and reads as the pages do in between (chunking.py:105-110).
ChunksKnowTheirPages(pages, chunks) ==
  \A i \in DOMAIN chunks :
    LET c == chunks[i]
        span == FlattenSeq(SubSeq(pages, c.page_start, c.page_end))
    IN  \E first \in 1 .. Len(pages[c.page_start]) :
          LET last == first + Len(c.text) - 1
          IN  /\ last \in Len(span) - Len(pages[c.page_end]) + 1 .. Len(span)
              /\ SubSeq(span, first, last) = c.text
=============================================================================
