------------------------------- MODULE Memory -------------------------------
(***************************************************************************)
(* Long-term memory of one user: rows in PostgreSQL, one point per row in  *)
(* Qdrant, and no transaction over both.  Agent turns save facts, which    *)
(* are merged with a near-duplicate of the same kind, and summaries of a   *)
(* document's pages; the user deletes memories and the document.           *)
(*                                                                         *)
(* Abstractions.                                                           *)
(*   - A vector is the text it was computed from.  Texts of one meaning    *)
(*     score above the de-duplication threshold, the same text highest.    *)
(*   - One document; a summary is the last page of its range.              *)
(*   - A request that raises and a process that dies both end a job here:  *)
(*     its transaction is rolled back, its points stay.                    *)
(***************************************************************************)
EXTENDS Naturals, FiniteSets

CONSTANTS
  Ids,       \* memory ids; each is used once
  Writers,   \* turns that save a fact
  Savers,    \* turns that save a summary
  Deleters,  \* requests of DELETE /memory/{id}
  Kinds,     \* the types of facts
  Texts,     \* what readers say
  Meaning,   \* [Texts -> the meaning of a text]
  LastPage,  \* the document's last page
  None       \* no row, point, memory or text

ASSUME MeaningAssumption == DOMAIN Meaning = Texts
ASSUME PageAssumption == LastPage \in Nat \ {0}
ASSUME NoneAssumption == None \notin Ids \cup Texts /\ "summary" \notin Kinds

VARIABLES
  rows,     \* long_term_memory rows, by id
  points,   \* points of the collection, by id
  alive,    \* the document exists
  write,    \* what each writer is doing
  save,     \* what each saver is doing
  del,      \* what each delete request is doing
  used,     \* history: ids given out
  said,     \* history: kind and meaning of the facts saved and not deleted since
  doomed,   \* history: ids whose deletion has begun
  gone,     \* history: ids whose deletion was confirmed
  torn,     \* history: ids upserted by a merge that met another job, or ended early
  crossed,  \* history: two facts of one kind were being saved at once
  stray     \* history: a fact's point was left without a row

history == <<used, said, doomed, gone, torn, crossed, stray>>
vars == <<rows, points, alive, write, save, del, history>>

-----------------------------------------------------------------------------
NoPage == 0    \* a fact's page_end is null
Memory == [kind : Kinds \cup {"summary"}, text : Texts \cup {None}, end : NoPage..LastPage]

Write  == [pc : {"idle", "search", "load", "merge", "add", "commit"},
           kind : Kinds \cup {None}, text : Texts \cup {None},
           id : Ids \cup {None}, old : BOOLEAN]
Save   == [pc : {"idle", "flushed", "commit"}, id : Ids \cup {None}, end : NoPage..LastPage]
Del    == [pc : {"idle", "point", "row"}, id : Ids \cup {None}]

IdleWrite == [pc |-> "idle", kind |-> None, text |-> None, id |-> None, old |-> FALSE]
IdleSave  == [pc |-> "idle", id |-> None, end |-> NoPage]
IdleDel   == [pc |-> "idle", id |-> None]

ASSUME NoMemoryAssumption == None \notin Memory

Fact(kind, text) == [kind |-> kind, text |-> text, end |-> NoPage]
Recap(end)       == [kind |-> "summary", text |-> None, end |-> end]

Has(store)  == {i \in Ids : store[i] # None}
Fresh       == Ids \ used
\* Jobs that hold the id of a memory they are about to write.
Merging(i)  == {w \in Writers : write[w].id = i /\ write[w].pc \in {"merge", "commit"}}

-----------------------------------------------------------------------------
\* A turn's classifier finds something worth keeping; its text is embedded.
BeginWrite(w) ==
  /\ write[w].pc = "idle"
  /\ \E kind \in Kinds, text \in Texts :
       /\ write' = [write EXCEPT ![w] = [IdleWrite EXCEPT !.pc = "search", !.kind = kind,
                                                          !.text = text]]
       /\ crossed' = (crossed \/ \E v \in Writers \ {w} : write[v].kind = kind)
  /\ UNCHANGED <<rows, points, alive, save, del, used, said, doomed, gone, torn, stray>>

\* Variant with a bug: any kind may be merged into.
NearAnyKind(kind, text) ==
  {i \in Has(points) : points[i].text # None /\ Meaning[points[i].text] = Meaning[text]}

\* Points of the same kind that score above the threshold.
Near(kind, text) ==
  {i \in Has(points) : /\ points[i].kind = kind
                       /\ Meaning[points[i].text] = Meaning[text]}

\* The nearest of them: the same text, if it is there.
Nearest(kind, text) ==
  LET same == {i \in Near(kind, text) : points[i].text = text} IN
  IF same # {} THEN same ELSE Near(kind, text)

\* Variant with a bug: nothing is ever found.
SearchNothing(w) ==
  /\ write[w].pc = "search"
  /\ write' = [write EXCEPT ![w].pc = "add"]
  /\ UNCHANGED <<rows, points, alive, save, del, history>>

\* The nearest point of the kind is looked up (limit 1).
Search(w) ==
  /\ write[w].pc = "search"
  /\ LET hits == Nearest(write[w].kind, write[w].text) IN
     \/ hits = {} /\ write' = [write EXCEPT ![w].pc = "add"]
     \/ \E i \in hits : write' = [write EXCEPT ![w].pc = "load", ![w].id = i]
  /\ UNCHANGED <<rows, points, alive, save, del, history>>

\* Its row is loaded; a hit without a row counts as no hit.
LoadHit(w) ==
  /\ write[w].pc = "load"
  /\ write' = IF rows[write[w].id] # None
                THEN [write EXCEPT ![w].pc = "merge", ![w].old = TRUE]
                ELSE [write EXCEPT ![w].pc = "add", ![w].id = None]
  /\ UNCHANGED <<rows, points, alive, save, del, history>>

\* A restatement: the point of the loaded row gets the new vector.
UpsertMerged(w) ==
  LET i == write[w].id IN
  /\ write[w].pc = "merge"
  /\ points' = [points EXCEPT ![i] = Fact(write[w].kind, write[w].text)]
  /\ torn' = IF Merging(i) = {w} /\ i \notin doomed THEN torn ELSE torn \cup {i}
  /\ write' = [write EXCEPT ![w].pc = "commit"]
  /\ UNCHANGED <<rows, alive, save, del, used, said, doomed, gone, crossed, stray>>

\* Variant with a bug: the vector of a new fact is never stored.
UpsertNothing(w) ==
  /\ write[w].pc = "add"
  /\ \E i \in Fresh :
       /\ write' = [write EXCEPT ![w].pc = "commit", ![w].id = i]
       /\ used' = used \cup {i}
  /\ UNCHANGED <<rows, points, alive, save, del, said, doomed, gone, torn, crossed, stray>>

\* A new fact: the row is flushed, which nobody else sees yet, and its point upserted.
UpsertNew(w) ==
  /\ write[w].pc = "add"
  /\ \E i \in Fresh :
       /\ points' = [points EXCEPT ![i] = Fact(write[w].kind, write[w].text)]
       /\ write' = [write EXCEPT ![w].pc = "commit", ![w].id = i]
       /\ used' = used \cup {i}
  /\ UNCHANGED <<rows, alive, save, del, said, doomed, gone, torn, crossed, stray>>

\* Variant with a bug: a merge commits nothing.
CommitNewOnly(w) ==
  LET i == write[w].id IN
  /\ write[w].pc = "commit"
  /\ rows' = IF write[w].old THEN rows
             ELSE [rows EXCEPT ![i] = Fact(write[w].kind, write[w].text)]
  /\ said' = said \cup {<<write[w].kind, Meaning[write[w].text]>>}
  /\ write' = [write EXCEPT ![w] = IdleWrite]
  /\ UNCHANGED <<points, alive, save, del, used, doomed, gone, torn, crossed, stray>>

\* The row is committed, unless it was to be updated and is gone.
CommitWrite(w) ==
  LET i == write[w].id IN
  /\ write[w].pc = "commit"
  /\ write[w].old => rows[i] # None
  /\ rows' = [rows EXCEPT ![i] = IF write[w].old THEN [@ EXCEPT !.text = write[w].text]
                                 ELSE Fact(write[w].kind, write[w].text)]
  /\ said' = said \cup {<<write[w].kind, Meaning[write[w].text]>>}
  /\ write' = [write EXCEPT ![w] = IdleWrite]
  /\ UNCHANGED <<points, alive, save, del, used, doomed, gone, torn, crossed, stray>>

\* The embedder, the store or the database fails, the process dies, or the update
\* meets no row or has nothing to change in it; the turn goes on.
AbortWrite(w) ==
  LET i == write[w].id IN
  /\ write[w].pc # "idle"
  /\ torn' = IF write[w].pc = "commit" /\ write[w].old THEN torn \cup {i} ELSE torn
  /\ stray' = (stray \/ (write[w].pc = "commit" /\ rows[i] = None))
  /\ write' = [write EXCEPT ![w] = IdleWrite]
  /\ UNCHANGED <<rows, points, alive, save, del, used, said, doomed, gone, crossed>>

-----------------------------------------------------------------------------
\* The reader has confirmed a range that has text: a summary row is flushed, which
\* locks the document against deletion until the transaction ends.
BeginSave(s) ==
  /\ save[s].pc = "idle"
  /\ alive
  /\ \E i \in Fresh, end \in 1..LastPage :
       /\ save' = [save EXCEPT ![s] = [pc |-> "flushed", id |-> i, end |-> end]]
       /\ used' = used \cup {i}
  /\ UNCHANGED <<rows, points, alive, write, del, said, doomed, gone, torn, crossed, stray>>

\* Its text is embedded and its point upserted.
UpsertSummary(s) ==
  /\ save[s].pc = "flushed"
  /\ points' = [points EXCEPT ![save[s].id] = Recap(save[s].end)]
  /\ save' = [save EXCEPT ![s].pc = "commit"]
  /\ UNCHANGED <<rows, alive, write, del, history>>

CommitSave(s) ==
  /\ save[s].pc = "commit"
  /\ rows' = [rows EXCEPT ![save[s].id] = Recap(save[s].end)]
  /\ save' = [save EXCEPT ![s] = IdleSave]
  /\ UNCHANGED <<points, alive, write, del, history>>

AbortSave(s) ==
  /\ save[s].pc # "idle"
  /\ save' = [save EXCEPT ![s] = IdleSave]
  /\ UNCHANGED <<rows, points, alive, write, del, history>>

-----------------------------------------------------------------------------
\* DELETE /memory/{id}: the row is loaded, 404 without one.
BeginDelete(d) ==
  /\ del[d].pc = "idle"
  /\ \E i \in Has(rows) :
       /\ del' = [del EXCEPT ![d] = [pc |-> "point", id |-> i]]
       /\ doomed' = doomed \cup {i}
       /\ torn' = IF Merging(i) = {} THEN torn ELSE torn \cup {i}
  /\ UNCHANGED <<rows, points, alive, write, save, used, said, gone, crossed, stray>>

\* Variant with a bug: the vector is kept.
KeepPoint(d) ==
  /\ del[d].pc = "point"
  /\ del' = [del EXCEPT ![d].pc = "row"]
  /\ UNCHANGED <<rows, points, alive, write, save, history>>

\* The point goes first,
DeletePoint(d) ==
  /\ del[d].pc = "point"
  /\ points' = [points EXCEPT ![del[d].id] = None]
  /\ del' = [del EXCEPT ![d].pc = "row"]
  /\ UNCHANGED <<rows, alive, write, save, history>>

\* then the row.  A merge that loaded it will find it gone.
DeleteRow(d) ==
  LET i == del[d].id IN
  /\ del[d].pc = "row"
  /\ said' = IF rows[i] = None \/ rows[i].text = None THEN said
             ELSE said \ {<<rows[i].kind, Meaning[rows[i].text]>>}
  /\ stray' = (stray \/ points[i] # None)
  /\ rows' = [rows EXCEPT ![i] = None]
  /\ gone' = gone \cup {i}
  /\ del' = [del EXCEPT ![d] = IdleDel]
  /\ UNCHANGED <<points, alive, write, save, used, doomed, torn, crossed>>

AbortDelete(d) ==
  /\ del[d].pc # "idle"
  /\ del' = [del EXCEPT ![d] = IdleDel]
  /\ UNCHANGED <<rows, points, alive, write, save, history>>

\* The document is deleted; the rows of its summaries go with it, their points stay.
DeleteDocument ==
  /\ alive
  /\ \A s \in Savers : save[s].pc = "idle"
  /\ alive' = FALSE
  /\ rows' = [i \in Ids |-> IF rows[i] # None /\ rows[i].kind = "summary" THEN None ELSE rows[i]]
  /\ UNCHANGED <<points, write, save, del, history>>

-----------------------------------------------------------------------------
\* The filter on page_end, which a point without one never passes.
Within(point, bound) == bound # None => point.end # NoPage /\ point.end <= bound

\* What recall finds: hits whose row is there.
Recalled(kind, bound) ==
  {i \in Has(points) \cap Has(rows) : points[i].kind = kind /\ Within(points[i], bound)}

-----------------------------------------------------------------------------
Init ==
  /\ rows = [i \in Ids |-> None] /\ points = [i \in Ids |-> None]
  /\ alive = TRUE
  /\ write = [w \in Writers |-> IdleWrite]
  /\ save = [s \in Savers |-> IdleSave]
  /\ del = [d \in Deleters |-> IdleDel]
  /\ used = {} /\ said = {} /\ doomed = {} /\ gone = {} /\ torn = {}
  /\ crossed = FALSE /\ stray = FALSE

Next ==
  \/ \E w \in Writers :
       \/ BeginWrite(w) \/ Search(w) \/ LoadHit(w) \/ UpsertMerged(w) \/ UpsertNew(w)
       \/ CommitWrite(w) \/ AbortWrite(w)
  \/ \E s \in Savers : BeginSave(s) \/ UpsertSummary(s) \/ CommitSave(s) \/ AbortSave(s)
  \/ \E d \in Deleters : BeginDelete(d) \/ DeletePoint(d) \/ DeleteRow(d) \/ AbortDelete(d)
  \/ DeleteDocument

Spec == Init /\ [][Next]_vars

-----------------------------------------------------------------------------
Typed ==
  /\ rows \in [Ids -> Memory \cup {None}]
  /\ points \in [Ids -> Memory \cup {None}]
  /\ alive \in BOOLEAN
  /\ write \in [Writers -> Write]
  /\ save \in [Savers -> Save]
  /\ del \in [Deleters -> Del]
  /\ said \subseteq Kinds \X {Meaning[t] : t \in Texts}
  /\ gone \subseteq Ids /\ doomed \subseteq Ids /\ used \subseteq Ids /\ torn \subseteq Ids
  /\ crossed \in BOOLEAN /\ stray \in BOOLEAN

\* A job knows what it saves, and the id once it has found or created one.
JobsFit ==
  /\ \A w \in Writers :
       /\ write[w].pc # "idle" => write[w].kind \in Kinds /\ write[w].text \in Texts
       /\ write[w].id \in Ids <=> write[w].pc \in {"load", "merge", "commit"}
       /\ write[w].pc # "commit" => (write[w].old <=> write[w].pc = "merge")
  /\ \A s \in Savers : save[s].pc # "idle" => save[s].id \in Ids /\ save[s].end \in 1..LastPage
  /\ \A d \in Deleters : del[d].pc # "idle" => del[d].id \in Ids

\* Nothing mentions an id that was not given out, or deletes what was not doomed.
IdsKnown ==
  /\ gone \subseteq doomed /\ doomed \subseteq used /\ torn \subseteq used
  /\ Has(rows) \subseteq used /\ Has(points) \subseteq used
  /\ \A w \in Writers : write[w].id \in used \cup {None}
  /\ \A s \in Savers : save[s].id \in used \cup {None}
  /\ \A d \in Deleters : del[d].id \in doomed \cup {None}

TypeOK == Typed /\ JobsFit /\ IdsKnown

\* A stored memory is found by semantic recall from the moment it is committed until
\* its deletion begins: the point is upserted before the commit and deleted before the
\* row, whatever fails in between.  A summary is found at its own last page.
RowsAreRecallable ==
  \A i \in Has(rows) \ doomed :
    i \in Recalled(rows[i].kind, IF rows[i].kind = "summary" THEN rows[i].end ELSE None)

\* A confirmed deletion leaves neither text nor vector, unless a merge into that very
\* memory was under way (memory.py:100-105, Memory.tsx:4).
DeletedIsForgotten ==
  \A i \in gone \ torn : rows[i] = None /\ points[i] = None

\* Recall finds a memory by what it says: its vector is that of its text, unless two
\* merges, or a merge and a failure, met on it.
VectorMatchesText ==
  \A i \in (Has(rows) \cap Has(points)) \ torn :
    Merging(i) = {} => points[i] = rows[i]

\* Restating a fact does not pile up rows: two memories of one kind never mean the
\* same, unless they were being saved at the same time or a point without its row hid
\* the first one (memory_service.py:65-75).
NoTwins ==
  ~crossed /\ ~stray =>
    \A i, j \in Has(rows) \ doomed :
      i # j /\ rows[i].text # None /\ rows[j].text # None /\ rows[i].kind = rows[j].kind
        => Meaning[rows[i].text] # Meaning[rows[j].text]

\* What was saved stays saved until it is deleted: merging never loses a fact nor
\* collapses it into one of another kind (memory_service.py:110-112).
SaidIsKept ==
  \A fact \in said :
    \E i \in Has(rows) : rows[i].kind = fact[1] /\ Meaning[rows[i].text] = fact[2]
=============================================================================
