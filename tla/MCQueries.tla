------------------------------ MODULE MCQueries ------------------------------
(***************************************************************************)
(* Small libraries and small inputs of Queries for TLC.                    *)
(***************************************************************************)
EXTENDS Queries, TLC

CONSTANTS me, them

Untracked == Unset

Row(page, mark, override) ==
  [status |-> IF page = 0 THEN "not_started" ELSE IF page = 3 THEN "completed" ELSE "reading",
   current_page |-> page, last_summarized_page |-> mark, spoiler_safe |-> override]

\* Document 1 has every position; 2 repeats a passage of it, 3 was deleted
\* after it was indexed, 4 is another user's.
FirstRows ==
  {Untracked} \cup {Row(page, 0, override) : page \in 0 .. 3, override \in {Unset, TRUE, FALSE}}
    \cup {Row(page, 1, Unset) : page \in 1 .. 3}

SecondRows ==
  {Untracked, [Row(1, 0, Unset) EXCEPT !.status = "completed"]}

Recency(a, b) ==
  {s \in {<<>>, <<1>>, <<2>>, <<1, 2>>, <<2, 1>>} :
     ToSet(s) = {d \in {1} : a # Unset} \cup {d \in {2} : b # Unset}}

Summary(id, d, first, last) ==
  [id |-> id, type |-> "summary", document |-> d, page_start |-> first,
   page_end |-> last, about |-> {1}]

MCMemories ==
  <<Summary(5, 1, 3, 3),
    [id |-> 4, type |-> "preference", document |-> Unset, page_start |-> Unset,
     page_end |-> Unset, about |-> {2}],
    Summary(3, 2, 1, 1), Summary(2, 1, 2, 2), Summary(1, 1, 1, 1)>>

MCReaders ==
  {[user |-> me, default |-> default, gone |-> {3},
    files |-> <<<<<<1, 2>>, <<1>>, <<2, 2, 1>>>>, <<<<1, 2>>>>, <<<<2, 2>>>>, <<<<1, 2, 2>>>>>>,
    owner |-> <<me, me, me, them>>, titles |-> <<1, Unset, 2, 2>>,
    memories |-> MCMemories, preferences |-> <<2>>, habits |-> <<>>] : default \in BOOLEAN}

MCShelves ==
  UNION {{[rows |-> <<a, b, Unset, Unset>>, recent |-> order] : order \in Recency(a, b)} :
           a \in FirstRows, b \in SecondRows}

Id(d) == [shape |-> "id", id |-> d]
MCValues ==
  {Unset, Id(1), Id(4), [shape |-> "label", id |-> 2], [shape |-> "other", id |-> 1]}

MCPages == {Unset} \cup 1 .. 3
MCLimits == {Unset, 1}

MCAnswers ==
  {[decision |-> decision, query |-> query, page_start |-> Unset, page_end |-> Unset] :
     decision \in {"approve", "deny", "edit"}, query \in {Unset, 2}}
  \cup {[decision |-> Unset, query |-> Unset, page_start |-> first, page_end |-> last] :
          first \in {Unset, 1, 3}, last \in {Unset, 0, 2, 3, 4}}

MCMemoryTypes == {Unset, "preference"}

Page == {<<>>, <<1>>, <<2, 1>>, <<1, 1, 3>>}
MCFiles == {Corrupt} \cup UNION {[1 .. n -> Page] : n \in 0 .. 3}

\* Streams of two frames and a broken one, cut anywhere.
FirstFrames == {<<>>, <<1>>, <<1, LineEnd, 2>>}
Slices(text, ends) ==
  LET at == Sorted(ends \cup {Len(text)}, <)
  IN  [i \in DOMAIN at |-> SubSeq(text, (IF i = 1 THEN 0 ELSE at[i - 1]) + 1, at[i])]
MCCuts ==
  UNION {
    LET text == f \o <<LineEnd, LineEnd>> \o g \o <<LineEnd, LineEnd>> \o tail
    IN  {[frames |-> <<f, g>>, tail |-> tail, pieces |-> Slices(text, ends)] :
           ends \in SUBSET (1 .. Len(text) - 1)} :
    f \in FirstFrames, g \in {<<1, 2>>}, tail \in {<<>>, <<1, LineEnd>>}}

Reading(type, from, to, day) ==
  [type |-> type, from_page |-> from, to_page |-> to, day |-> day]
EventSets == SUBSET {Reading("position_advanced", 0, 2, 1), Reading("position_advanced", 2, 3, 2),
                     Reading("position_advanced", 3, 1, 3), Reading("completed", Unset, 6, 0),
                     Reading("position_advanced", 1, 4, 4), Reading("position_advanced", 4, 5, 5)}

Earlier(e, f) == e.day < f.day \/ (e.day = f.day /\ e.to_page < f.to_page)
MCTrails ==
  {[events |-> Sorted(E, Earlier),
    today |-> today, window |-> window,
    calls |-> <<[prompt |-> 0, completion |-> 0, day |-> 3],
                [prompt |-> 2, completion |-> 1, day |-> 4]>>,
    tools |-> tools] :
     E \in EventSets, today \in 5 .. 6, window \in {2, 6},
     tools \in {<<>>,
                <<[tool |-> "summarize", day |-> 1], [tool |-> "recommend", day |-> 5],
                  [tool |-> "summarize", day |-> 5]>>}}

Case(retrieved, expected, judged) ==
  [retrieved |-> retrieved, expected |-> expected, judged |-> judged]
CaseSet ==
  {Case(r, e, j) : r \in {<<>>, <<1>>, <<2, 1>>, <<3, 2, 1>>}, e \in SUBSET (1 .. 3),
                   j \in {Unset, 0, 1}}
MCCases == {<<>>} \cup {<<c>> : c \in CaseSet} \cup {<<c, Case(<<1>>, {1}, 1)>> : c \in CaseSet}

Note(kind, words) == [kind |-> kind, words |-> words]
NoteSet == {Note("plan", {1}), Note("finding", {1}), Note("finding", {1, 2}), Note("question", {3})}
MCPads ==
  {[notes |-> notes, query |-> query, limit |-> limit] :
     notes \in UNION {[1 .. n -> NoteSet] : n \in 0 .. 3}, query \in {{}, {1}, {1, 2}},
     limit \in 1 .. 2}
MCTyped == {<<>>, <<1, Secret>>}
MCAttached == {<<>>, <<<<Secret>>>>}
MCProposals == {<<Unset, Id(1)>>}
=============================================================================
