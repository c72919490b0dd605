---------------------------- MODULE MemoryProofs ----------------------------
(***************************************************************************)
(* Theorems about Memory's specification, for any number of memories, jobs *)
(* and texts.                                                              *)
(***************************************************************************)
EXTENDS Memory, TLAPS

\* A memory is a fact, which has a text, or a summary, which has a last page.
LEMMA MemoryShape ==
  /\ \A kind \in Kinds, text \in Texts : Fact(kind, text) \in Memory
  /\ \A end \in 1..LastPage : Recap(end) \in Memory
BY PageAssumption DEF Memory, Fact, Recap, NoPage

\* Every step of a writer keeps the variables' types.
LEMMA TypedWrite ==
  ASSUME Typed, JobsFit, NEW w \in Writers,
         \/ BeginWrite(w) \/ Search(w) \/ LoadHit(w) \/ UpsertMerged(w) \/ UpsertNew(w)
         \/ CommitWrite(w) \/ AbortWrite(w)
  PROVE  Typed' /\ JobsFit'
<1> USE DEF history
<1>1. CASE BeginWrite(w)
  <2>1. PICK kind \in Kinds, text \in Texts :
          write' = [write EXCEPT ![w] = [IdleWrite EXCEPT !.pc = "search", !.kind = kind,
                                                          !.text = text]]
    BY <1>1 DEF BeginWrite
  <2>2. crossed' \in BOOLEAN
    BY <1>1 DEF BeginWrite
  <2>3. UNCHANGED <<rows, points, alive, save, del, used, said, doomed, gone, torn, stray>>
    BY <1>1 DEF BeginWrite
  <2> QED
    BY <2>1, <2>2, <2>3, NoneAssumption DEF Typed, JobsFit, Write, IdleWrite
<1>2. CASE Search(w)
  <2>1. Nearest(write[w].kind, write[w].text) \subseteq Ids
    BY DEF Nearest, Near, Has
  <2>2. UNCHANGED <<rows, points, alive, save, del, history>> /\ write[w].pc = "search"
    BY <1>2 DEF Search
  <2>3. CASE write' = [write EXCEPT ![w].pc = "add"]
    BY <2>2, <2>3, NoneAssumption DEF Typed, JobsFit, Write
  <2>4. CASE \E i \in Ids : write' = [write EXCEPT ![w].pc = "load", ![w].id = i]
    BY <2>2, <2>4, NoneAssumption DEF Typed, JobsFit, Write
  <2> QED
    BY <1>2, <2>1, <2>3, <2>4 DEF Search
<1>3. CASE LoadHit(w)
  BY <1>3, NoneAssumption DEF LoadHit, Typed, JobsFit, Write
<1>4. CASE UpsertMerged(w)
  <2>1. Fact(write[w].kind, write[w].text) \in Memory /\ write[w].id \in Ids
    BY <1>4, MemoryShape DEF UpsertMerged, Typed, JobsFit
  <2>2. /\ points' = [points EXCEPT ![write[w].id] = Fact(write[w].kind, write[w].text)]
        /\ torn' \subseteq torn \cup {write[w].id}
        /\ write' = [write EXCEPT ![w].pc = "commit"] /\ write[w].pc = "merge"
        /\ UNCHANGED <<rows, alive, save, del, used, said, doomed, gone, crossed, stray>>
    BY <1>4 DEF UpsertMerged
  <2> QED
    BY <2>1, <2>2 DEF Typed, JobsFit, Write
<1>5. CASE UpsertNew(w)
  <2>1. Fact(write[w].kind, write[w].text) \in Memory
    BY <1>5, MemoryShape DEF UpsertNew, Typed, JobsFit
  <2>2. PICK i \in Ids :
          /\ points' = [points EXCEPT ![i] = Fact(write[w].kind, write[w].text)]
          /\ write' = [write EXCEPT ![w].pc = "commit", ![w].id = i]
          /\ used' = used \cup {i}
    BY <1>5 DEF UpsertNew, Fresh
  <2>3. /\ UNCHANGED <<rows, alive, save, del, said, doomed, gone, torn, crossed, stray>>
        /\ write[w].pc = "add"
    BY <1>5 DEF UpsertNew
  <2> QED
    BY <2>1, <2>2, <2>3 DEF Typed, JobsFit, Write
<1>6. CASE CommitWrite(w)
  <2>1. /\ Fact(write[w].kind, write[w].text) \in Memory
        /\ write[w].id \in Ids /\ write[w].text \in Texts /\ write[w].kind \in Kinds
    BY <1>6, MemoryShape DEF CommitWrite, Typed, JobsFit
  <2>2. ASSUME rows[write[w].id] # None
        PROVE  [rows[write[w].id] EXCEPT !.text = write[w].text] \in Memory
    BY <2>1, <2>2 DEF Typed, Memory
  <2>3. rows' \in [Ids -> Memory \cup {None}]
    BY <1>6, <2>1, <2>2 DEF CommitWrite, Typed
  <2>4. said' \subseteq Kinds \X {Meaning[t] : t \in Texts}
    BY <1>6, <2>1 DEF CommitWrite, Typed
  <2>5. /\ write' = [write EXCEPT ![w] = IdleWrite]
        /\ UNCHANGED <<points, alive, save, del, used, doomed, gone, torn, crossed, stray>>
    BY <1>6 DEF CommitWrite
  <2> QED
    BY <2>3, <2>4, <2>5, NoneAssumption DEF Typed, JobsFit, Write, IdleWrite
<1>7. CASE AbortWrite(w)
  <2>1. write[w].pc = "commit" => write[w].id \in Ids
    BY DEF JobsFit
  <2>2. torn' \subseteq Ids
    BY <1>7, <2>1 DEF AbortWrite, Typed
  <2>3. stray' \in BOOLEAN
    BY <1>7 DEF AbortWrite
  <2>4. /\ write' = [write EXCEPT ![w] = IdleWrite]
        /\ UNCHANGED <<rows, points, alive, save, del, used, said, doomed, gone, crossed>>
    BY <1>7 DEF AbortWrite
  <2> QED
    BY <2>2, <2>3, <2>4, NoneAssumption DEF Typed, JobsFit, Write, IdleWrite
<1> QED
  BY <1>1, <1>2, <1>3, <1>4, <1>5, <1>6, <1>7

\* So does every other step.
LEMMA TypedStep ==
  ASSUME Typed, JobsFit, [Next]_vars
  PROVE  Typed' /\ JobsFit'
<1> USE DEF history
<1>1. CASE UNCHANGED vars
  BY <1>1 DEF vars, Typed, JobsFit
<1>2. ASSUME NEW s \in Savers, BeginSave(s) \/ UpsertSummary(s) \/ CommitSave(s) \/ AbortSave(s)
      PROVE  Typed' /\ JobsFit'
  <2>1. save[s].pc # "idle" => Recap(save[s].end) \in Memory /\ save[s].id \in Ids
    BY MemoryShape DEF JobsFit
  <2>2. CASE BeginSave(s)
    <3>1. PICK i \in Ids, end \in 1..LastPage :
            /\ save' = [save EXCEPT ![s] = [pc |-> "flushed", id |-> i, end |-> end]]
            /\ used' = used \cup {i}
      BY <2>2 DEF BeginSave, Fresh
    <3>2. UNCHANGED <<rows, points, alive, write, del, said, doomed, gone, torn, crossed, stray>>
      BY <2>2 DEF BeginSave
    <3> QED
      BY <3>1, <3>2, PageAssumption DEF Typed, JobsFit, Save, NoPage
  <2>3. CASE UpsertSummary(s)
    BY <2>1, <2>3 DEF UpsertSummary, Typed, JobsFit, Save
  <2>4. CASE CommitSave(s)
    BY <2>1, <2>4, PageAssumption DEF CommitSave, Typed, JobsFit, Save, IdleSave, NoPage
  <2>5. CASE AbortSave(s)
    BY <2>5, PageAssumption DEF AbortSave, Typed, JobsFit, Save, IdleSave, NoPage
  <2> QED
    BY <1>2, <2>2, <2>3, <2>4, <2>5
<1>3. ASSUME NEW d \in Deleters, BeginDelete(d) \/ DeletePoint(d) \/ DeleteRow(d) \/ AbortDelete(d)
      PROVE  Typed' /\ JobsFit'
  <2>1. CASE BeginDelete(d)
    <3>1. PICK i \in Ids : /\ del' = [del EXCEPT ![d] = [pc |-> "point", id |-> i]]
                           /\ doomed' = doomed \cup {i}
                           /\ torn' \subseteq torn \cup {i}
      BY <2>1 DEF BeginDelete, Has
    <3>2. UNCHANGED <<rows, points, alive, write, save, used, said, gone, crossed, stray>>
      BY <2>1 DEF BeginDelete
    <3> QED
      BY <3>1, <3>2 DEF Typed, JobsFit, Del
  <2>2. CASE DeletePoint(d)
    BY <2>2 DEF DeletePoint, Typed, JobsFit, Del
  <2>3. CASE DeleteRow(d)
    <3>1. /\ rows' = [rows EXCEPT ![del[d].id] = None]
          /\ del' = [del EXCEPT ![d] = IdleDel]
          /\ gone' = gone \cup {del[d].id} /\ said' \subseteq said
          /\ UNCHANGED <<points, alive, write, save, used, doomed, torn, crossed>>
      BY <2>3 DEF DeleteRow
    <3>2. stray' \in BOOLEAN
      BY <2>3 DEF DeleteRow
    <3>3. del[d].id \in Ids
      BY <2>3 DEF DeleteRow, JobsFit
    <3> QED
      BY <3>1, <3>2, <3>3 DEF Typed, JobsFit, Del, IdleDel
  <2>4. CASE AbortDelete(d)
    BY <2>4 DEF AbortDelete, Typed, JobsFit, Del, IdleDel
  <2> QED
    BY <1>3, <2>1, <2>2, <2>3, <2>4
<1>4. CASE DeleteDocument
  BY <1>4 DEF DeleteDocument, Typed, JobsFit
<1> QED
  BY <1>1, <1>2, <1>3, <1>4, TypedWrite DEF Next

\* No step mentions an id that was not given out.
LEMMA IdsStep ==
  ASSUME Typed, JobsFit, IdsKnown, [Next]_vars
  PROVE  IdsKnown'
<1> USE NoneAssumption DEF history
<1> USE DEF IdsKnown, Has
<1>1. CASE UNCHANGED vars
  BY <1>1 DEF vars
<1>2. ASSUME NEW w \in Writers, BeginWrite(w) PROVE IdsKnown'
  BY <1>2 DEF BeginWrite, IdleWrite, Typed, Write
<1>3. ASSUME NEW w \in Writers, Search(w) PROVE IdsKnown'
  <2>1. Nearest(write[w].kind, write[w].text) \subseteq used
    BY DEF Nearest, Near
  <2>2. UNCHANGED <<rows, points, alive, save, del, history>>
    BY <1>3 DEF Search
  <2>3. \/ write' = [write EXCEPT ![w].pc = "add"]
        \/ \E i \in used : write' = [write EXCEPT ![w].pc = "load", ![w].id = i]
    BY <1>3, <2>1 DEF Search
  <2> QED
    BY <2>2, <2>3 DEF Typed, Write
<1>4. ASSUME NEW w \in Writers, LoadHit(w) PROVE IdsKnown'
  BY <1>4 DEF LoadHit, Typed, Write
<1>5. ASSUME NEW w \in Writers, UpsertMerged(w) PROVE IdsKnown'
  <2>1. write[w].id \in used
    BY <1>5 DEF UpsertMerged, JobsFit
  <2> QED
    BY <1>5, <2>1 DEF UpsertMerged, Typed, Write
<1>6. ASSUME NEW w \in Writers, UpsertNew(w) PROVE IdsKnown'
  <2>1. PICK i \in Ids :
          /\ points' = [points EXCEPT ![i] = Fact(write[w].kind, write[w].text)]
          /\ write' = [write EXCEPT ![w].pc = "commit", ![w].id = i]
          /\ used' = used \cup {i}
    BY <1>6 DEF UpsertNew, Fresh
  <2>2. UNCHANGED <<rows, alive, save, del, said, doomed, gone, torn, crossed, stray>>
    BY <1>6 DEF UpsertNew
  <2> QED
    BY <2>1, <2>2 DEF Typed, Write
<1>7. ASSUME NEW w \in Writers, CommitWrite(w) PROVE IdsKnown'
  <2>1. write[w].id \in used
    BY <1>7 DEF CommitWrite, JobsFit
  <2>2. /\ write' = [write EXCEPT ![w] = IdleWrite]
        /\ \A i \in Ids : i # write[w].id => rows'[i] = rows[i]
        /\ UNCHANGED <<points, alive, save, del, used, doomed, gone, torn, crossed, stray>>
    BY <1>7 DEF CommitWrite, Typed
  <2> QED
    BY <2>1, <2>2 DEF Typed, Write, IdleWrite
<1>8. ASSUME NEW w \in Writers, AbortWrite(w) PROVE IdsKnown'
  <2>1. write[w].pc = "commit" => write[w].id \in used
    BY DEF JobsFit
  <2>2. /\ write' = [write EXCEPT ![w] = IdleWrite]
        /\ torn' \subseteq used
        /\ UNCHANGED <<rows, points, alive, save, del, used, said, doomed, gone, crossed>>
    BY <1>8, <2>1 DEF AbortWrite
  <2> QED
    BY <2>2 DEF Typed, Write, IdleWrite
<1>9. ASSUME NEW s \in Savers, BeginSave(s) \/ UpsertSummary(s) \/ CommitSave(s) \/ AbortSave(s)
      PROVE  IdsKnown'
  <2>1. save[s].pc # "idle" => save[s].id \in used
    BY DEF JobsFit
  <2>2. CASE BeginSave(s)
    BY <2>2 DEF BeginSave, Fresh, Typed
  <2>3. CASE UpsertSummary(s)
    BY <2>1, <2>3 DEF UpsertSummary, Typed, Save
  <2>4. CASE CommitSave(s)
    BY <2>1, <2>4 DEF CommitSave, Typed, Save, IdleSave
  <2>5. CASE AbortSave(s)
    BY <2>5 DEF AbortSave, Typed, IdleSave
  <2> QED
    BY <1>9, <2>2, <2>3, <2>4, <2>5
<1>10. ASSUME NEW d \in Deleters, BeginDelete(d) \/ DeletePoint(d) \/ DeleteRow(d) \/ AbortDelete(d)
       PROVE  IdsKnown'
  <2>1. CASE BeginDelete(d)
    BY <2>1 DEF BeginDelete, Typed
  <2>2. CASE DeletePoint(d)
    BY <2>2 DEF DeletePoint, Typed, Del
  <2>3. CASE DeleteRow(d)
    <3>1. /\ rows' = [rows EXCEPT ![del[d].id] = None]
          /\ del' = [del EXCEPT ![d] = IdleDel]
          /\ gone' = gone \cup {del[d].id}
          /\ UNCHANGED <<points, alive, write, save, used, doomed, torn, crossed>>
      BY <2>3 DEF DeleteRow
    <3>2. del[d].id \in doomed
      BY <2>3 DEF DeleteRow, JobsFit
    <3> QED
      BY <3>1, <3>2 DEF Typed, Del, IdleDel
  <2>4. CASE AbortDelete(d)
    BY <2>4 DEF AbortDelete, Typed, IdleDel
  <2> QED
    BY <1>10, <2>1, <2>2, <2>3, <2>4
<1>11. CASE DeleteDocument
  BY <1>11 DEF DeleteDocument, Typed
<1> QED
  BY <1>1, <1>2, <1>3, <1>4, <1>5, <1>6, <1>7, <1>8, <1>9, <1>10, <1>11 DEF Next

\* Every variable has its type, a job knows the id of a memory exactly while it works
\* on one, and ids that were never given out appear nowhere.
THEOREM MemoryTypeCorrect == Spec => []TypeOK
<1>1. Init => TypeOK
  <2> SUFFICES ASSUME Init PROVE TypeOK
    OBVIOUS
  <2>1. IdleWrite \in Write /\ IdleDel \in Del
    BY DEF Write, Del, IdleWrite, IdleDel
  <2>2. IdleSave \in Save
    BY PageAssumption DEF Save, IdleSave, NoPage
  <2>3. Typed
    BY <2>1, <2>2 DEF Init, Typed
  <2>4. JobsFit
    BY NoneAssumption DEF Init, JobsFit, IdleWrite, IdleSave, IdleDel
  <2>5. IdsKnown
    BY DEF Init, IdsKnown, Has, IdleWrite, IdleSave, IdleDel
  <2> QED
    BY <2>3, <2>4, <2>5 DEF TypeOK
<1>2. TypeOK /\ [Next]_vars => TypeOK'
  BY TypedStep, IdsStep DEF TypeOK
<1> QED
  BY <1>1, <1>2, PTL DEF Spec

-----------------------------------------------------------------------------
\* Two memories of one kind and meaning, which differ at most in their wording.
Alike(m, n) ==
  /\ m.kind = n.kind /\ m.end = n.end
  /\ m.text = None <=> n.text = None
  /\ m.text # None => Meaning[m.text] = Meaning[n.text]

\* Whatever is stored, or about to be stored, under an id is like n.
Fits(i, n) ==
  /\ n.kind = "summary" <=> n.text = None
  /\ n.kind = "summary" <=> n.end # NoPage
  /\ rows[i] # None => Alike(rows[i], n)
  /\ points[i] # None => Alike(points[i], n)
  /\ \A w \in Writers : write[w].id = i => Alike(Fact(write[w].kind, write[w].text), n)
  /\ \A s \in Savers : save[s].id = i => Alike(Recap(save[s].end), n)

\* An id stands for one memory for ever: merging only rewords it.
OneNature == \A i \in Ids : \E n \in Memory : Fits(i, n)

LEMMA NatureStep ==
  ASSUME TypeOK, OneNature, [Next]_vars
  PROVE  OneNature'
<1> SUFFICES ASSUME NEW i \in Ids PROVE \E n \in Memory : Fits(i, n)'
  BY DEF OneNature
<1> PICK n \in Memory : Fits(i, n)
  BY DEF OneNature
<1> USE DEF TypeOK, history
<1>1. CASE UNCHANGED vars
  BY <1>1 DEF vars, Fits
<1>2. ASSUME NEW w \in Writers, BeginWrite(w) PROVE Fits(i, n)'
  <2>1. PICK kind \in Kinds, text \in Texts :
          write' = [write EXCEPT ![w] = [IdleWrite EXCEPT !.pc = "search", !.kind = kind,
                                                          !.text = text]]
    BY <1>2 DEF BeginWrite
  <2>2. UNCHANGED <<rows, points, save>>
    BY <1>2 DEF BeginWrite
  <2> QED
    BY <2>1, <2>2, NoneAssumption DEF Fits, Typed, IdleWrite
<1>3. ASSUME NEW w \in Writers, Search(w) PROVE Fits(i, n)'
  <2>1. UNCHANGED <<rows, points, save>> /\ write[w].pc = "search"
    BY <1>3 DEF Search
  <2>2. CASE write' = [write EXCEPT ![w].pc = "add"]
    BY <2>1, <2>2 DEF Fits, Typed, Write
  <2>3. ASSUME NEW j \in Nearest(write[w].kind, write[w].text),
               write' = [write EXCEPT ![w].pc = "load", ![w].id = j]
        PROVE  Fits(i, n)'
    <3>1. /\ j \in Ids /\ points[j] # None /\ points[j].kind = write[w].kind
          /\ Meaning[points[j].text] = Meaning[write[w].text]
      BY <2>3 DEF Nearest, Near, Has
    <3>2. write[w].kind \in Kinds /\ write[w].text \in Texts
      BY <2>1 DEF JobsFit
    <3>3. j = i => Alike(Fact(write[w].kind, write[w].text), n)
      BY <3>1, <3>2, NoneAssumption DEF Fits, Alike, Fact
    <3>4. /\ write'[w].kind = write[w].kind /\ write'[w].text = write[w].text
          /\ write'[w].id = j
          /\ \A v \in Writers \ {w} : write'[v] = write[v]
      BY <2>3 DEF Typed, Write
    <3> QED
      BY <2>1, <3>3, <3>4 DEF Fits
  <2> QED
    BY <1>3, <2>2, <2>3 DEF Search
<1>4. ASSUME NEW w \in Writers, LoadHit(w) PROVE Fits(i, n)'
  <2>1. UNCHANGED <<rows, points, save>>
    BY <1>4 DEF LoadHit
  <2>2. /\ write'[w].kind = write[w].kind /\ write'[w].text = write[w].text
        /\ write'[w].id \in {write[w].id, None}
        /\ \A v \in Writers \ {w} : write'[v] = write[v]
    BY <1>4 DEF LoadHit, Typed, Write
  <2> QED
    BY <2>1, <2>2, NoneAssumption DEF Fits
<1>5. ASSUME NEW w \in Writers, UpsertMerged(w) PROVE Fits(i, n)'
  <2>1. /\ UNCHANGED <<rows, save>>
        /\ points' = [points EXCEPT ![write[w].id] = Fact(write[w].kind, write[w].text)]
    BY <1>5 DEF UpsertMerged
  <2>2. /\ write'[w].kind = write[w].kind /\ write'[w].text = write[w].text
        /\ write'[w].id = write[w].id
        /\ \A v \in Writers \ {w} : write'[v] = write[v]
    BY <1>5 DEF UpsertMerged, Typed, Write
  <2> QED
    BY <2>1, <2>2 DEF Fits, Typed
<1>6. ASSUME NEW w \in Writers, UpsertNew(w) PROVE \E m \in Memory : Fits(i, m)'
  <2>1. PICK j \in Fresh :
          /\ points' = [points EXCEPT ![j] = Fact(write[w].kind, write[w].text)]
          /\ write' = [write EXCEPT ![w].pc = "commit", ![w].id = j]
    BY <1>6 DEF UpsertNew
  <2>2. UNCHANGED <<rows, save>> /\ write[w].pc = "add"
    BY <1>6 DEF UpsertNew
  <2>3. /\ write'[w].kind = write[w].kind /\ write'[w].text = write[w].text
        /\ write'[w].id = j
        /\ \A v \in Writers \ {w} : write'[v] = write[v]
    BY <2>1 DEF Typed, Write
  <2>4. CASE j = i
    <3>1. write[w].kind \in Kinds /\ write[w].text \in Texts
      BY <2>2 DEF JobsFit
    <3> PICK m \in Memory : m = Fact(write[w].kind, write[w].text)
      BY <3>1, MemoryShape
    <3>2. m.kind # "summary" /\ m.text # None /\ m.end = NoPage
      BY <3>1, NoneAssumption DEF Fact
    <3>3. /\ rows[i] = None /\ i # None
          /\ \A v \in Writers : write[v].id # i
          /\ \A s \in Savers : save[s].id # i
      BY <2>1, <2>4, NoneAssumption DEF Fresh, IdsKnown, Has
    <3>4. points'[i] = m
      BY <2>1, <2>4 DEF Typed
    <3>5. Alike(m, m)
      BY DEF Alike
    <3>6. Fits(i, m)'
      BY <2>2, <2>3, <3>2, <3>3, <3>4, <3>5 DEF Fits
    <3> QED
      BY <3>6
  <2>5. CASE j # i
    <3>1. Fits(i, n)'
      BY <2>1, <2>2, <2>3, <2>5 DEF Fits, Fresh, Typed
    <3> QED
      BY <3>1
  <2> QED
    BY <2>4, <2>5
<1>7. ASSUME NEW w \in Writers, CommitWrite(w) PROVE Fits(i, n)'
  <2> DEFINE j == write[w].id
  <2>1. /\ write' = [write EXCEPT ![w] = IdleWrite] /\ UNCHANGED <<points, save>>
        /\ write[w].old => rows[j] # None
        /\ rows' = [rows EXCEPT ![j] = IF write[w].old THEN [@ EXCEPT !.text = write[w].text]
                                        ELSE Fact(write[w].kind, write[w].text)]
    BY <1>7 DEF CommitWrite
  <2>2. j = i => Alike(Fact(write[w].kind, write[w].text), n)
    BY DEF Fits
  <2>3. CASE j = i /\ write[w].old
    <3>1. /\ rows'[i].kind = rows[i].kind /\ rows'[i].end = rows[i].end
          /\ rows'[i].text = write[w].text
      BY <2>1, <2>3 DEF Typed, Memory
    <3>2. Alike(rows[i], n)
      BY <2>1, <2>3 DEF Fits
    <3> QED
      BY <2>1, <2>2, <2>3, <3>1, <3>2, NoneAssumption DEF Fits, Alike, Fact, Typed, IdleWrite
  <2>4. CASE j = i /\ ~write[w].old
    <3>1. rows'[i] = Fact(write[w].kind, write[w].text)
      BY <2>1, <2>4 DEF Typed
    <3> QED
      BY <2>1, <2>2, <2>4, <3>1, NoneAssumption DEF Fits, Typed, IdleWrite
  <2>5. CASE j # i
    BY <2>1, <2>5, NoneAssumption DEF Fits, Typed, IdleWrite
  <2> QED
    BY <2>3, <2>4, <2>5
<1>8. ASSUME NEW w \in Writers, AbortWrite(w) PROVE Fits(i, n)'
  <2>1. write' = [write EXCEPT ![w] = IdleWrite] /\ UNCHANGED <<rows, points, save>>
    BY <1>8 DEF AbortWrite
  <2> QED
    BY <2>1, NoneAssumption DEF Fits, Typed, IdleWrite
<1>9. ASSUME NEW s \in Savers, BeginSave(s) PROVE \E m \in Memory : Fits(i, m)'
  <2>1. PICK j \in Fresh, end \in 1..LastPage :
          save' = [save EXCEPT ![s] = [pc |-> "flushed", id |-> j, end |-> end]]
    BY <1>9 DEF BeginSave
  <2>2. UNCHANGED <<rows, points, write>>
    BY <1>9 DEF BeginSave
  <2>3. CASE j = i
    <3> DEFINE m == Recap(end)
    <3>1. m \in Memory /\ m.kind = "summary" /\ m.text = None /\ m.end # NoPage
      BY MemoryShape DEF Recap, NoPage
    <3>2. /\ rows[i] = None /\ points[i] = None /\ i # None
          /\ \A v \in Writers : write[v].id # i
          /\ \A t \in Savers : save[t].id # i
      BY <2>1, <2>3, NoneAssumption DEF Fresh, IdsKnown, Has
    <3>3. Alike(m, m)
      BY DEF Alike
    <3>4. Fits(i, m)'
      BY <2>1, <2>2, <3>1, <3>2, <3>3 DEF Fits, Typed
    <3> QED
      BY <3>1, <3>4
  <2>4. CASE j # i
    BY <2>1, <2>2, <2>4 DEF Fits, Typed
  <2> QED
    BY <2>3, <2>4
<1>10. ASSUME NEW s \in Savers, UpsertSummary(s) \/ CommitSave(s) \/ AbortSave(s)
       PROVE  Fits(i, n)'
  <2>1. CASE UpsertSummary(s)
    BY <2>1 DEF UpsertSummary, Fits, Typed, Save
  <2>2. CASE CommitSave(s)
    BY <2>2, NoneAssumption DEF CommitSave, Fits, Typed, IdleSave
  <2>3. CASE AbortSave(s)
    BY <2>3, NoneAssumption DEF AbortSave, Fits, Typed, IdleSave
  <2> QED
    BY <1>10, <2>1, <2>2, <2>3
<1>11. ASSUME NEW d \in Deleters, BeginDelete(d) \/ DeletePoint(d) \/ DeleteRow(d) \/ AbortDelete(d)
       PROVE  Fits(i, n)'
  BY <1>11 DEF BeginDelete, DeletePoint, DeleteRow, AbortDelete, Fits, Typed
<1>12. CASE DeleteDocument
  BY <1>12 DEF DeleteDocument, Fits, Typed
<1> QED
  BY <1>1, <1>2, <1>3, <1>4, <1>5, <1>6, <1>7, <1>8, <1>9, <1>10, <1>11, <1>12 DEF Next

LEMMA NatureInvariant == Spec => [](TypeOK /\ OneNature)
<1>1. Init => OneNature
  <2> SUFFICES ASSUME Init, NEW i \in Ids PROVE \E n \in Memory : Fits(i, n)
    BY DEF OneNature
  <2> PICK n \in Memory : n = Recap(LastPage)
    BY MemoryShape, PageAssumption
  <2>1. n.kind = "summary" /\ n.text = None /\ n.end # NoPage
    BY PageAssumption DEF Recap, NoPage
  <2> QED
    BY <2>1, NoneAssumption DEF Init, Fits, IdleWrite, IdleSave
<1>2. TypeOK /\ OneNature /\ [Next]_vars => OneNature'
  BY NatureStep
<1> QED
  BY <1>1, <1>2, MemoryTypeCorrect, PTL DEF Spec

-----------------------------------------------------------------------------
\* Jobs that have yet to create the row of a memory.
NewWrite(w) == write[w].pc = "commit" /\ ~write[w].old
NewSave(s)  == save[s].pc # "idle"

\* A row has its point until its deletion begins; an id whose row is still to come
\* belongs to one job, and its point is there before the commit.
PointFirst ==
  /\ \A i \in Has(rows) \ doomed : points[i] # None
  /\ \A w \in Writers : NewWrite(w) =>
       LET i == write[w].id IN
       /\ rows[i] = None /\ i \notin doomed /\ points[i] # None
       /\ \A v \in Writers \ {w} : NewWrite(v) => write[v].id # i
       /\ \A s \in Savers : NewSave(s) => save[s].id # i
  /\ \A s \in Savers : NewSave(s) =>
       LET i == save[s].id IN
       /\ rows[i] = None /\ i \notin doomed /\ (save[s].pc = "commit" => points[i] # None)
       /\ \A t \in Savers \ {s} : NewSave(t) => save[t].id # i

LEMMA PointFirstStep ==
  ASSUME TypeOK, PointFirst, [Next]_vars
  PROVE  PointFirst'
<1> USE NoneAssumption, NoMemoryAssumption DEF TypeOK, history, Has
<1>1. CASE UNCHANGED vars
  BY <1>1 DEF vars, PointFirst, NewWrite, NewSave
<1>2. ASSUME NEW w \in Writers, UNCHANGED <<rows, points, save, doomed>>, ~NewWrite(w)',
             \A v \in Writers \ {w} : write'[v] = write[v]
      PROVE  PointFirst'
  BY <1>2 DEF PointFirst, NewWrite, NewSave
<1>3. ASSUME NEW w \in Writers, BeginWrite(w) \/ Search(w) \/ LoadHit(w) \/ AbortWrite(w)
      PROVE  PointFirst'
  <2>1. /\ UNCHANGED <<rows, points, save, doomed>>
        /\ \A v \in Writers \ {w} : write'[v] = write[v]
        /\ write'[w].pc # "commit"
    <3>1. CASE BeginWrite(w)
      BY <3>1 DEF BeginWrite, Typed, IdleWrite
    <3>2. CASE Search(w)
      BY <3>2 DEF Search, Typed, Write
    <3>3. CASE LoadHit(w)
      BY <3>3 DEF LoadHit, Typed, Write
    <3>4. CASE AbortWrite(w)
      BY <3>4 DEF AbortWrite, Typed, IdleWrite
    <3> QED
      BY <1>3, <3>1, <3>2, <3>3, <3>4
  <2> QED
    BY <1>2, <2>1 DEF NewWrite
<1>4. ASSUME NEW w \in Writers, UpsertMerged(w) PROVE PointFirst'
  <2>1. /\ write[w].id \in Ids /\ write[w].old /\ write[w].kind \in Kinds /\ write[w].text \in Texts
    BY <1>4 DEF UpsertMerged, JobsFit
  <2>2. points' = [points EXCEPT ![write[w].id] = Fact(write[w].kind, write[w].text)]
    BY <1>4 DEF UpsertMerged
  <2>3. /\ UNCHANGED <<rows, save, doomed>> /\ ~NewWrite(w)'
        /\ \A v \in Writers \ {w} : write'[v] = write[v]
    BY <1>4, <2>1 DEF UpsertMerged, Typed, Write, NewWrite
  <2>4. \A i \in Ids : points[i] # None => points'[i] # None
    BY <2>1, <2>2, MemoryShape DEF Typed
  <2> QED
    BY <2>3, <2>4 DEF PointFirst, NewWrite, NewSave, JobsFit
<1>5. ASSUME NEW w \in Writers, UpsertNew(w) PROVE PointFirst'
  <2>1. PICK j \in Fresh :
          /\ points' = [points EXCEPT ![j] = Fact(write[w].kind, write[w].text)]
          /\ write' = [write EXCEPT ![w].pc = "commit", ![w].id = j]
    BY <1>5 DEF UpsertNew
  <2>2. UNCHANGED <<rows, save, doomed>> /\ write[w].kind \in Kinds /\ write[w].text \in Texts
    BY <1>5 DEF UpsertNew, JobsFit
  <2>3. /\ write'[w].id = j /\ \A v \in Writers \ {w} : write'[v] = write[v]
        /\ points'[j] # None /\ \A i \in Ids \ {j} : points'[i] = points[i]
    BY <2>1, <2>2, MemoryShape DEF Typed, Write, Fresh
  <2>4. /\ rows[j] = None /\ j \notin doomed /\ j # None
        /\ \A v \in Writers : write[v].id # j
        /\ \A s \in Savers : save[s].id # j
    BY <2>1 DEF Fresh, IdsKnown
  <2> QED
    BY <2>2, <2>3, <2>4 DEF PointFirst, NewWrite, NewSave, JobsFit
<1>6. ASSUME NEW w \in Writers, CommitWrite(w) PROVE PointFirst'
  <2>1. /\ write' = [write EXCEPT ![w] = IdleWrite] /\ UNCHANGED <<points, save, doomed>>
        /\ write[w].pc = "commit"
        /\ write[w].old => rows[write[w].id] # None
        /\ \A i \in Ids : i # write[w].id => rows'[i] = rows[i]
    BY <1>6 DEF CommitWrite, Typed
  <2>2. write[w].id \in Ids
    BY <2>1 DEF JobsFit
  <2>3. ~NewWrite(w)' /\ \A v \in Writers \ {w} : write'[v] = write[v]
    BY <2>1 DEF NewWrite, IdleWrite, Typed
  <2> QED
    BY <2>1, <2>2, <2>3 DEF PointFirst, NewWrite, NewSave, JobsFit
<1>7. ASSUME NEW s \in Savers, BeginSave(s) PROVE PointFirst'
  <2>1. PICK j \in Fresh, end \in 1..LastPage :
          save' = [save EXCEPT ![s] = [pc |-> "flushed", id |-> j, end |-> end]]
    BY <1>7 DEF BeginSave
  <2>2. UNCHANGED <<rows, points, write, doomed>>
    BY <1>7 DEF BeginSave
  <2>3. /\ save'[s].id = j /\ save'[s].pc = "flushed"
        /\ \A t \in Savers \ {s} : save'[t] = save[t]
    BY <2>1 DEF Typed
  <2>4. /\ rows[j] = None /\ j \notin doomed /\ j # None
        /\ \A v \in Writers : write[v].id # j
        /\ \A t \in Savers : save[t].id # j
    BY <2>1 DEF Fresh, IdsKnown
  <2> QED
    BY <2>2, <2>3, <2>4 DEF PointFirst, NewWrite, NewSave
<1>8. ASSUME NEW s \in Savers, UpsertSummary(s) PROVE PointFirst'
  <2>1. /\ points' = [points EXCEPT ![save[s].id] = Recap(save[s].end)]
        /\ save' = [save EXCEPT ![s].pc = "commit"] /\ save[s].pc = "flushed"
        /\ UNCHANGED <<rows, write, doomed>>
    BY <1>8 DEF UpsertSummary
  <2>2. save[s].id \in Ids /\ save[s].end \in 1..LastPage
    BY <2>1 DEF JobsFit
  <2>3. \A i \in Ids : points[i] # None \/ i = save[s].id => points'[i] # None
    BY <2>1, <2>2, MemoryShape DEF Typed
  <2>4. \A t \in Savers : save'[t].id = save[t].id /\ (NewSave(t)' <=> NewSave(t))
    BY <2>1 DEF Typed, Save, NewSave
  <2>5. \A t \in Savers \ {s} : save'[t] = save[t]
    BY <2>1 DEF Typed
  <2> QED
    BY <2>1, <2>2, <2>3, <2>4, <2>5 DEF PointFirst, NewWrite, NewSave, JobsFit
<1>9. ASSUME NEW s \in Savers, CommitSave(s) \/ AbortSave(s) PROVE PointFirst'
  <2>1. /\ save' = [save EXCEPT ![s] = IdleSave] /\ save[s].pc # "idle"
        /\ UNCHANGED <<points, write, doomed>>
        /\ \A i \in Ids : i # save[s].id \/ save[s].pc # "commit" => rows'[i] = rows[i]
    BY <1>9 DEF CommitSave, AbortSave, Typed
  <2>2. save[s].id \in Ids
    BY <2>1 DEF JobsFit
  <2>3. ~NewSave(s)' /\ \A t \in Savers \ {s} : save'[t] = save[t]
    BY <2>1 DEF NewSave, IdleSave, Typed
  <2> QED
    BY <2>1, <2>2, <2>3 DEF PointFirst, NewWrite, NewSave, JobsFit
<1>10. ASSUME NEW d \in Deleters, BeginDelete(d) PROVE PointFirst'
  <2>1. PICK j \in Has(rows) : doomed' = doomed \cup {j}
    BY <1>10 DEF BeginDelete
  <2>2. UNCHANGED <<rows, points, write, save>>
    BY <1>10 DEF BeginDelete
  <2> QED
    BY <2>1, <2>2 DEF PointFirst, NewWrite, NewSave
<1>11. ASSUME NEW d \in Deleters, DeletePoint(d) \/ DeleteRow(d) \/ AbortDelete(d)
       PROVE  PointFirst'
  <2>1. /\ UNCHANGED <<write, save, doomed>>
        /\ \A i \in Ids \ doomed : points'[i] = points[i] /\ rows'[i] = rows[i]
        /\ \A i \in Ids : rows[i] = None => rows'[i] = None
    BY <1>11 DEF DeletePoint, DeleteRow, AbortDelete, Typed, IdsKnown, JobsFit
  <2> QED
    BY <2>1 DEF PointFirst, NewWrite, NewSave, JobsFit
<1>12. CASE DeleteDocument
  BY <1>12 DEF DeleteDocument, PointFirst, NewWrite, NewSave, JobsFit, Typed
<1> QED
  BY <1>1, <1>3, <1>4, <1>5, <1>6, <1>7, <1>8, <1>9, <1>10, <1>11, <1>12 DEF Next

LEMMA PointFirstInvariant == Spec => [](TypeOK /\ OneNature /\ PointFirst)
<1>1. Init => PointFirst
  BY DEF Init, PointFirst, Has, NewWrite, NewSave, IdleWrite, IdleSave
<1>2. TypeOK /\ PointFirst /\ [Next]_vars => PointFirst'
  BY PointFirstStep
<1> QED
  BY <1>1, <1>2, NatureInvariant, PTL DEF Spec

\* A committed memory is found by recall until its deletion begins, with any number of
\* jobs that merge, save, delete, fail and die in any order.
THEOREM RowsAlwaysRecallable == Spec => []RowsAreRecallable
<1>1. TypeOK /\ OneNature /\ PointFirst => RowsAreRecallable
  <2> SUFFICES ASSUME TypeOK, OneNature, PointFirst, NEW i \in Has(rows) \ doomed
               PROVE  i \in Recalled(rows[i].kind,
                                     IF rows[i].kind = "summary" THEN rows[i].end ELSE None)
    BY DEF RowsAreRecallable
  <2>1. i \in Ids /\ rows[i] # None /\ points[i] # None
    BY DEF PointFirst, Has
  <2> PICK n \in Memory : Fits(i, n)
    BY <2>1 DEF OneNature
  <2>2. /\ points[i].kind = rows[i].kind /\ points[i].end = rows[i].end
        /\ rows[i].kind = "summary" => rows[i].end # NoPage
    BY <2>1 DEF Fits, Alike
  <2>3. rows[i].end \in Nat
    BY <2>1, PageAssumption DEF TypeOK, Typed, Memory, NoPage
  <2> QED
    BY <2>1, <2>2, <2>3 DEF Recalled, Within, Has
<1> QED
  BY <1>1, PointFirstInvariant, PTL

-----------------------------------------------------------------------------
\* Where a deletion stands; a point that comes back is marked in torn.
Forgetting ==
  /\ \A i \in gone : rows[i] = None
  /\ \A i \in gone \ torn : points[i] = None
  /\ \A d \in Deleters : del[d].pc = "row" /\ del[d].id \notin torn => points[del[d].id] = None

LEMMA ForgettingStep ==
  ASSUME TypeOK, PointFirst, Forgetting, [Next]_vars
  PROVE  Forgetting'
<1> USE NoneAssumption DEF TypeOK, history, Has
<1>1. CASE UNCHANGED vars
  BY <1>1 DEF vars, Forgetting
<1>2. ASSUME NEW w \in Writers, BeginWrite(w) \/ Search(w) \/ LoadHit(w) \/ AbortWrite(w)
      PROVE  Forgetting'
  <2>1. UNCHANGED <<rows, points, del, gone>> /\ torn \subseteq torn'
    BY <1>2 DEF BeginWrite, Search, LoadHit, AbortWrite
  <2> QED
    BY <2>1 DEF Forgetting
<1>3. ASSUME NEW w \in Writers, UpsertMerged(w) PROVE Forgetting'
  <2>1. /\ UNCHANGED <<rows, del, gone>> /\ torn \subseteq torn'
        /\ \A i \in Ids : i # write[w].id => points'[i] = points[i]
        /\ write[w].id \in doomed => write[w].id \in torn'
    BY <1>3 DEF UpsertMerged, Typed
  <2>2. \A d \in Deleters : del[d].pc = "row" => del[d].id \in doomed
    BY DEF JobsFit, IdsKnown
  <2> QED
    BY <2>1, <2>2 DEF Forgetting, Typed, IdsKnown
<1>4. ASSUME NEW w \in Writers, UpsertNew(w) PROVE Forgetting'
  <2>1. PICK j \in Fresh : points' = [points EXCEPT ![j] = Fact(write[w].kind, write[w].text)]
    BY <1>4 DEF UpsertNew
  <2>2. UNCHANGED <<rows, del, gone, torn>>
    BY <1>4 DEF UpsertNew
  <2>3. j \notin doomed /\ \A d \in Deleters : del[d].pc = "row" => del[d].id \in doomed
    BY DEF JobsFit, IdsKnown, Fresh
  <2> QED
    BY <2>1, <2>2, <2>3 DEF Forgetting, Typed, IdsKnown
<1>5. ASSUME NEW w \in Writers, CommitWrite(w) PROVE Forgetting'
  <2>1. /\ UNCHANGED <<points, del, gone, torn>> /\ write[w].pc = "commit"
        /\ write[w].old => rows[write[w].id] # None
        /\ \A i \in Ids : i # write[w].id => rows'[i] = rows[i]
    BY <1>5 DEF CommitWrite, Typed
  <2>2. write[w].id \notin gone
    BY <2>1 DEF Forgetting, PointFirst, NewWrite, IdsKnown
  <2> QED
    BY <2>1, <2>2 DEF Forgetting, Typed
<1>6. ASSUME NEW s \in Savers, BeginSave(s) \/ UpsertSummary(s) \/ CommitSave(s) \/ AbortSave(s)
      PROVE  Forgetting'
  <2>1. /\ UNCHANGED <<del, gone, torn>>
        /\ \A i \in Ids : save[s].pc = "idle" \/ i # save[s].id
                          => rows'[i] = rows[i] /\ points'[i] = points[i]
    BY <1>6 DEF BeginSave, UpsertSummary, CommitSave, AbortSave, Typed
  <2>2. save[s].pc # "idle" => save[s].id \notin doomed
    BY DEF PointFirst, NewSave
  <2>3. \A d \in Deleters : del[d].pc = "row" => del[d].id \in doomed
    BY DEF JobsFit, IdsKnown
  <2> QED
    BY <2>1, <2>2, <2>3 DEF Forgetting, Typed, IdsKnown
<1>7. ASSUME NEW d \in Deleters, BeginDelete(d) PROVE Forgetting'
  <2>1. UNCHANGED <<rows, points, gone>> /\ torn \subseteq torn'
        /\ \E i \in Ids : del' = [del EXCEPT ![d] = [pc |-> "point", id |-> i]]
    BY <1>7 DEF BeginDelete
  <2> QED
    BY <2>1 DEF Forgetting, Typed
<1>8. ASSUME NEW d \in Deleters, DeletePoint(d) PROVE Forgetting'
  BY <1>8 DEF DeletePoint, Forgetting, Typed, Del, JobsFit
<1>9. ASSUME NEW d \in Deleters, DeleteRow(d) PROVE Forgetting'
  <2>1. /\ rows' = [rows EXCEPT ![del[d].id] = None] /\ gone' = gone \cup {del[d].id}
        /\ del' = [del EXCEPT ![d] = IdleDel] /\ del[d].pc = "row"
        /\ UNCHANGED <<points, torn>>
    BY <1>9 DEF DeleteRow
  <2> QED
    BY <2>1 DEF Forgetting, Typed, IdleDel, JobsFit
<1>10. ASSUME NEW d \in Deleters, AbortDelete(d) PROVE Forgetting'
  BY <1>10 DEF AbortDelete, Forgetting, Typed, IdleDel
<1>11. CASE DeleteDocument
  BY <1>11 DEF DeleteDocument, Forgetting, Typed
<1> QED
  BY <1>1, <1>2, <1>3, <1>4, <1>5, <1>6, <1>7, <1>8, <1>9, <1>10, <1>11 DEF Next

\* A confirmed deletion leaves nothing behind, unless a merge into that memory was
\* under way.
THEOREM DeletedAlwaysForgotten == Spec => []DeletedIsForgotten
<1>1. Init => Forgetting
  BY DEF Init, Forgetting, IdleDel
<1>2. TypeOK /\ PointFirst /\ Forgetting /\ [Next]_vars => Forgetting'
  BY ForgettingStep
<1>3. Forgetting => DeletedIsForgotten
  BY DEF Forgetting, DeletedIsForgotten
<1> QED
  BY <1>1, <1>2, <1>3, PointFirstInvariant, PTL DEF Spec

\* What was saved is never lost nor collapsed into a fact of another kind by a merge.
THEOREM SaidAlwaysKept == Spec => []SaidIsKept
<1>1. Init => SaidIsKept
  BY DEF Init, SaidIsKept
<1>2. TypeOK /\ OneNature /\ PointFirst /\ SaidIsKept /\ [Next]_vars => SaidIsKept'
  <2> SUFFICES ASSUME TypeOK, OneNature, PointFirst, SaidIsKept, [Next]_vars,
                      NEW f \in said'
               PROVE  \E i \in Has(rows)' : rows'[i].kind = f[1] /\ Meaning[rows'[i].text] = f[2]
    BY DEF SaidIsKept
  <2> USE NoneAssumption DEF TypeOK, history, Has
  <2>1. ASSUME said' \subseteq said,
               \A i \in Has(rows) : rows[i].kind \in Kinds => rows'[i] = rows[i]
        PROVE  \E i \in Has(rows)' : rows'[i].kind = f[1] /\ Meaning[rows'[i].text] = f[2]
    <3>1. f \in said /\ f[1] \in Kinds
      BY <2>1 DEF Typed
    <3> QED
      BY <2>1, <3>1 DEF SaidIsKept
  <2>2. CASE UNCHANGED vars
    BY <2>1, <2>2 DEF vars
  <2>3. ASSUME NEW w \in Writers,
               \/ BeginWrite(w) \/ Search(w) \/ LoadHit(w) \/ UpsertMerged(w) \/ UpsertNew(w)
               \/ AbortWrite(w)
        PROVE  UNCHANGED <<rows, said>>
    BY <2>3 DEF BeginWrite, Search, LoadHit, UpsertMerged, UpsertNew, AbortWrite
  <2>4. ASSUME NEW w \in Writers, CommitWrite(w)
        PROVE  \E i \in Has(rows)' : rows'[i].kind = f[1] /\ Meaning[rows'[i].text] = f[2]
    <3>1. write[w].pc = "commit"
      BY <2>4 DEF CommitWrite
    <3>2. write[w].kind \in Kinds /\ write[w].text \in Texts
      BY <3>1 DEF JobsFit
    <3> PICK j \in Ids : j = write[w].id
      BY <3>1 DEF JobsFit
    <3>3. /\ write[w].old => rows[j] # None
          /\ rows' = [rows EXCEPT ![j] = IF write[w].old THEN [rows[j] EXCEPT !.text = write[w].text]
                                          ELSE Fact(write[w].kind, write[w].text)]
          /\ said' = said \cup {<<write[w].kind, Meaning[write[w].text]>>}
      BY <2>4 DEF CommitWrite
    <3> PICK n \in Memory : Fits(j, n)
      BY DEF OneNature
    <3>4. /\ rows'[j].kind = write[w].kind /\ rows'[j].text = write[w].text /\ rows'[j] # None
          /\ rows[j] # None => /\ rows[j].kind = write[w].kind
                               /\ Meaning[rows[j].text] = Meaning[write[w].text]
      <4>1. n.kind = write[w].kind /\ n.text # None /\ Meaning[n.text] = Meaning[write[w].text]
        BY <3>2 DEF Fits, Alike, Fact
      <4>2. CASE write[w].old
        <5>1. rows'[j] = [rows[j] EXCEPT !.text = write[w].text] /\ rows[j] # None
          BY <3>3, <4>2 DEF Typed
        <5>2. rows[j] \in Memory /\ Alike(rows[j], n)
          BY <5>1 DEF Fits, Typed
        <5>3. rows'[j] \in Memory /\ rows'[j].kind = rows[j].kind /\ rows'[j].text = write[w].text
          BY <3>2, <5>1, <5>2 DEF Memory
        <5> QED
          BY <4>1, <5>2, <5>3, NoMemoryAssumption DEF Alike
      <4>3. CASE ~write[w].old
        <5>1. rows'[j] = Fact(write[w].kind, write[w].text)
          BY <3>3, <4>3 DEF Typed
        <5>2. rows[j] = None
          BY <3>1, <4>3 DEF PointFirst, NewWrite
        <5> QED
          BY <3>2, <5>1, <5>2, MemoryShape, NoMemoryAssumption DEF Fact
      <4> QED
        BY <4>2, <4>3
    <3>5. CASE f = <<write[w].kind, Meaning[write[w].text]>>
      BY <3>2, <3>4, <3>5
    <3>6. CASE f \in said
      <4>1. PICK i \in Has(rows) : rows[i].kind = f[1] /\ Meaning[rows[i].text] = f[2]
        BY <3>6 DEF SaidIsKept
      <4>2. i # j => rows'[i] = rows[i]
        BY <3>3, <4>1 DEF Typed
      <4> QED
        BY <3>4, <4>1, <4>2
    <3> QED
      BY <3>3, <3>5, <3>6
  <2>5. ASSUME NEW s \in Savers, BeginSave(s) \/ UpsertSummary(s) \/ CommitSave(s) \/ AbortSave(s)
        PROVE  said' \subseteq said /\ \A i \in Has(rows) : rows'[i] = rows[i]
    <3>1. said' = said /\ \A i \in Ids : i # save[s].id \/ save[s].pc = "idle" => rows'[i] = rows[i]
      BY <2>5 DEF BeginSave, UpsertSummary, CommitSave, AbortSave, Typed
    <3>2. save[s].pc # "idle" => rows[save[s].id] = None
      BY DEF PointFirst, NewSave
    <3> QED
      BY <3>1, <3>2
  <2>6. ASSUME NEW d \in Deleters, DeleteRow(d)
        PROVE  \E i \in Has(rows)' : rows'[i].kind = f[1] /\ Meaning[rows'[i].text] = f[2]
    <3> DEFINE j == del[d].id
    <3>1. /\ rows' = [rows EXCEPT ![j] = None]
          /\ said' = IF rows[j] = None \/ rows[j].text = None THEN said
                     ELSE said \ {<<rows[j].kind, Meaning[rows[j].text]>>}
          /\ del[d].pc = "row"
      BY <2>6 DEF DeleteRow
    <3>2. j \in Ids
      BY <3>1 DEF JobsFit
    <3>3. f \in said
      BY <3>1
    <3>4. f \in Kinds \X {Meaning[t] : t \in Texts}
      BY <3>3 DEF Typed
    <3>5. PICK i \in Has(rows) : rows[i].kind = f[1] /\ Meaning[rows[i].text] = f[2]
      BY <3>3 DEF SaidIsKept
    <3> PICK n \in Memory : Fits(i, n)
      BY <3>5 DEF OneNature
    <3>6. rows[i].text # None
      BY <3>4, <3>5 DEF Fits, Alike
    <3>7. f = <<rows[i].kind, Meaning[rows[i].text]>>
      BY <3>4, <3>5
    <3>8. i # j
      BY <3>1, <3>5, <3>6, <3>7
    <3> QED
      BY <3>1, <3>5, <3>8 DEF Typed
  <2>7. ASSUME NEW d \in Deleters, BeginDelete(d) \/ DeletePoint(d) \/ AbortDelete(d)
        PROVE  UNCHANGED <<rows, said>>
    BY <2>7 DEF BeginDelete, DeletePoint, AbortDelete
  <2>8. CASE DeleteDocument
    BY <2>1, <2>8 DEF DeleteDocument
  <2> QED
    BY <2>1, <2>2, <2>3, <2>4, <2>5, <2>6, <2>7, <2>8 DEF Next
<1> QED
  BY <1>1, <1>2, PointFirstInvariant, PTL DEF Spec

-----------------------------------------------------------------------------
\* Writers whose point is stored and whose row is about to be.
Due(w) == write[w].pc = "commit"

\* A memory that no two merges, and no merge and failure, met on: its point is that of
\* the one writer which is about to commit it, or else that of its row.
InStep ==
  /\ \A w \in Writers : Due(w) /\ write[w].id \notin torn =>
       /\ points[write[w].id] = Fact(write[w].kind, write[w].text)
       /\ write[w].id \notin doomed
       /\ \A v \in Writers \ {w} : Due(v) => write[v].id # write[w].id
  /\ \A i \in (Has(rows) \cap Has(points)) \ torn :
       (\A w \in Writers : Due(w) => write[w].id # i) => points[i] = rows[i]

LEMMA InStepStep ==
  ASSUME TypeOK, OneNature, PointFirst, InStep, [Next]_vars
  PROVE  InStep'
<1> USE NoneAssumption DEF TypeOK, history, Has
<1>1. CASE UNCHANGED vars
  BY <1>1 DEF vars, InStep, Due
<1>2. ASSUME NEW w \in Writers, BeginWrite(w) \/ Search(w) \/ LoadHit(w) PROVE InStep'
  <2>1. UNCHANGED <<rows, points, doomed, torn>> /\ ~Due(w)
    BY <1>2 DEF BeginWrite, Search, LoadHit, Due
  <2>2. ~Due(w)' /\ \A v \in Writers \ {w} : write'[v] = write[v]
    <3>1. CASE BeginWrite(w)
      BY <3>1 DEF BeginWrite, Typed, IdleWrite, Due
    <3>2. CASE Search(w)
      BY <3>2 DEF Search, Typed, Write, Due
    <3>3. CASE LoadHit(w)
      BY <3>3 DEF LoadHit, Typed, Write, Due
    <3> QED
      BY <1>2, <3>1, <3>2, <3>3
  <2> QED
    BY <2>1, <2>2 DEF InStep, Due
<1>3. ASSUME NEW w \in Writers, UpsertMerged(w) PROVE InStep'
  <2> PICK j \in Ids : j = write[w].id
    BY <1>3 DEF UpsertMerged, JobsFit
  <2>1. /\ points' = [points EXCEPT ![j] = Fact(write[w].kind, write[w].text)]
        /\ write' = [write EXCEPT ![w].pc = "commit"] /\ write[w].pc = "merge"
        /\ UNCHANGED <<rows, doomed>>
    BY <1>3 DEF UpsertMerged
  <2>2. /\ torn \subseteq torn'
        /\ j \notin torn' => j \notin doomed /\ \A v \in Writers \ {w} : Due(v) => write[v].id # j
    BY <1>3 DEF UpsertMerged, Merging, Due
  <2>3. /\ write'[w].id = j /\ write'[w].kind = write[w].kind /\ write'[w].text = write[w].text
        /\ Due(w)' /\ ~Due(w)
        /\ \A v \in Writers \ {w} : write'[v] = write[v]
    BY <2>1 DEF Typed, Write, Due
  <2>4. points'[j] = Fact(write[w].kind, write[w].text) /\ \A i \in Ids \ {j} : points'[i] = points[i]
    BY <2>1 DEF Typed
  <2>5. \A v \in Writers : Due(v) => write[v].id \in Ids
    BY DEF JobsFit, Due
  <2> QED
    BY <2>1, <2>2, <2>3, <2>4, <2>5 DEF InStep, Due
<1>4. ASSUME NEW w \in Writers, UpsertNew(w) PROVE InStep'
  <2>1. PICK j \in Fresh :
          /\ points' = [points EXCEPT ![j] = Fact(write[w].kind, write[w].text)]
          /\ write' = [write EXCEPT ![w].pc = "commit", ![w].id = j]
    BY <1>4 DEF UpsertNew
  <2>2. UNCHANGED <<rows, doomed, torn>> /\ write[w].pc = "add"
    BY <1>4 DEF UpsertNew
  <2>3. /\ write'[w].id = j /\ write'[w].kind = write[w].kind /\ write'[w].text = write[w].text
        /\ Due(w)' /\ ~Due(w)
        /\ \A v \in Writers \ {w} : write'[v] = write[v]
    BY <2>1, <2>2 DEF Typed, Write, Due
  <2>4. /\ points'[j] = Fact(write[w].kind, write[w].text)
        /\ \A i \in Ids \ {j} : points'[i] = points[i]
    BY <2>1 DEF Typed, Fresh
  <2>5. /\ j \in Ids /\ rows[j] = None /\ j \notin doomed
        /\ \A v \in Writers : write[v].id # j
    BY <2>1 DEF Fresh, IdsKnown
  <2>6. \A v \in Writers : Due(v) => write[v].id \in Ids
    BY DEF JobsFit, Due
  <2> QED
    BY <2>2, <2>3, <2>4, <2>5, <2>6 DEF InStep, Due
<1>5. ASSUME NEW w \in Writers, CommitWrite(w) PROVE InStep'
  <2>1. write[w].pc = "commit"
    BY <1>5 DEF CommitWrite
  <2>2. write[w].kind \in Kinds /\ write[w].text \in Texts
    BY <2>1 DEF JobsFit
  <2> PICK j \in Ids : j = write[w].id
    BY <2>1 DEF JobsFit
  <2>3. /\ write[w].old => rows[j] # None
        /\ rows' = [rows EXCEPT ![j] = IF write[w].old THEN [rows[j] EXCEPT !.text = write[w].text]
                                        ELSE Fact(write[w].kind, write[w].text)]
        /\ write' = [write EXCEPT ![w] = IdleWrite]
        /\ UNCHANGED <<points, doomed, torn>>
    BY <1>5 DEF CommitWrite
  <2>4. rows'[j] = Fact(write[w].kind, write[w].text) /\ \A i \in Ids \ {j} : rows'[i] = rows[i]
    <3> PICK n \in Memory : Fits(j, n)
      BY DEF OneNature
    <3>1. n.kind = write[w].kind /\ n.end = NoPage
      BY DEF Fits, Alike, Fact
    <3>2. CASE write[w].old
      <4>1. rows[j] \in Memory /\ Alike(rows[j], n)
        BY <2>3, <3>2 DEF Fits, Typed
      <4>2. rows'[j] = [rows[j] EXCEPT !.text = write[w].text]
        BY <2>3, <3>2 DEF Typed
      <4>3. /\ rows[j] = [kind |-> rows[j].kind, text |-> rows[j].text, end |-> rows[j].end]
            /\ rows[j].kind = write[w].kind /\ rows[j].end = NoPage
        BY <3>1, <4>1 DEF Memory, Alike
      <4> QED
        BY <2>3, <4>2, <4>3 DEF Fact, Typed
    <3>3. CASE ~write[w].old
      BY <2>3, <3>3 DEF Typed
    <3> QED
      BY <3>2, <3>3
  <2>5. /\ ~Due(w)' /\ Due(w) /\ \A v \in Writers \ {w} : write'[v] = write[v]
    BY <2>1, <2>3 DEF Typed, IdleWrite, Due
  <2> QED
    BY <2>3, <2>4, <2>5 DEF InStep, Due
<1>6. ASSUME NEW w \in Writers, AbortWrite(w) PROVE InStep'
  <2>1. /\ write' = [write EXCEPT ![w] = IdleWrite] /\ UNCHANGED <<rows, points, doomed>>
        /\ torn \subseteq torn'
        /\ write[w].pc = "commit" /\ write[w].old => write[w].id \in torn'
    BY <1>6 DEF AbortWrite
  <2>2. write[w].pc = "commit" /\ ~write[w].old => rows[write[w].id] = None
    BY DEF PointFirst, NewWrite
  <2>3. ~Due(w)' /\ \A v \in Writers \ {w} : write'[v] = write[v]
    BY <2>1 DEF Typed, IdleWrite, Due
  <2> QED
    BY <2>1, <2>2, <2>3 DEF InStep, Due
<1>7. ASSUME NEW s \in Savers, BeginSave(s) \/ AbortSave(s) PROVE InStep'
  BY <1>7 DEF BeginSave, AbortSave, InStep, Due
<1>8. ASSUME NEW s \in Savers, UpsertSummary(s) \/ CommitSave(s) PROVE InStep'
  <2> PICK j \in Ids : j = save[s].id
    BY <1>8 DEF UpsertSummary, CommitSave, JobsFit
  <2>1. rows[j] = None /\ (CommitSave(s) => points[j] # None)
    BY <1>8 DEF UpsertSummary, CommitSave, PointFirst, NewSave
  <2> PICK n \in Memory : Fits(j, n)
    BY DEF OneNature
  <2>2. n.kind = "summary" /\ n.text = None /\ n.end = save[s].end
    BY DEF Fits, Alike, Recap
  <2>3. \A w \in Writers : Due(w) => write[w].id # j
    <3> SUFFICES ASSUME NEW w \in Writers, Due(w), write[w].id = j PROVE FALSE
      OBVIOUS
    <3>1. write[w].kind \in Kinds
      BY DEF Due, JobsFit
    <3>2. n.kind = write[w].kind
      BY DEF Fits, Alike, Fact
    <3> QED
      BY <2>2, <3>1, <3>2
  <2>4. CASE UpsertSummary(s)
    <3>1. /\ \A i \in Ids \ {j} : points'[i] = points[i]
          /\ UNCHANGED <<rows, write, doomed, torn>>
      BY <2>4 DEF UpsertSummary, Typed
    <3>2. \A w \in Writers : Due(w) => write[w].id \in Ids
      BY DEF JobsFit, Due
    <3> QED
      BY <2>1, <2>3, <3>1, <3>2 DEF InStep, Due
  <2>5. CASE CommitSave(s)
    <3>1. /\ rows'[j] = Recap(save[s].end) /\ \A i \in Ids \ {j} : rows'[i] = rows[i]
          /\ UNCHANGED <<points, write, doomed, torn>>
      BY <2>5 DEF CommitSave, Typed
    <3>2. points[j] \in Memory /\ Alike(points[j], n)
      BY <2>1, <2>5 DEF Fits, Typed
    <3>3. points[j] = [kind |-> points[j].kind, text |-> points[j].text, end |-> points[j].end]
      BY <3>2 DEF Memory
    <3>4. points[j] = Recap(save[s].end)
      BY <2>2, <3>2, <3>3 DEF Alike, Recap
    <3> QED
      BY <3>1, <3>4 DEF InStep, Due
  <2> QED
    BY <1>8, <2>4, <2>5
<1>9. ASSUME NEW d \in Deleters, BeginDelete(d) PROVE InStep'
  <2>1. PICK j \in Has(rows) : /\ doomed' = doomed \cup {j}
                              /\ torn' = IF Merging(j) = {} THEN torn ELSE torn \cup {j}
    BY <1>9 DEF BeginDelete
  <2>2. UNCHANGED <<rows, points, write>>
    BY <1>9 DEF BeginDelete
  <2>3. \A w \in Writers : Due(w) /\ write[w].id = j => j \in torn'
    BY <2>1 DEF Merging, Due
  <2> QED
    BY <2>1, <2>2, <2>3 DEF InStep, Due
<1>10. ASSUME NEW d \in Deleters, DeletePoint(d) \/ DeleteRow(d) \/ AbortDelete(d)
       PROVE  InStep'
  <2>1. /\ UNCHANGED <<write, doomed, torn>>
        /\ \A i \in Ids \ doomed : points'[i] = points[i]
        /\ \A i \in Ids : /\ points'[i] \in {points[i], None}
                          /\ rows'[i] \in {rows[i], None}
    BY <1>10 DEF DeletePoint, DeleteRow, AbortDelete, Typed, IdsKnown, JobsFit
  <2>2. \A w \in Writers : Due(w) => write[w].id \in Ids
    BY DEF JobsFit, Due
  <2> QED
    BY <2>1, <2>2 DEF InStep, Due
<1>11. CASE DeleteDocument
  BY <1>11 DEF DeleteDocument, InStep, Due, Typed
<1> QED
  BY <1>1, <1>2, <1>3, <1>4, <1>5, <1>6, <1>7, <1>8, <1>9, <1>10, <1>11 DEF Next

\* A memory is found by what it says now, through any number of restatements,
\* unless two merges, or a merge and a failure, met on it.
THEOREM VectorAlwaysMatchesText == Spec => []VectorMatchesText
<1>1. Init => InStep
  BY DEF Init, InStep, Due, IdleWrite, Has
<1>2. TypeOK /\ OneNature /\ PointFirst /\ InStep /\ [Next]_vars => InStep'
  BY InStepStep
<1>3. InStep => VectorMatchesText
  BY DEF InStep, VectorMatchesText, Merging, Due
<1> QED
  BY <1>1, <1>2, <1>3, PointFirstInvariant, PTL DEF Spec

-----------------------------------------------------------------------------
\* The point of i means what the text says, in that kind.
Restates(i, kind, text) ==
  points[i] # None /\ points[i].kind = kind /\ Meaning[points[i].text] = Meaning[text]

\* While no two facts of one kind are saved at once and no point lost its row: a fact's
\* point without a row is about to get it, two points never restate each other, and a
\* writer past its search is the only one whose fact has that meaning.
Distinct ==
  /\ \A w, v \in Writers : w # v /\ write[w].pc # "idle" /\ write[v].pc # "idle"
                            => write[w].kind # write[v].kind
  /\ \A i \in Has(points) : points[i].kind \in Kinds /\ rows[i] = None
                            => \E w \in Writers : Due(w) /\ write[w].id = i
  /\ \A i, j \in Has(points) : i # j /\ points[i].kind \in Kinds
                               => ~Restates(j, points[i].kind, points[i].text)
  /\ \A w \in Writers : write[w].pc \notin {"idle", "search"} =>
       \A j \in Ids \ {write[w].id} : ~Restates(j, write[w].kind, write[w].text)

LEMMA DistinctWrite ==
  ASSUME TypeOK, OneNature, PointFirst, Distinct, NEW w \in Writers,
         \/ BeginWrite(w) \/ Search(w) \/ LoadHit(w) \/ UpsertMerged(w) \/ UpsertNew(w)
         \/ CommitWrite(w) \/ AbortWrite(w),
         ~crossed', ~stray'
  PROVE  Distinct'
<1> USE NoneAssumption DEF TypeOK, history, Has
<1>1. CASE BeginWrite(w)
  <2>1. PICK kind \in Kinds, text \in Texts :
          /\ write' = [write EXCEPT ![w] = [IdleWrite EXCEPT !.pc = "search", !.kind = kind,
                                                             !.text = text]]
          /\ crossed' = (crossed \/ \E v \in Writers \ {w} : write[v].kind = kind)
    BY <1>1 DEF BeginWrite
  <2>2. UNCHANGED <<rows, points>> /\ write[w].pc = "idle"
    BY <1>1 DEF BeginWrite
  <2>3. \A v \in Writers \ {w} : write[v].kind # kind
    BY <2>1
  <2>4. /\ write'[w].pc = "search" /\ write'[w].kind = kind
        /\ \A v \in Writers \ {w} : write'[v] = write[v]
    BY <2>1 DEF Typed, IdleWrite
  <2> QED
    BY <2>2, <2>3, <2>4 DEF Distinct, Due, Restates
<1>2. CASE Search(w)
  <2>1. UNCHANGED <<rows, points>> /\ write[w].pc = "search"
    BY <1>2 DEF Search
  <2>2. write[w].kind \in Kinds /\ write[w].text \in Texts
    BY <2>1 DEF JobsFit
  <2>3. Near(write[w].kind, write[w].text) = {i \in Ids : Restates(i, write[w].kind, write[w].text)}
    BY DEF Near, Restates
  <2>4. CASE /\ Nearest(write[w].kind, write[w].text) = {}
             /\ write' = [write EXCEPT ![w].pc = "add"]
    <3>1. \A i \in Ids : ~Restates(i, write[w].kind, write[w].text)
      BY <2>3, <2>4 DEF Nearest
    <3>2. /\ write'[w].kind = write[w].kind /\ write'[w].text = write[w].text
          /\ write'[w].pc = "add"
          /\ \A v \in Writers \ {w} : write'[v] = write[v]
      BY <2>4 DEF Typed, Write
    <3> QED
      BY <2>1, <3>1, <3>2 DEF Distinct, Due, Restates
  <2>5. ASSUME NEW i \in Nearest(write[w].kind, write[w].text),
               write' = [write EXCEPT ![w].pc = "load", ![w].id = i]
        PROVE  Distinct'
    <3>1. i \in Ids /\ Restates(i, write[w].kind, write[w].text)
      BY <2>3, <2>5 DEF Nearest
    <3>2. \A j \in Ids \ {i} : ~Restates(j, write[w].kind, write[w].text)
      BY <2>2, <3>1 DEF Distinct, Restates
    <3>3. /\ write'[w].kind = write[w].kind /\ write'[w].text = write[w].text
          /\ write'[w].pc = "load" /\ write'[w].id = i
          /\ \A v \in Writers \ {w} : write'[v] = write[v]
      BY <2>5 DEF Typed, Write
    <3> QED
      BY <2>1, <3>2, <3>3 DEF Distinct, Due, Restates
  <2> QED
    BY <1>2, <2>4, <2>5 DEF Search
<1>3. CASE LoadHit(w)
  <2>1. UNCHANGED <<rows, points>> /\ write[w].pc = "load"
    BY <1>3 DEF LoadHit
  <2>2. write[w].kind \in Kinds /\ write[w].text \in Texts
    BY <2>1 DEF JobsFit
  <2> PICK i \in Ids : i = write[w].id
    BY <2>1 DEF JobsFit
  <2>3. /\ write'[w].kind = write[w].kind /\ write'[w].text = write[w].text
        /\ \A v \in Writers \ {w} : write'[v] = write[v]
        /\ ~Due(w) /\ ~Due(w)' /\ write'[w].pc \in {"merge", "add"}
        /\ rows[i] # None => write'[w].id = i
    BY <1>3, <2>1 DEF LoadHit, Typed, Write, Due
  <2>4. rows[i] = None => ~Restates(i, write[w].kind, write[w].text)
    <3> SUFFICES ASSUME rows[i] = None, Restates(i, write[w].kind, write[w].text) PROVE FALSE
      OBVIOUS
    <3>1. PICK v \in Writers : Due(v) /\ write[v].id = i
      BY <2>2 DEF Distinct, Restates
    <3>2. write[v].kind = write[w].kind
      BY <3>1 DEF OneNature, Fits, Alike, Fact
    <3> QED
      BY <2>1, <3>1, <3>2 DEF Distinct, Due
  <2> QED
    BY <2>1, <2>3, <2>4 DEF Distinct, Due, Restates
<1>4. CASE UpsertMerged(w) \/ UpsertNew(w)
  <2>1. write[w].kind \in Kinds /\ write[w].text \in Texts
    BY <1>4 DEF UpsertMerged, UpsertNew, JobsFit
  <2>2. PICK j \in Ids :
          /\ points' = [points EXCEPT ![j] = Fact(write[w].kind, write[w].text)]
          /\ write'[w].id = j
          /\ \A i \in Ids \ {j} : ~Restates(i, write[w].kind, write[w].text)
    <3>1. CASE UpsertMerged(w)
      <4>1. PICK j \in Ids : j = write[w].id
        BY <3>1 DEF UpsertMerged, JobsFit
      <4>2. \A i \in Ids \ {j} : ~Restates(i, write[w].kind, write[w].text)
        BY <3>1, <4>1 DEF UpsertMerged, Distinct
      <4>3. write'[w].id = j
        BY <3>1, <4>1 DEF UpsertMerged, Typed, Write
      <4>4. points' = [points EXCEPT ![j] = Fact(write[w].kind, write[w].text)]
        BY <3>1, <4>1 DEF UpsertMerged
      <4> QED
        BY <4>2, <4>3, <4>4
    <3>2. CASE UpsertNew(w)
      <4>1. PICK j \in Fresh :
              /\ points' = [points EXCEPT ![j] = Fact(write[w].kind, write[w].text)]
              /\ write' = [write EXCEPT ![w].pc = "commit", ![w].id = j]
        BY <3>2 DEF UpsertNew
      <4>2. write[w].pc = "add" /\ points[j] = None
        BY <3>2, <4>1 DEF UpsertNew, Fresh, IdsKnown
      <4>3. \A i \in Ids : ~Restates(i, write[w].kind, write[w].text)
        BY <4>2 DEF Distinct, JobsFit
      <4>4. write'[w].id = j /\ j \in Ids
        BY <4>1 DEF Fresh, Typed, Write
      <4> QED
        BY <4>1, <4>3, <4>4
    <3> QED
      BY <1>4, <3>1, <3>2
  <2>3. /\ UNCHANGED rows
        /\ write'[w].kind = write[w].kind /\ write'[w].text = write[w].text
        /\ Due(w)' /\ ~Due(w) /\ write[w].pc # "idle"
        /\ \A v \in Writers \ {w} : write'[v] = write[v]
    BY <1>4 DEF UpsertMerged, UpsertNew, Typed, Write, Due
  <2>4. /\ points'[j].kind = write[w].kind /\ points'[j].text = write[w].text
        /\ points'[j] # None
        /\ \A i \in Ids \ {j} : points'[i] = points[i]
    BY <2>1, <2>2, MemoryShape, NoMemoryAssumption DEF Typed, Fact
  <2>5. \A i \in Ids \ {j} : \A kind, text : Restates(i, kind, text)' <=> Restates(i, kind, text)
    BY <2>4 DEF Restates
  <2>6. \A v \in Writers \ {w} : write[v].pc # "idle" => ~Restates(j, write[v].kind, write[v].text)'
    BY <2>3, <2>4 DEF Restates, Distinct
  <2> QED
    BY <2>2, <2>3, <2>4, <2>5, <2>6 DEF Distinct, Due, Restates
<1>5. CASE CommitWrite(w)
  <2>1. /\ write[w].pc = "commit" /\ UNCHANGED points
        /\ write' = [write EXCEPT ![w] = IdleWrite]
        /\ rows' = [rows EXCEPT ![write[w].id] =
                       IF write[w].old THEN [@ EXCEPT !.text = write[w].text]
                       ELSE Fact(write[w].kind, write[w].text)]
        /\ write[w].old => rows[write[w].id] # None
    BY <1>5 DEF CommitWrite
  <2>2. write[w].kind \in Kinds /\ write[w].text \in Texts /\ write[w].id \in Ids
    BY <2>1 DEF JobsFit
  <2>3. rows'[write[w].id] # None /\ \A i \in Ids \ {write[w].id} : rows'[i] = rows[i]
    <3>1. CASE write[w].old
      <4>1. rows[write[w].id] \in Memory
        BY <2>1, <2>2, <3>1 DEF Typed
      <4>2. [rows[write[w].id] EXCEPT !.text = write[w].text] \in Memory
        BY <2>2, <4>1 DEF Memory
      <4> QED
        BY <2>1, <2>2, <3>1, <4>2, NoMemoryAssumption DEF Typed
    <3>2. CASE ~write[w].old
      BY <2>1, <2>2, <3>2, MemoryShape, NoMemoryAssumption DEF Typed
    <3> QED
      BY <3>1, <3>2
  <2>4. write'[w].pc = "idle" /\ \A v \in Writers \ {w} : write'[v] = write[v]
    BY <2>1 DEF Typed, IdleWrite
  <2> QED
    BY <2>1, <2>3, <2>4 DEF Distinct, Due, Restates
<1>6. CASE AbortWrite(w)
  <2>1. /\ UNCHANGED <<rows, points>> /\ write' = [write EXCEPT ![w] = IdleWrite]
        /\ Due(w) => rows[write[w].id] # None
    BY <1>6 DEF AbortWrite, Due
  <2>2. write'[w].pc = "idle" /\ \A v \in Writers \ {w} : write'[v] = write[v]
    BY <2>1 DEF Typed, IdleWrite
  <2> QED
    BY <2>1, <2>2 DEF Distinct, Due, Restates
<1> QED
  BY <1>1, <1>2, <1>3, <1>4, <1>5, <1>6

LEMMA DistinctStep ==
  ASSUME TypeOK, OneNature, PointFirst, Distinct, [Next]_vars, ~crossed', ~stray'
  PROVE  Distinct'
<1> USE NoneAssumption DEF TypeOK, history, Has
<1>1. CASE UNCHANGED vars
  BY <1>1 DEF vars, Distinct, Due, Restates
<1>2. ASSUME NEW s \in Savers, BeginSave(s) \/ AbortSave(s) PROVE Distinct'
  BY <1>2 DEF BeginSave, AbortSave, Distinct, Due, Restates
<1>3. ASSUME NEW s \in Savers, UpsertSummary(s) PROVE Distinct'
  <2>1. /\ points' = [points EXCEPT ![save[s].id] = Recap(save[s].end)]
        /\ UNCHANGED <<rows, write>> /\ save[s].pc = "flushed"
    BY <1>3 DEF UpsertSummary
  <2>2. save[s].id \in Ids
    BY <2>1 DEF JobsFit
  <2>3. points'[save[s].id].kind = "summary" /\ \A i \in Ids \ {save[s].id} : points'[i] = points[i]
    BY <2>1, <2>2 DEF Typed, Recap
  <2>4. \A w \in Writers : write[w].pc # "idle" => write[w].kind \in Kinds
    BY DEF JobsFit
  <2> QED
    BY <2>1, <2>3, <2>4 DEF Distinct, Due, Restates
<1>4. ASSUME NEW s \in Savers, CommitSave(s) PROVE Distinct'
  <2>1. /\ UNCHANGED <<points, write>>
        /\ \A i \in Ids : rows[i] # None => rows'[i] # None
    BY <1>4, MemoryShape, NoMemoryAssumption DEF CommitSave, Typed, JobsFit
  <2> QED
    BY <2>1 DEF Distinct, Due, Restates
<1>5. ASSUME NEW d \in Deleters, BeginDelete(d) \/ AbortDelete(d) PROVE Distinct'
  BY <1>5 DEF BeginDelete, AbortDelete, Distinct, Due, Restates
<1>6. ASSUME NEW d \in Deleters, DeletePoint(d) PROVE Distinct'
  <2>1. /\ UNCHANGED <<rows, write>>
        /\ \A i \in Ids : points'[i] \in {points[i], None}
    BY <1>6 DEF DeletePoint, Typed
  <2> QED
    BY <2>1 DEF Distinct, Due, Restates
<1>7. ASSUME NEW d \in Deleters, DeleteRow(d) PROVE Distinct'
  <2>1. /\ UNCHANGED <<points, write>> /\ points[del[d].id] = None
        /\ \A i \in Ids \ {del[d].id} : rows'[i] = rows[i]
    BY <1>7 DEF DeleteRow, Typed
  <2> QED
    BY <2>1 DEF Distinct, Due, Restates
<1>8. CASE DeleteDocument
  <2>1. /\ UNCHANGED <<points, write>>
        /\ \A i \in Ids : rows'[i] # rows[i] => rows[i].kind = "summary" /\ rows[i] # None
    BY <1>8 DEF DeleteDocument, Typed
  <2>2. ASSUME NEW i \in Ids, points[i] # None, points[i].kind \in Kinds PROVE rows'[i] = rows[i]
    <3> PICK n \in Memory : Fits(i, n)
      BY DEF OneNature
    <3> QED
      BY <2>1, <2>2 DEF Fits, Alike
  <2> QED
    BY <2>1, <2>2 DEF Distinct, Due, Restates
<1> QED
  BY <1>1, <1>2, <1>3, <1>4, <1>5, <1>6, <1>7, <1>8, DistinctWrite DEF Next

\* Restating facts, one of a kind at a time, never piles up rows, whatever deletions
\* and failures do in between.
THEOREM NeverTwins == Spec => []NoTwins
<1> DEFINE Inv == ~crossed /\ ~stray => Distinct
<1>1. Init => Inv
  BY DEF Init, Distinct, Due, Restates, IdleWrite, Has
<1>2. TypeOK /\ OneNature /\ PointFirst /\ Inv /\ [Next]_vars => Inv'
  <2> SUFFICES ASSUME TypeOK, OneNature, PointFirst, Inv, [Next]_vars, ~crossed', ~stray'
               PROVE  Distinct'
    OBVIOUS
  <2>1. ~crossed /\ ~stray
    <3> USE DEF history
    <3>1. CASE UNCHANGED vars
      BY <3>1 DEF vars
    <3>2. ASSUME NEW w \in Writers,
                 \/ Search(w) \/ LoadHit(w) \/ UpsertMerged(w) \/ UpsertNew(w) \/ CommitWrite(w)
          PROVE  UNCHANGED <<crossed, stray>>
      BY <3>2 DEF Search, LoadHit, UpsertMerged, UpsertNew, CommitWrite
    <3>3. ASSUME NEW w \in Writers, BeginWrite(w) \/ AbortWrite(w)
          PROVE  ~crossed /\ ~stray
      <4>1. CASE BeginWrite(w)
        BY <4>1 DEF BeginWrite
      <4>2. CASE AbortWrite(w)
        BY <4>2 DEF AbortWrite
      <4> QED
        BY <3>3, <4>1, <4>2
    <3>4. ASSUME NEW s \in Savers, BeginSave(s) \/ UpsertSummary(s) \/ CommitSave(s) \/ AbortSave(s)
          PROVE  UNCHANGED <<crossed, stray>>
      BY <3>4 DEF BeginSave, UpsertSummary, CommitSave, AbortSave
    <3>6. ASSUME NEW d \in Deleters, BeginDelete(d) \/ DeletePoint(d) \/ AbortDelete(d)
          PROVE  UNCHANGED <<crossed, stray>>
      BY <3>6 DEF BeginDelete, DeletePoint, AbortDelete
    <3>7. ASSUME NEW d \in Deleters, DeleteRow(d)
          PROVE  ~crossed /\ ~stray
      BY <3>7 DEF DeleteRow
    <3>5. CASE DeleteDocument
      BY <3>5 DEF DeleteDocument
    <3> QED
      BY <3>1, <3>2, <3>3, <3>4, <3>5, <3>6, <3>7 DEF Next
  <2> QED
    BY <2>1, DistinctStep
<1>3. TypeOK /\ OneNature /\ PointFirst /\ Inv => NoTwins
  <2> SUFFICES ASSUME TypeOK, OneNature, PointFirst, Distinct,
                      NEW i \in Has(rows) \ doomed, NEW j \in Has(rows) \ doomed,
                      i # j, rows[i].text # None, rows[j].text # None,
                      rows[i].kind = rows[j].kind,
                      Meaning[rows[i].text] = Meaning[rows[j].text]
               PROVE  FALSE
    BY DEF NoTwins
  <2>1. /\ i \in Ids /\ j \in Ids /\ rows[i] # None /\ rows[j] # None
        /\ points[i] # None /\ points[j] # None
    BY DEF PointFirst, Has
  <2> PICK m \in Memory : Fits(i, m)
    BY <2>1 DEF OneNature
  <2> PICK n \in Memory : Fits(j, n)
    BY <2>1 DEF OneNature
  <2>2. /\ points[i].kind = rows[i].kind /\ points[j].kind = rows[j].kind
        /\ Meaning[points[i].text] = Meaning[rows[i].text]
        /\ Meaning[points[j].text] = Meaning[rows[j].text]
    BY <2>1 DEF Fits, Alike
  <2>3. points[i].kind \in Kinds
    BY <2>1, <2>2 DEF Fits, Alike, TypeOK, Typed, Memory
  <2> QED
    BY <2>1, <2>2, <2>3 DEF Distinct, Restates, Has
<1> QED
  BY <1>1, <1>2, <1>3, PointFirstInvariant, PTL DEF Spec
=============================================================================
