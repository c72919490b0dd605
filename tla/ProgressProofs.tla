--------------------------- MODULE ProgressProofs ---------------------------
(***************************************************************************)
(* Theorems about Progress's specification, for any number of requests,    *)
(* recaps and viewers, any bodies and any length of the document.          *)
(***************************************************************************)
EXTENDS Progress, FiniteSetTheorems, TLAPS

-----------------------------------------------------------------------------
\* Events added to the trail.
LEMMA TrailGrows ==
  ASSUME IsABag(trail), NEW new
  PROVE  /\ IsABag(trail (+) SetToBag(new))
         /\ BagToSet(trail (+) SetToBag(new)) = BagToSet(trail) \cup new
<1> DEFINE B == SetToBag(new)
<1>1. DOMAIN B = new /\ \A e \in new : B[e] = 1
  BY DEF SetToBag
<1>2. \A e \in DOMAIN trail : trail[e] \in Nat /\ trail[e] > 0
  BY DEF IsABag
<1> HIDE DEF B
<1>3. /\ DOMAIN (trail (+) B) = DOMAIN trail \cup DOMAIN B
      /\ \A e \in DOMAIN trail \cup DOMAIN B :
           (trail (+) B)[e] = (IF e \in DOMAIN trail THEN trail[e] ELSE 0)
                              + (IF e \in DOMAIN B THEN B[e] ELSE 0)
  BY DEF (+)
<1>4. \A e \in DOMAIN (trail (+) B) : (trail (+) B)[e] \in {n \in Nat : n > 0}
  BY <1>1, <1>2, <1>3
<1>5. trail (+) B = [e \in DOMAIN (trail (+) B) |-> (trail (+) B)[e]]
  BY DEF (+)
<1> QED
  BY <1>1, <1>3, <1>4, <1>5 DEF IsABag, BagToSet, B

\* What a commit leaves in the row, field by field.
LEMMA MergedFields ==
  ASSUME NEW old \in Row, NEW seen \in Row, NEW new \in Row
  PROVE  /\ Merged(old, seen, new) \in Row
         /\ Merged(old, seen, new).page = IF new.page # seen.page THEN new.page ELSE old.page
         /\ Merged(old, seen, new).mark = IF new.mark # seen.mark THEN new.mark ELSE old.mark
         /\ Merged(old, seen, new).status = IF new.status # seen.status THEN new.status ELSE old.status
         /\ old = seen => Merged(old, seen, new) = new
<1> DEFINE m == Merged(old, seen, new)
<1>1. DOMAIN old = {"page", "mark", "status", "spoiler"}
  BY DEF Row
<1>2. /\ m.page = IF new.page # seen.page THEN new.page ELSE old.page
      /\ m.mark = IF new.mark # seen.mark THEN new.mark ELSE old.mark
      /\ m.status = IF new.status # seen.status THEN new.status ELSE old.status
      /\ m.spoiler = IF new.spoiler # seen.spoiler THEN new.spoiler ELSE old.spoiler
  BY <1>1 DEF Merged
<1>3. m = [page |-> m.page, mark |-> m.mark, status |-> m.status, spoiler |-> m.spoiler]
  BY <1>1 DEF Merged
<1>4. m \in Row
  <2> HIDE DEF m
  <2> QED
    BY <1>2, <1>3 DEF Row
<1>5. ASSUME old = seen PROVE m = new
  <2>1. new = [page |-> new.page, mark |-> new.mark, status |-> new.status, spoiler |-> new.spoiler]
    BY DEF Row
  <2>2. m.page = new.page /\ m.mark = new.mark /\ m.status = new.status /\ m.spoiler = new.spoiler
    BY <1>2, <1>5
  <2> HIDE DEF m
  <2> QED
    BY <1>3, <2>1, <2>2
<1> QED
  BY <1>2, <1>4, <1>5

\* A body applied to a row.
LEMMA AppliedFields ==
  ASSUME NEW seen \in Row, NEW body \in Bodies, NEW count
  PROVE  Applied(seen, body, count) \in Row /\ Applied(seen, body, count).mark = seen.mark
<1>1. body \in Payload
  BY BodyAssumption
<1>2. Applied(seen, body, count).status \in Status
  BY <1>1 DEF Applied, Resolve, Payload, Row, Status
<1>3. /\ Applied(seen, body, count).page \in Pages
      /\ Applied(seen, body, count).spoiler \in Spoiler
      /\ Applied(seen, body, count).mark = seen.mark
  BY <1>1 DEF Applied, Payload, Row
<1>4. seen.mark \in Pages
  BY DEF Row
<1> QED
  BY <1>2, <1>3, <1>4 DEF Applied, Row

-----------------------------------------------------------------------------
\* The row a request has read, and the one it leaves.
Commits(p, old, seen, new, body) ==
  /\ old = IF row = None THEN NewRow ELSE row
  /\ seen = IF put[p].seen = None THEN NewRow ELSE put[p].seen
  /\ new = Applied(seen, body, put[p].count)
  /\ row' = Merged(old, seen, new)
  /\ trail' = trail (+) SetToBag(Moves(seen, new) \cup Changes(seen, new))
  /\ put' = [put EXCEPT ![p] = IF @.by = "agent" THEN [NoPut EXCEPT !.pc = "done"]
                              ELSE [@ EXCEPT !.pc = "answer", !.seen = new, !.count = None]]
  /\ back' = IF row'.page < old.page THEN back + (old.page - row'.page) ELSE back

LEMMA CommitFields ==
  ASSUME StoreTyped, RequestsTyped, NEW p \in Puts, CommitPut(p)
  PROVE  \E old, seen, new \in Row, body \in Bodies : Commits(p, old, seen, new, body)
<1>1. NewRow \in Row
  BY PageAssumption DEF NewRow, Row, Pages, Status, Spoiler
<1>2. (row # None => row \in Row) /\ (put[p].seen # None => put[p].seen \in Row)
  BY DEF StoreTyped, RequestsTyped, Put
<1>3. PICK old \in Row : old = IF row = None THEN NewRow ELSE row
  BY <1>1, <1>2
<1>4. PICK seen \in Row : seen = IF put[p].seen = None THEN NewRow ELSE put[p].seen
  BY <1>1, <1>2
<1>5. PICK body \in Bodies :
        LET new == Applied(seen, body, put[p].count)
            next == Merged(old, seen, new)
        IN /\ row' = next
           /\ trail' = trail (+) SetToBag(Moves(seen, new) \cup Changes(seen, new))
           /\ put' = [put EXCEPT ![p] = IF @.by = "agent" THEN [NoPut EXCEPT !.pc = "done"]
                                       ELSE [@ EXCEPT !.pc = "answer", !.seen = new, !.count = None]]
           /\ back' = IF next.page < old.page THEN back + (old.page - next.page) ELSE back
  BY <1>3, <1>4 DEF CommitPut
<1>6. PICK new \in Row : new = Applied(seen, body, put[p].count)
  BY AppliedFields
<1> QED
  BY <1>3, <1>4, <1>5, <1>6 DEF Commits

\* Events are well-formed.
LEMMA EventsFit ==
  ASSUME NEW seen \in Row, NEW new \in Row
  PROVE  Moves(seen, new) \cup Changes(seen, new) \subseteq Event
<1>1. seen.page \in Pages /\ new.page \in Pages
  BY DEF Row
<1>2. Moves(seen, new) \subseteq Event
  BY <1>1 DEF Moves, Event
<1>3. Changes(seen, new) \subseteq Event
  <2>1. CASE new.status = seen.status
    BY <2>1 DEF Changes
  <2>2. CASE new.status # seen.status
    <3>1. PICK type \in {"completed", "status_changed"} :
            Changes(seen, new) = {[type |-> type, from |-> None, to |-> new.page]}
      BY <2>2 DEF Changes
    <3> QED
      BY <1>1, <3>1 DEF Event
  <2> QED
    BY <2>1, <2>2
<1> QED
  BY <1>2, <1>3

LEMMA StoreStep ==
  ASSUME StoreTyped, RequestsTyped, [Next]_vars
  PROVE  StoreTyped'
<1> USE DEF StoreTyped, history, ScreenMissed
<1>1. ASSUME NEW p \in Puts, NEW by \in {"screen", "agent"}, LoadPut(p, by) PROVE StoreTyped'
  BY <1>1 DEF LoadPut
<1>2. ASSUME NEW p \in Puts, PutFails(p) \/ Answer(p) PROVE StoreTyped'
  BY <1>2 DEF PutFails, Answer
<1>3. ASSUME NEW p \in Puts, CommitPut(p) PROVE StoreTyped'
  <2>9. PICK old, seen, new \in Row, body \in Bodies : Commits(p, old, seen, new, body)
    BY <1>3, CommitFields
  <2>1. /\ row' = Merged(old, seen, new)
        /\ trail' = trail (+) SetToBag(Moves(seen, new) \cup Changes(seen, new))
        /\ back' = IF row'.page < old.page THEN back + (old.page - row'.page) ELSE back
    BY <2>9 DEF Commits
  <2>2. row' \in Row
    BY <2>1, MergedFields
  <2>3. IsABag(trail') /\ BagToSet(trail') \subseteq Event
    BY <2>1, TrailGrows, EventsFit
  <2>4. back' \in Nat
    <3>1. old.page \in Nat /\ row'.page \in Nat
      BY <2>2, PageAssumption DEF Row, Pages
    <3> QED
      BY <2>1, <3>1
  <2>5. alive /\ UNCHANGED <<alive, length, lapped>>
    BY <1>3 DEF CommitPut
  <2>6. raced' \in BOOLEAN /\ muddled' \in BOOLEAN
    BY <1>3 DEF CommitPut
  <2> QED
    BY <2>2, <2>3, <2>4, <2>5, <2>6
<1>4. ASSUME NEW t \in Recaps, LoadRecap(t) \/ DropRecap(t) PROVE StoreTyped'
  BY <1>4 DEF LoadRecap, DropRecap
<1>5. ASSUME NEW t \in Recaps, Advance(t) PROVE StoreTyped'
  <2>1. row # None /\ row \in Row /\ UNCHANGED <<alive, length, trail, back, raced>>
    BY <1>5 DEF Advance
  <2>2. PICK end \in 1..LastPage :
          row' = IF Mark(recap[t].mark, end) = recap[t].mark THEN row
                 ELSE [row EXCEPT !.mark = Mark(recap[t].mark, end)]
    BY <1>5 DEF Advance
  <2>3. end \in Pages
    BY PageAssumption DEF Pages
  <2>4. row' \in Row
    BY <2>1, <2>2, <2>3 DEF Mark, Row
  <2>5. lapped' \in BOOLEAN /\ muddled' \in BOOLEAN
    BY <1>5 DEF Advance
  <2> QED
    BY <2>1, <2>4, <2>5
<1>6. ASSUME NEW v \in Viewers, Analyse(v) PROVE StoreTyped'
  BY <1>6 DEF Analyse, ReadTrail, Store
<1>7. CASE Refresh
  BY <1>7 DEF Refresh
<1>8. CASE Expire
  BY <1>8 DEF Expire
<1>9. CASE Ingest
  BY <1>9 DEF Ingest
<1>10. CASE Delete
  <2>1. IsABag(trail') /\ BagToSet(trail') = {}
    BY <1>10 DEF Delete, EmptyBag, SetToBag, IsABag, BagToSet
  <2> QED
    BY <1>10, <2>1 DEF Delete
<1>11. CASE UNCHANGED vars
  BY <1>11 DEF vars
<1> QED
  BY <1>1, <1>2, <1>3, <1>4, <1>5, <1>6, <1>7, <1>8, <1>9, <1>10, <1>11 DEF Next, Request

LEMMA RequestsStep ==
  ASSUME StoreTyped, RequestsTyped, [Next]_vars
  PROVE  RequestsTyped'
<1> USE NoneAssumption DEF RequestsTyped
<1>1. /\ [NoPut EXCEPT !.pc = "done"] \in Put
      /\ [NoRecap EXCEPT !.pc = "done"] \in Recap
      /\ [NoRecap EXCEPT !.pc = "done"].pc = "done" /\ [NoRecap EXCEPT !.pc = "done"].mark = None
  BY DEF NoPut, Put, NoRecap, Recap
<1>2. ASSUME NEW p \in Puts, put' = [put EXCEPT ![p] = [NoPut EXCEPT !.pc = "done"]],
             UNCHANGED recap, screen' \in Row \cup {None}
      PROVE  RequestsTyped'
  BY <1>1, <1>2
<1>3. ASSUME NEW t \in Recaps, recap' = [recap EXCEPT ![t] = [NoRecap EXCEPT !.pc = "done"]],
             UNCHANGED <<put, screen>>
      PROVE  RequestsTyped'
  BY <1>1, <1>3
<1>4. ASSUME NEW p \in Puts, NEW by \in {"screen", "agent"}, LoadPut(p, by) PROVE RequestsTyped'
  <2>1. UNCHANGED <<recap, screen>>
    BY <1>4 DEF LoadPut
  <2>2. CASE alive
    <3>1. [pc |-> "loaded", by |-> by, count |-> length, seen |-> row] \in Put
      BY PageAssumption DEF StoreTyped, Put
    <3> QED
      BY <1>4, <2>1, <2>2, <3>1 DEF LoadPut
  <2>3. CASE ~alive
    BY <1>2, <1>4, <2>1, <2>3 DEF LoadPut
  <2> QED
    BY <2>2, <2>3
<1>5. ASSUME NEW p \in Puts, PutFails(p) PROVE RequestsTyped'
  BY <1>2, <1>5 DEF PutFails
<1>6. ASSUME NEW p \in Puts, Answer(p) PROVE RequestsTyped'
  <2>1. put[p].seen \in Row \cup {None}
    BY DEF Put
  <2> QED
    BY <1>2, <1>6, <2>1 DEF Answer
<1>7. ASSUME NEW p \in Puts, CommitPut(p) PROVE RequestsTyped'
  <2>1. UNCHANGED <<recap, screen>>
    BY <1>7 DEF CommitPut
  <2>9. PICK old, seen, new \in Row, body \in Bodies : Commits(p, old, seen, new, body)
    BY <1>7, CommitFields
  <2>2. put' = [put EXCEPT ![p] = IF @.by = "agent" THEN [NoPut EXCEPT !.pc = "done"]
                                 ELSE [@ EXCEPT !.pc = "answer", !.seen = new, !.count = None]]
    BY <2>9 DEF Commits
  <2>3. [put[p] EXCEPT !.pc = "answer", !.seen = new, !.count = None] \in Put
    BY DEF Put
  <2> QED
    BY <1>1, <2>1, <2>2, <2>3
<1>8. ASSUME NEW t \in Recaps, LoadRecap(t) PROVE RequestsTyped'
  <2>1. row \in Row /\ row.mark \in Pages /\ row.mark # None
    BY <1>8, PageAssumption DEF LoadRecap, StoreTyped, Row, Pages
  <2>2. [pc |-> "loaded", mark |-> row.mark] \in Recap
    BY <2>1 DEF Recap
  <2> QED
    BY <1>8, <2>1, <2>2 DEF LoadRecap
<1>9. ASSUME NEW t \in Recaps, Advance(t) \/ DropRecap(t) PROVE RequestsTyped'
  BY <1>3, <1>9 DEF Advance, DropRecap
<1>10. ASSUME UNCHANGED <<put, recap>>, screen' \in {screen, row, None} PROVE RequestsTyped'
  BY <1>10 DEF StoreTyped
<1>11. ASSUME NEW v \in Viewers, Analyse(v) PROVE RequestsTyped'
  BY <1>10, <1>11 DEF Analyse, ReadTrail, Store
<1>12. CASE Refresh \/ Expire \/ Ingest \/ Delete \/ UNCHANGED vars
  BY <1>10, <1>12 DEF Refresh, Expire, Ingest, Delete, vars
<1> QED
  BY <1>4, <1>5, <1>6, <1>7, <1>8, <1>9, <1>11, <1>12 DEF Next, Request

LEMMA ProgressInit == Init => TypeOK
<1> SUFFICES ASSUME Init PROVE TypeOK
  OBVIOUS
<1>1. IsABag(trail) /\ BagToSet(trail) = {}
  BY DEF Init, EmptyBag, SetToBag, IsABag, BagToSet
<1>2. NoPut \in Put /\ NoRecap \in Recap /\ NoRecap.pc = "new" /\ NoRecap.mark = None
  BY DEF NoPut, Put, NoRecap, Recap
<1>3. StoreTyped
  BY <1>1 DEF Init, StoreTyped
<1>4. RequestsTyped
  BY <1>2 DEF Init, RequestsTyped
<1> QED
  BY <1>3, <1>4 DEF TypeOK

LEMMA ProgressStep == TypeOK /\ [Next]_vars => TypeOK'
<1>1. TypeOK /\ [Next]_vars => StoreTyped'
  BY StoreStep DEF TypeOK
<1>2. TypeOK /\ [Next]_vars => RequestsTyped'
  BY RequestsStep DEF TypeOK
<1> QED
  BY <1>1, <1>2 DEF TypeOK

\* The document, its row, its trail, the requests and the screen are well-formed in every
\* state; a deleted document has no row (reading_document.py:37-80).
THEOREM ProgressTypeCorrect == Spec => []TypeOK
BY ProgressInit, ProgressStep, PTL DEF Spec

-----------------------------------------------------------------------------
\* A recap that no other overlapped still knows the mark it read, and its document has a
\* row unless it was deleted.
MarkKnown ==
  \A t \in Recaps :
    recap[t].pc = "loaded" =>
      /\ alive => row # None
      /\ ~lapped /\ row # None => row.mark = recap[t].mark

\* What a commit and an advance do to the mark.
LEMMA MarkStep ==
  ASSUME TypeOK, MarkKnown, [Next]_vars
  PROVE  /\ MarkKnown'
         /\ row # None /\ row' # None /\ ~lapped' => row'.mark >= row.mark
<1> USE NoneAssumption DEF history
<1>1. StoreTyped /\ RequestsTyped
  BY DEF TypeOK
<1>2. row # None => row \in Row /\ row.mark \in Nat
  BY <1>1, PageAssumption DEF StoreTyped, Row, Pages
<1>3. ASSUME UNCHANGED <<alive, recap, lapped, row>>
      PROVE  /\ MarkKnown'
             /\ row # None /\ row' # None /\ ~lapped' => row'.mark >= row.mark
  BY <1>2, <1>3 DEF MarkKnown
<1>4. ASSUME NEW p \in Puts, CommitPut(p)
      PROVE  /\ MarkKnown'
             /\ row # None /\ row' # None /\ ~lapped' => row'.mark >= row.mark
  <2>1. UNCHANGED <<alive, recap, lapped>> /\ alive
    BY <1>4 DEF CommitPut
  <2>9. PICK old, seen, new \in Row, body \in Bodies : Commits(p, old, seen, new, body)
    BY <1>1, <1>4, CommitFields
  <2>2. /\ old = IF row = None THEN NewRow ELSE row
        /\ new = Applied(seen, body, put[p].count)
        /\ row' = Merged(old, seen, new)
    BY <2>9 DEF Commits
  <2>3. row' \in Row /\ row'.mark = IF new.mark # seen.mark THEN new.mark ELSE old.mark
    BY <2>2, MergedFields
  <2>4. new.mark = seen.mark
    BY <2>2, AppliedFields
  <2>5. row' # None /\ (row # None => row'.mark = row.mark)
    BY <2>2, <2>3, <2>4, NoRowAssumption
  <2> QED
    BY <1>2, <2>1, <2>5 DEF MarkKnown
<1>5. ASSUME NEW t \in Recaps, LoadRecap(t)
      PROVE  /\ MarkKnown'
             /\ row # None /\ row' # None /\ ~lapped' => row'.mark >= row.mark
  <2>1. UNCHANGED <<alive, row, lapped>> /\ row # None
        /\ recap' = [recap EXCEPT ![t] = [pc |-> "loaded", mark |-> row.mark]]
    BY <1>5 DEF LoadRecap
  <2>2. recap'[t].mark = row.mark /\ \A u \in Recaps \ {t} : recap'[u] = recap[u]
    BY <1>1, <2>1 DEF RequestsTyped
  <2>3. MarkKnown'
    BY <2>1, <2>2 DEF MarkKnown
  <2> QED
    BY <1>2, <2>1, <2>3
<1>6. ASSUME NEW t \in Recaps, DropRecap(t)
      PROVE  /\ MarkKnown'
             /\ row # None /\ row' # None /\ ~lapped' => row'.mark >= row.mark
  <2>1. UNCHANGED <<alive, row, lapped>>
        /\ recap' = [recap EXCEPT ![t] = [NoRecap EXCEPT !.pc = "done"]]
    BY <1>6 DEF DropRecap
  <2>2. recap'[t].pc = "done" /\ \A u \in Recaps \ {t} : recap'[u] = recap[u]
    BY <1>1, <2>1 DEF RequestsTyped, NoRecap
  <2>3. MarkKnown'
    BY <2>1, <2>2 DEF MarkKnown
  <2> QED
    BY <1>2, <2>1, <2>3
<1>7. ASSUME NEW t \in Recaps, Advance(t)
      PROVE  /\ MarkKnown'
             /\ row # None /\ row' # None /\ ~lapped' => row'.mark >= row.mark
  <2>1. /\ row # None /\ row \in Row /\ recap[t].pc = "loaded" /\ alive' = alive
        /\ recap' = [recap EXCEPT ![t] = [NoRecap EXCEPT !.pc = "done"]]
        /\ ~lapped' => ~lapped /\ \A u \in Recaps \ {t} : recap[u].pc # "loaded"
    BY <1>2, <1>7 DEF Advance
  <2>2. PICK end \in 1..LastPage :
          row' = IF Mark(recap[t].mark, end) = recap[t].mark THEN row
                 ELSE [row EXCEPT !.mark = Mark(recap[t].mark, end)]
    BY <1>7 DEF Advance
  <2>3. recap'[t].pc = "done" /\ \A u \in Recaps \ {t} : recap'[u] = recap[u]
    BY <1>1, <2>1 DEF RequestsTyped, NoRecap
  <2>4. row' # None
    <3>1. end \in Pages
      BY PageAssumption DEF Pages
    <3>2. row' \in Row
      BY <2>1, <2>2, <3>1 DEF Mark, Row
    <3> QED
      BY <3>2, NoRowAssumption
  <2>5. ~lapped' => recap[t].mark = row.mark
    BY <2>1 DEF MarkKnown
  <2>6. ~lapped' => row'.mark >= row.mark
    <3>1. end \in Nat /\ row.mark \in Nat
      BY <1>2, <2>1, PageAssumption
    <3> QED
      BY <2>1, <2>2, <2>5, <3>1 DEF Mark, Row
  <2>7. MarkKnown'
    BY <2>1, <2>3, <2>4 DEF MarkKnown
  <2> QED
    BY <2>6, <2>7
<1>8. ASSUME NEW p \in Puts, (\E by \in {"screen", "agent"} : LoadPut(p, by)) \/ PutFails(p) \/ Answer(p)
      PROVE  UNCHANGED <<alive, recap, lapped, row>>
  BY <1>8 DEF LoadPut, PutFails, Answer
<1>9. ASSUME NEW v \in Viewers, Analyse(v) PROVE UNCHANGED <<alive, recap, lapped, row>>
  BY <1>9 DEF Analyse, ReadTrail, Store
<1>10. CASE Refresh \/ Expire \/ Ingest \/ UNCHANGED vars
  BY <1>3, <1>10 DEF Refresh, Expire, Ingest, vars
<1>11. CASE Delete
  BY <1>11 DEF Delete, MarkKnown
<1> QED
  BY <1>3, <1>4, <1>5, <1>6, <1>7, <1>8, <1>9, <1>10, <1>11 DEF Next, Request

\* The recap mark never moves back while recaps do not overlap: pages already summarised
\* are not summarised again (progress_service.py:221-226).
THEOREM MarkAlwaysGrowsAlone == Spec => MarkGrowsAlone
<1>1. Init => MarkKnown
  BY DEF Init, MarkKnown, NoRecap
<1>2. TypeOK /\ MarkKnown /\ [Next]_vars => MarkKnown'
  BY MarkStep
<1>3. TypeOK /\ MarkKnown /\ [Next]_vars =>
        [row # None /\ row' # None /\ ~lapped' => row'.mark >= row.mark]_vars
  BY MarkStep
<1> QED
  BY <1>1, <1>2, <1>3, ProgressInit, ProgressStep, PTL DEF Spec, MarkGrowsAlone

-----------------------------------------------------------------------------
\* The events account for a row: its pages and its status.
Explains(events, r) ==
  /\ \A n \in 1..r.page : \E e \in events : e.type = "advanced" /\ e.from < n /\ n <= e.to
  /\ r.status = "completed" => \E e \in events : e.type = "completed"
  /\ r.status \in {"reading", "cancelled"} => \E e \in events : e.type = "status_changed"

\* They do for the row that is stored, and for each one that a request has read.
TrailExplains ==
  /\ row # None => Explains(BagToSet(trail), row)
  /\ \A p \in Puts : alive /\ put[p].pc = "loaded" /\ put[p].seen # None =>
                      Explains(BagToSet(trail), put[p].seen)

\* More events explain no less.
LEMMA ExplainsMore ==
  ASSUME NEW events, NEW more, events \subseteq more, NEW r, Explains(events, r)
  PROVE  Explains(more, r)
BY DEF Explains

\* The events of a commit explain what it leaves.
LEMMA ExplainsCommit ==
  ASSUME NEW events, NEW old \in Row, NEW seen \in Row, NEW new \in Row,
         Explains(events, old), Explains(events, seen)
  PROVE  Explains(events \cup (Moves(seen, new) \cup Changes(seen, new)), Merged(old, seen, new))
<1> DEFINE more == events \cup (Moves(seen, new) \cup Changes(seen, new))
           m == Merged(old, seen, new)
<1>1. /\ m.page = IF new.page # seen.page THEN new.page ELSE old.page
      /\ m.status = IF new.status # seen.status THEN new.status ELSE old.status
  BY MergedFields
<1>2. seen.page \in Nat /\ new.page \in Nat /\ old.page \in Nat
      /\ new.status \in Status
  BY PageAssumption DEF Row, Pages
<1>3. events \subseteq more /\ Moves(seen, new) \subseteq more /\ Changes(seen, new) \subseteq more
  OBVIOUS
<1> HIDE DEF more, m
<1>4. Explains(more, old) /\ Explains(more, seen)
  BY <1>3, ExplainsMore
<1>5. ASSUME NEW n \in 1..m.page
      PROVE  \E e \in more : e.type = "advanced" /\ e.from < n /\ n <= e.to
  <2>1. CASE new.page = seen.page
    BY <1>1, <1>4, <1>5, <2>1 DEF Explains
  <2>2. CASE new.page # seen.page /\ n <= seen.page
    <3>1. n \in 1..seen.page
      BY <1>1, <1>2, <1>5, <2>2
    <3> QED
      BY <1>4, <3>1 DEF Explains
  <2>3. CASE new.page # seen.page /\ ~(n <= seen.page)
    <3>1. n \in Nat /\ seen.page < n /\ n <= new.page /\ new.page > seen.page
      BY <1>1, <1>2, <1>5, <2>3
    <3>2. [type |-> "advanced", from |-> seen.page, to |-> new.page] \in more
      BY <1>3, <3>1 DEF Moves
    <3> QED
      BY <3>1, <3>2
  <2> QED
    BY <2>1, <2>2, <2>3
<1>6. ASSUME new.status # seen.status
      PROVE  \E e \in more : e.type = IF new.status = "completed" THEN "completed" ELSE "status_changed"
  <2>1. [type |-> IF new.status = "completed" THEN "completed" ELSE "status_changed",
         from |-> None, to |-> new.page] \in more
    BY <1>3, <1>6 DEF Changes
  <2> QED
    BY <2>1
<1>7. m.status = "completed" => \E e \in more : e.type = "completed"
  BY <1>1, <1>4, <1>6 DEF Explains
<1>8. m.status \in {"reading", "cancelled"} => \E e \in more : e.type = "status_changed"
  BY <1>1, <1>4, <1>6 DEF Explains
<1> QED
  BY <1>5, <1>7, <1>8 DEF Explains, more, m

LEMMA TrailStep ==
  ASSUME TypeOK, TrailExplains, [Next]_vars
  PROVE  TrailExplains'
<1> USE DEF history
<1>1. StoreTyped /\ RequestsTyped
  BY DEF TypeOK
<1>2. ASSUME UNCHANGED <<alive, trail, row, put>> PROVE TrailExplains'
  BY <1>2 DEF TrailExplains
<1>3. ASSUME NEW p \in Puts, NEW by \in {"screen", "agent"}, LoadPut(p, by) PROVE TrailExplains'
  <2>1. UNCHANGED <<alive, trail, row>> /\ \A q \in Puts \ {p} : put'[q] = put[q]
    BY <1>1, <1>3 DEF LoadPut, RequestsTyped
  <2>2. alive => put'[p].seen = row
    BY <1>1, <1>3 DEF LoadPut, RequestsTyped
  <2> QED
    BY <2>1, <2>2 DEF TrailExplains
<1>4. ASSUME NEW p \in Puts, PutFails(p) \/ Answer(p) PROVE TrailExplains'
  <2>1. /\ UNCHANGED <<alive, trail, row>>
        /\ put' = [put EXCEPT ![p] = [NoPut EXCEPT !.pc = "done"]]
    BY <1>4 DEF PutFails, Answer
  <2>2. put'[p].pc = "done" /\ \A q \in Puts \ {p} : put'[q] = put[q]
    BY <1>1, <2>1 DEF RequestsTyped, NoPut
  <2> QED
    BY <2>1, <2>2 DEF TrailExplains
<1>5. ASSUME NEW p \in Puts, CommitPut(p) PROVE TrailExplains'
  <2>1. PICK old, seen, new \in Row, body \in Bodies : Commits(p, old, seen, new, body)
    BY <1>1, <1>5, CommitFields
  <2> DEFINE events == BagToSet(trail)
             more == events \cup (Moves(seen, new) \cup Changes(seen, new))
  <2>2. BagToSet(trail') = more
    BY <1>1, <2>1, TrailGrows DEF Commits, StoreTyped
  <2>3. alive /\ alive' = alive /\ put[p].pc = "loaded"
    BY <1>5 DEF CommitPut
  <2>4. Explains(events, NewRow)
    BY DEF Explains, NewRow
  <2>5. Explains(events, old) /\ Explains(events, seen)
    <3> HIDE DEF events
    <3>1. row # None => Explains(events, row)
      BY DEF TrailExplains, events
    <3>2. put[p].seen # None => Explains(events, put[p].seen)
      BY <2>3 DEF TrailExplains, events
    <3> QED
      BY <2>1, <2>4, <3>1, <3>2 DEF Commits
  <2>6. row' = Merged(old, seen, new)
    BY <2>1 DEF Commits
  <2>7. Explains(more, Merged(old, seen, new))
    BY <2>5, ExplainsCommit
  <2>8. put'[p].pc # "loaded" /\ \A q \in Puts \ {p} : put'[q] = put[q]
    BY <1>1, <2>1 DEF Commits, RequestsTyped, NoPut, Put
  <2>9. ASSUME NEW q \in Puts \ {p}, put[q].pc = "loaded", put[q].seen # None
        PROVE  Explains(more, put[q].seen)
    <3>1. Explains(events, put[q].seen)
      BY <2>3, <2>9 DEF TrailExplains
    <3> QED
      BY <3>1, ExplainsMore
  <2> HIDE DEF events, more
  <2>10. Explains(BagToSet(trail'), row')
    BY <2>2, <2>6, <2>7
  <2>11. \A q \in Puts : put'[q].pc = "loaded" /\ put'[q].seen # None
                          => Explains(BagToSet(trail'), put'[q].seen)
    BY <2>2, <2>8, <2>9
  <2> QED
    BY <2>10, <2>11 DEF TrailExplains
<1>6. ASSUME NEW t \in Recaps, Advance(t) PROVE TrailExplains'
  <2>1. row # None /\ row \in Row /\ UNCHANGED <<alive, trail, put>>
    BY <1>1, <1>6 DEF Advance, StoreTyped
  <2>2. row'.page = row.page /\ row'.status = row.status
    BY <2>1, <1>6 DEF Advance, Row
  <2>3. Explains(BagToSet(trail), row)
    BY <2>1 DEF TrailExplains
  <2> QED
    BY <2>1, <2>2, <2>3 DEF TrailExplains, Explains
<1>7. ASSUME NEW t \in Recaps, LoadRecap(t) \/ DropRecap(t) PROVE TrailExplains'
  BY <1>2, <1>7 DEF LoadRecap, DropRecap
<1>8. ASSUME NEW v \in Viewers, Analyse(v) PROVE TrailExplains'
  BY <1>2, <1>8 DEF Analyse, ReadTrail, Store
<1>9. CASE Refresh \/ Expire \/ Ingest \/ UNCHANGED vars
  BY <1>2, <1>9 DEF Refresh, Expire, Ingest, vars
<1>10. CASE Delete
  BY <1>10 DEF Delete, TrailExplains
<1> QED
  BY <1>3, <1>4, <1>5, <1>6, <1>7, <1>8, <1>9, <1>10 DEF Next, Request

\* However requests interleave, the trail accounts for the row: each page up to the
\* position lies within a recorded advance, and each status a reader is in was recorded
\* when it was entered (progress_service.py:15).
THEOREM TrailAlwaysExplainsRow == Spec => []TrailExplainsRow
<1>1. Init => TrailExplains
  BY DEF Init, TrailExplains, NoPut
<1>2. TypeOK /\ TrailExplains /\ [Next]_vars => TrailExplains'
  BY TrailStep
<1>3. TrailExplains => TrailExplainsRow
  BY DEF TrailExplains, TrailExplainsRow, Explains
<1> QED
  BY <1>1, <1>2, <1>3, ProgressInit, ProgressStep, PTL DEF Spec

-----------------------------------------------------------------------------
\* What the screen may show when nothing is under way.
Shows == screen = row \/ (screen = None /\ row.status = "not_started")

\* Unless it was muddled, its requests know the row, and it shows it once they are answered.
ScreenFollows ==
  /\ \A p \in Puts : put[p].pc = "answer" => put[p].by = "screen"
  /\ ~muddled => /\ \A p \in OnScreen : put[p].seen = row
                 /\ (\A p \in Puts : put[p].pc # "answer") => Shows

LEMMA ScreenStep ==
  ASSUME TypeOK, ScreenFollows, [Next]_vars
  PROVE  ScreenFollows'
<1> USE DEF history
<1>1. StoreTyped /\ RequestsTyped
  BY DEF TypeOK
<1>2. ASSUME UNCHANGED <<put, row, screen, muddled>> PROVE ScreenFollows'
  BY <1>2 DEF ScreenFollows, Shows, OnScreen
<1>3. ASSUME NEW p \in Puts, NEW by \in {"screen", "agent"}, LoadPut(p, by) PROVE ScreenFollows'
  <2>1. UNCHANGED <<row, screen, muddled>> /\ \A q \in Puts \ {p} : put'[q] = put[q]
    BY <1>1, <1>3 DEF LoadPut, RequestsTyped
  <2>2. /\ put[p].pc = "new"
        /\ \/ put'[p].pc = "loaded" /\ put'[p].seen = row
           \/ put'[p].pc = "done"
    BY <1>1, <1>3 DEF LoadPut, RequestsTyped, NoPut
  <2> QED
    BY <2>1, <2>2 DEF ScreenFollows, Shows, OnScreen
<1>4. ASSUME NEW p \in Puts, PutFails(p) PROVE ScreenFollows'
  <2>1. UNCHANGED <<row, screen, muddled>> /\ put[p].pc = "loaded"
    BY <1>4 DEF PutFails
  <2>2. put'[p].pc = "done" /\ \A q \in Puts \ {p} : put'[q] = put[q]
    BY <1>1, <1>4 DEF PutFails, RequestsTyped, NoPut
  <2> QED
    BY <2>1, <2>2 DEF ScreenFollows, Shows, OnScreen
<1>5. ASSUME NEW p \in Puts, Answer(p) PROVE ScreenFollows'
  <2>1. UNCHANGED <<row, muddled>> /\ put[p].pc = "answer" /\ screen' = put[p].seen
    BY <1>5 DEF Answer
  <2>2. put'[p].pc = "done" /\ \A q \in Puts \ {p} : put'[q] = put[q]
    BY <1>1, <1>5 DEF Answer, RequestsTyped, NoPut
  <2>3. p \in OnScreen
    BY <2>1 DEF ScreenFollows, OnScreen
  <2>4. ~muddled => screen' = row
    BY <2>1, <2>3 DEF ScreenFollows
  <2> QED
    BY <2>1, <2>2, <2>4 DEF ScreenFollows, Shows, OnScreen
<1>6. ASSUME NEW p \in Puts, CommitPut(p) PROVE ScreenFollows'
  <2>1. PICK old, seen, new \in Row, body \in Bodies : Commits(p, old, seen, new, body)
    BY <1>1, <1>6, CommitFields
  <2>2. /\ put[p].pc = "loaded" /\ (put[p].seen = None <=> row = None)
        /\ muddled' = (muddled \/ (put[p].by = "agent" \/ OnScreen # {p}))
    BY <1>6 DEF CommitPut, ScreenMissed
  <2>3. \A q \in Puts \ {p} : put'[q] = put[q]
    BY <1>1, <2>1 DEF Commits, RequestsTyped
  <2>4. put[p].by = "agent" => put'[p].pc = "done"
    BY <1>1, <2>1 DEF Commits, RequestsTyped, NoPut
  <2>5. put[p].by # "agent" => /\ put'[p].pc = "answer" /\ put'[p].by = put[p].by
                              /\ put'[p].seen = new
    BY <1>1, <2>1 DEF Commits, RequestsTyped, Put
  <2>6. put[p].by \in {"screen", "agent"}
    BY <1>1 DEF RequestsTyped, Put
  <2>7. \A q \in Puts : put'[q].pc = "answer" => put'[q].by = "screen"
    BY <2>3, <2>4, <2>5, <2>6 DEF ScreenFollows
  <2>8. ASSUME ~muddled'
        PROVE  put'[p].pc = "answer" /\ \A q \in OnScreen' : put'[q].seen = row'
    <3>1. ~muddled /\ put[p].by = "screen" /\ OnScreen = {p}
      BY <2>2, <2>6, <2>8
    <3>2. put[p].seen = row
      BY <3>1 DEF ScreenFollows
    <3>3. row' = new
      BY <2>1, <3>2, MergedFields DEF Commits
    <3>4. ASSUME NEW q \in OnScreen' PROVE q = p
      BY <2>3, <3>1 DEF OnScreen
    <3> QED
      BY <2>5, <3>1, <3>3, <3>4
  <2> QED
    BY <2>7, <2>8 DEF ScreenFollows
<1>7. CASE Refresh
  <2>1. /\ UNCHANGED <<put, row>> /\ muddled' = (OnScreen # {})
        /\ screen' = IF row # None /\ row.status # "not_started" THEN row ELSE None
    BY <1>7 DEF Refresh
  <2>2. Shows'
    BY <2>1 DEF Shows
  <2>3. OnScreen' = OnScreen
    BY <2>1 DEF OnScreen
  <2> QED
    BY <2>1, <2>2, <2>3 DEF ScreenFollows
<1>8. ASSUME UNCHANGED put, muddled' PROVE ScreenFollows'
  BY <1>8 DEF ScreenFollows
<1>9. ASSUME NEW t \in Recaps, Advance(t) PROVE ScreenFollows'
  BY <1>8, <1>9 DEF Advance, ScreenMissed
<1>10. CASE Delete
  BY <1>8, <1>10 DEF Delete, ScreenMissed
<1>11. ASSUME NEW t \in Recaps, LoadRecap(t) \/ DropRecap(t) PROVE ScreenFollows'
  BY <1>2, <1>11 DEF LoadRecap, DropRecap
<1>12. ASSUME NEW v \in Viewers, Analyse(v) PROVE ScreenFollows'
  BY <1>2, <1>12 DEF Analyse, ReadTrail, Store
<1>13. CASE Expire \/ Ingest \/ UNCHANGED vars
  BY <1>2, <1>13 DEF Expire, Ingest, vars
<1> QED
  BY <1>3, <1>4, <1>5, <1>6, <1>7, <1>9, <1>10, <1>11, <1>12, <1>13 DEF Next, Request

\* With nothing under way and no change from elsewhere since the last refresh, the
\* screen shows the stored row, or nothing for one that is not started (Reading.tsx:42-72).
THEOREM ScreenAlwaysTrue == Spec => []ScreenIsTrue
<1>1. Init => ScreenFollows
  BY DEF Init, ScreenFollows, OnScreen, Shows, NoPut
<1>2. TypeOK /\ ScreenFollows /\ [Next]_vars => ScreenFollows'
  BY ScreenStep
<1>3. ScreenFollows => ScreenIsTrue
  BY DEF ScreenFollows, ScreenIsTrue, OnScreen, Shows
<1> QED
  BY <1>1, <1>2, <1>3, ProgressInit, ProgressStep, PTL DEF Spec

-----------------------------------------------------------------------------
(* The pages accounted for.                                                *)

\* A set of numbers has a least one.
LEMMA LeastNumber ==
  ASSUME NEW T \in SUBSET Nat, T # {}
  PROVE  \E m \in T : \A k \in Nat : k < m => k \notin T
<1>1. IsWellFoundedOn(OpToRel(<, Nat), Nat)
  BY NatLessThanWellFounded
<1> DEFINE R == OpToRel(<, Nat)
<1>2. \A x, y \in Nat : <<y, x>> \in R <=> y < x
  BY DEF OpToRel
<1> HIDE DEF R
<1>3. PICK m \in T : \A k \in T : <<k, m>> \notin R
  BY <1>1, WFMin DEF R
<1> QED
  BY <1>2, <1>3

\* Of the subsets of a finite set one is so small that it is not in the set any more
\* once an element is taken out.
LEMMA LeastSet ==
  ASSUME NEW S, IsFiniteSet(S), NEW T \in SUBSET (SUBSET S), T # {}
  PROVE  \E s \in T : \A x \in s : s \ {x} \notin T
<1> DEFINE R == StrictSubsetOrdering(S)
<1>1. IsWellFoundedOn(R, SUBSET S)
  BY FS_FiniteSubsetsOfFinite, FS_StrictSubsetOrderingWellFounded
<1>2. \A s \in SUBSET S : \A x \in s : <<s \ {x}, s>> \in R
  BY DEF StrictSubsetOrdering
<1> HIDE DEF R
<1>3. PICK s \in T : \A t \in T : <<t, s>> \notin R
  BY <1>1, WFMin
<1> QED
  BY <1>2, <1>3

-----------------------------------------------------------------------------
(* The sum over a set, element by element.                                 *)

Pick(s) == CHOOSE x \in s : TRUE

\* it gives the sum of w over each subset of S.
Adds(it, w, S) ==
  \A s \in SUBSET S : it[s] = IF s = {} THEN 0 ELSE w[Pick(s)] + it[s \ {Pick(s)}]

\* There is an element to pick.
LEMMA PickIn == ASSUME NEW s, s # {} PROVE Pick(s) \in s
BY DEF Pick

\* Two weights of the elements of u.
SameOn(w, v, u) == \A x \in u : w[x] = v[x]

\* A sum depends on nothing but what is summed.
LEMMA AddsAgree ==
  ASSUME NEW S, NEW U, NEW u \in SUBSET S, IsFiniteSet(u), u \in SUBSET U,
         NEW w, NEW v, NEW it, NEW jt, Adds(it, w, S), Adds(jt, v, U),
         SameOn(w, v, u)
  PROVE  it[u] = jt[u]
<1> DEFINE T == {s \in SUBSET u : it[s] # jt[s]}
<1>1. SUFFICES ASSUME T # {} PROVE FALSE
  OBVIOUS
<1>2. T \in SUBSET (SUBSET u)
  OBVIOUS
<1>3. PICK s \in T : \A x \in s : s \ {x} \notin T
  <2> HIDE DEF T
  <2> QED
    BY <1>1, <1>2, LeastSet
<1>4. s \in SUBSET u /\ s \in SUBSET S /\ s \in SUBSET U /\ it[s] # jt[s]
  OBVIOUS
<1>5. s # {}
  BY <1>4 DEF Adds
<1>6. PICK x \in s : x = Pick(s)
  BY <1>5, PickIn
<1>7. it[s] = w[x] + it[s \ {x}] /\ jt[s] = v[x] + jt[s \ {x}]
  BY <1>4, <1>5, <1>6 DEF Adds
<1>8. it[s \ {x}] = jt[s \ {x}] /\ w[x] = v[x]
  BY <1>3, <1>4 DEF SameOn
<1> QED
  BY <1>4, <1>7, <1>8

\* It is a number.
LEMMA AddsTyped ==
  ASSUME NEW S, IsFiniteSet(S), NEW w, NEW it, Adds(it, w, S), \A x \in S : w[x] \in Int
  PROVE  \A s \in SUBSET S : it[s] \in Int
<1> DEFINE T == {s \in SUBSET S : it[s] \notin Int}
<1>1. SUFFICES ASSUME T # {} PROVE FALSE
  OBVIOUS
<1>2. T \in SUBSET (SUBSET S)
  OBVIOUS
<1>3. PICK s \in T : \A x \in s : s \ {x} \notin T
  <2> HIDE DEF T
  <2> QED
    BY <1>1, <1>2, LeastSet
<1>4. s \in SUBSET S /\ it[s] \notin Int
  OBVIOUS
<1>5. s # {}
  <2>1. 0 \in Int /\ (s = {} => it[s] = 0)
    BY <1>4 DEF Adds
  <2> QED
    BY <1>4, <2>1
<1>6. PICK x \in s : x = Pick(s)
  BY <1>5, PickIn
<1>7. it[s] = w[x] + it[s \ {x}]
  BY <1>4, <1>5, <1>6 DEF Adds
<1>8. it[s \ {x}] \in Int /\ w[x] \in Int
  <2>1. s \ {x} \in SUBSET S
    BY <1>4
  <2>2. s \ {x} \notin T
    BY <1>3
  <2> QED
    BY <1>4, <2>1, <2>2
<1> QED
  BY <1>4, <1>7, <1>8

\* Any element may be the last one added.
LEMMA AddsOne ==
  ASSUME NEW S, IsFiniteSet(S), NEW w, NEW it, Adds(it, w, S), \A x \in S : w[x] \in Int
  PROVE  \A s \in SUBSET S : \A x \in s : it[s] = w[x] + it[s \ {x}]
<1> DEFINE T == {s \in SUBSET S : \E x \in s : it[s] # w[x] + it[s \ {x}]}
<1>1. SUFFICES ASSUME T # {} PROVE FALSE
  OBVIOUS
<1>2. T \in SUBSET (SUBSET S)
  OBVIOUS
<1>3. PICK s \in T : \A x \in s : s \ {x} \notin T
  <2> HIDE DEF T
  <2> QED
    BY <1>1, <1>2, LeastSet
<1>4. s \in SUBSET S
  OBVIOUS
<1>5. PICK x \in s : it[s] # w[x] + it[s \ {x}]
  OBVIOUS
<1>6. PICK y \in s : y = Pick(s)
  BY PickIn
<1>7. it[s] = w[y] + it[s \ {y}]
  BY <1>4, <1>6 DEF Adds
<1>8. x # y /\ x \in s \ {y} /\ y \in s \ {x}
  BY <1>5, <1>7
<1>9. it[s \ {y}] = w[x] + it[(s \ {y}) \ {x}]
  BY <1>3, <1>4, <1>8
<1>10. it[s \ {x}] = w[y] + it[(s \ {x}) \ {y}]
  BY <1>3, <1>4, <1>8
<1>11. PICK rest : rest = (s \ {x}) \ {y}
  OBVIOUS
<1>12. (s \ {y}) \ {x} = rest /\ rest \in SUBSET S
  BY <1>4, <1>11
<1>13. it[rest] \in Int /\ w[x] \in Int /\ w[y] \in Int
  BY <1>4, <1>12, AddsTyped
<1> QED
  <2>1. it[s] = w[y] + (w[x] + it[rest]) /\ it[s \ {x}] = w[y] + it[rest]
    BY <1>7, <1>9, <1>10, <1>11, <1>12
  <2> QED
    BY <1>5, <1>13, <2>1

-----------------------------------------------------------------------------
\* Every finite set has its sums.
LEMMA AddsExist ==
  ASSUME NEW S, IsFiniteSet(S), NEW w
  PROVE  \E it : /\ it = [s \in SUBSET S |->
                              IF s = {} THEN 0 ELSE w[Pick(s)] + it[s \ {Pick(s)}]]
               /\ Adds(it, w, S)
<1> DEFINE Upto(f, n) == \A s \in SUBSET S : Cardinality(s) <= n =>
                           f[s] = IF s = {} THEN 0 ELSE w[Pick(s)] + f[s \ {Pick(s)}]
           Bad == {n \in Nat : ~ \E f : Upto(f, n)}
<1>1. \A s \in SUBSET S : IsFiniteSet(s) /\ Cardinality(s) \in Nat
  BY FS_Subset, FS_CardinalityType
<1>2. ASSUME Bad # {} PROVE FALSE
  <2>1. PICK m \in Bad : \A k \in Nat : k < m => k \notin Bad
    <3>1. Bad \in SUBSET Nat
      OBVIOUS
    <3> HIDE DEF Bad
    <3> QED
      BY <1>2, <3>1, LeastNumber
  <2>2. m \in Nat /\ ~ \E f : Upto(f, m)
    OBVIOUS
  <2>3. CASE m = 0
    <3> DEFINE f == [s \in SUBSET S |-> 0]
    <3>1. \A s \in SUBSET S : Cardinality(s) <= 0 => s = {}
      BY <1>1, FS_EmptySet
    <3>2. Upto(f, 0)
      BY <3>1
    <3> QED
      BY <2>2, <2>3, <3>2
  <2>4. CASE m # 0
    <3>1. PICK n \in Nat : m = n + 1 /\ n < m
      <4>1. m - 1 \in Nat /\ m = (m - 1) + 1 /\ m - 1 < m
        BY <2>2, <2>4
      <4> QED
        BY <4>1
    <3>2. PICK f : Upto(f, n)
      BY <2>1, <3>1
    <3>3. PICK g : g = [s \in SUBSET S |-> IF s = {} THEN 0 ELSE w[Pick(s)] + f[s \ {Pick(s)}]]
      OBVIOUS
    <3>4. \A s \in SUBSET S : Cardinality(s) <= n => g[s] = f[s]
      BY <3>2, <3>3
    <3>5. ASSUME NEW s \in SUBSET S, Cardinality(s) <= m
          PROVE  g[s] = IF s = {} THEN 0 ELSE w[Pick(s)] + g[s \ {Pick(s)}]
      <4>1. CASE s = {}
        BY <3>3, <4>1
      <4>2. CASE s # {}
        <5>1. PICK x \in s : x = Pick(s)
          BY <4>2, PickIn
        <5>2. Cardinality(s \ {x}) = Cardinality(s) - 1 /\ s \ {x} \in SUBSET S
          BY <1>1, FS_RemoveElement
        <5>3. Cardinality(s \ {x}) <= n
          BY <1>1, <3>1, <3>5, <5>2
        <5>4. g[s \ {x}] = f[s \ {x}]
          BY <3>4, <5>2, <5>3
        <5>5. g[s] = w[x] + f[s \ {x}]
          BY <3>3, <4>2, <5>1
        <5> QED
          BY <4>2, <5>1, <5>4, <5>5
      <4> QED
        BY <4>1, <4>2
    <3> QED
      BY <2>2, <3>5
  <2> QED
    BY <2>3, <2>4
<1>3. PICK f : Upto(f, Cardinality(S))
  <2>1. Cardinality(S) \in Nat /\ Cardinality(S) \notin Bad
    BY <1>1, <1>2
  <2> QED
    BY <2>1
<1>4. PICK it : it = [s \in SUBSET S |-> f[s]]
  OBVIOUS
<1>5. ASSUME NEW s \in SUBSET S
      PROVE  it[s] = IF s = {} THEN 0 ELSE w[Pick(s)] + it[s \ {Pick(s)}]
  <2>1. Cardinality(s) <= Cardinality(S)
    BY FS_Subset
  <2>2. f[s] = IF s = {} THEN 0 ELSE w[Pick(s)] + f[s \ {Pick(s)}]
    BY <1>3, <2>1
  <2>3. s \ {Pick(s)} \in SUBSET S
    OBVIOUS
  <2> QED
    BY <1>4, <2>2, <2>3
<1>6. it = [s \in SUBSET S |-> IF s = {} THEN 0 ELSE w[Pick(s)] + it[s \ {Pick(s)}]]
  BY <1>4, <1>5
<1>7. Adds(it, w, S)
  BY <1>5 DEF Adds
<1> QED
  BY <1>6, <1>7

\* What the trail counts is such a sum.
Advances(events) == {e \in BagToSet(events) : e.type = "advanced"}
Weight(events) == [e \in Advances(events) |-> events[e] * (e.to - e.from)]

\* PagesRead adds them up.
LEMMA PagesAreAdded ==
  ASSUME NEW events, IsFiniteSet(Advances(events))
  PROVE  \E it : PagesRead(events) = it[Advances(events)]
                /\ Adds(it, Weight(events), Advances(events))
<1> DEFINE A == Advances(events)
           W(e) == events[e] * (e.to - e.from)
           Body(it) == [s \in SUBSET A |->
                          IF s = {} THEN 0 ELSE W(CHOOSE x \in s : TRUE)
                                                + it[s \ {CHOOSE x \in s : TRUE}]]
           sum == CHOOSE it : it = Body(it)
<1>1. PagesRead(events) = sum[A]
  BY Zenon DEF PagesRead, MapThenSumSet, MapThenFoldSet, Advances
<1>2. PICK jt : /\ jt = [s \in SUBSET A |->
                              IF s = {} THEN 0 ELSE Weight(events)[Pick(s)] + jt[s \ {Pick(s)}]]
                /\ Adds(jt, Weight(events), A)
  BY AddsExist
<1>3. \A s \in SUBSET A : s # {} => /\ Pick(s) = CHOOSE x \in s : TRUE
                                   /\ Weight(events)[Pick(s)] = W(Pick(s))
  <2>1. ASSUME NEW s \in SUBSET A, s # {} PROVE Weight(events)[Pick(s)] = W(Pick(s))
    <3>1. Pick(s) \in Advances(events)
      BY <2>1, PickIn
    <3> QED
      BY <3>1 DEF Weight
  <2> QED
    BY <2>1 DEF Pick
<1>4. jt = Body(jt)
  BY <1>2, <1>3
<1>5. sum = Body(sum)
  BY <1>4
<1> HIDE DEF sum
<1>6. ASSUME NEW s \in SUBSET A
      PROVE  sum[s] = IF s = {} THEN 0 ELSE Weight(events)[Pick(s)] + sum[s \ {Pick(s)}]
  <2>1. sum[s] = IF s = {} THEN 0 ELSE W(Pick(s)) + sum[s \ {Pick(s)}]
    BY <1>5 DEF Pick
  <2> HIDE DEF W
  <2> QED
    BY <1>3, <2>1
<1>7. Adds(sum, Weight(events), A)
  <2> HIDE DEF A
  <2> QED
    BY <1>6 DEF Adds
<1> QED
  BY <1>1, <1>7

\* How often an event is in the trail once others are added.
LEMMA TrailCounts ==
  ASSUME IsABag(trail), NEW new
  PROVE  \A e \in BagToSet(trail) \cup new :
           (trail (+) SetToBag(new))[e] = (IF e \in BagToSet(trail) THEN trail[e] ELSE 0)
                                          + (IF e \in new THEN 1 ELSE 0)
<1> DEFINE B == SetToBag(new)
<1>1. DOMAIN B = new /\ \A e \in new : B[e] = 1
  BY DEF SetToBag
<1> HIDE DEF B
<1>2. \A e \in DOMAIN trail \cup DOMAIN B :
        (trail (+) B)[e] = (IF e \in DOMAIN trail THEN trail[e] ELSE 0)
                           + (IF e \in DOMAIN B THEN B[e] ELSE 0)
  BY DEF (+)
<1> QED
  BY <1>1, <1>2 DEF BagToSet, B

\* One more of an event.
LEMMA OneMore ==
  ASSUME NEW n \in Int, NEW d \in Int
  PROVE  (n + 1) * d = n * d + d /\ (0 + 1) * d = d /\ n * d \in Int
OBVIOUS

\* What an advance adds.
Gain(seen, new) == IF new.page > seen.page THEN new.page - seen.page ELSE 0

\* A commit adds to the pages read what the position moves forward by.
LEMMA CommitCounts ==
  ASSUME IsABag(trail), IsFiniteSet(BagToSet(trail)), BagToSet(trail) \subseteq Event,
         NEW seen \in Row, NEW new \in Row, NEW next,
         next = trail (+) SetToBag(Moves(seen, new) \cup Changes(seen, new))
  PROVE  /\ IsFiniteSet(BagToSet(next))
         /\ PagesRead(trail) \in Int
         /\ PagesRead(next) = PagesRead(trail) + Gain(seen, new)
<1> DEFINE more == Moves(seen, new) \cup Changes(seen, new)
           d == new.page - seen.page
<1>1. /\ BagToSet(next) = BagToSet(trail) \cup more
      /\ \A e \in BagToSet(trail) \cup more :
           next[e] = (IF e \in BagToSet(trail) THEN trail[e] ELSE 0)
                     + (IF e \in more THEN 1 ELSE 0)
  BY TrailGrows, TrailCounts
<1>2. new.page \in Int /\ seen.page \in Int /\ d \in Int
  BY PageAssumption DEF Row, Pages
<1>3. \A e \in Changes(seen, new) : e.type # "advanced"
  BY DEF Changes
<1>4. IsFiniteSet(Moves(seen, new)) /\ IsFiniteSet(Changes(seen, new))
  BY FS_EmptySet, FS_Singleton DEF Moves, Changes
<1>5. IsFiniteSet(BagToSet(next))
  BY <1>1, <1>4, FS_Union
<1>6. IsFiniteSet(Advances(trail)) /\ IsFiniteSet(Advances(next))
  BY <1>5, FS_Subset DEF Advances
<1>7. Advances(next) = Advances(trail) \cup Moves(seen, new)
  <2>1. \A e \in Moves(seen, new) : e.type = "advanced"
    BY DEF Moves
  <2> QED
    BY <1>1, <1>3, <2>1 DEF Advances
<1>8. ASSUME NEW e \in Advances(trail)
      PROVE  e.to - e.from \in Int /\ trail[e] \in Int /\ Weight(trail)[e] \in Int
             /\ Weight(trail)[e] = trail[e] * (e.to - e.from)
  <2>1. e.from \in Pages /\ e.to \in Pages
    BY DEF Advances, Event
  <2>2. trail[e] \in Int
    BY DEF Advances, BagToSet, IsABag
  <2>3. e.to - e.from \in Int
    BY <2>1, PageAssumption DEF Pages
  <2>4. Weight(trail)[e] = trail[e] * (e.to - e.from)
    BY DEF Weight
  <2> QED
    BY <2>2, <2>3, <2>4, OneMore
<1>9. ASSUME NEW e \in Advances(next)
      PROVE  Weight(next)[e] = next[e] * (e.to - e.from)
  BY DEF Weight
<1>10. PICK it : PagesRead(trail) = it[Advances(trail)] /\ Adds(it, Weight(trail), Advances(trail))
  BY <1>6, PagesAreAdded
<1>11. PICK jt : PagesRead(next) = jt[Advances(next)] /\ Adds(jt, Weight(next), Advances(next))
  BY <1>6, PagesAreAdded
<1>12. PagesRead(trail) \in Int
  BY <1>6, <1>8, <1>10, AddsTyped
<1>13. ASSUME NEW e \in Advances(trail), e \notin Moves(seen, new)
       PROVE  Weight(next)[e] = Weight(trail)[e]
  <2>1. e \in BagToSet(trail) /\ e \notin more /\ e \in Advances(next)
    BY <1>3, <1>7, <1>13 DEF Advances
  <2>2. next[e] = trail[e] + 0
    BY <1>1, <2>1
  <2>3. next[e] = trail[e]
    BY <1>8, <2>2
  <2> QED
    BY <1>8, <1>9, <2>1, <2>3
<1>14. CASE ~(new.page > seen.page)
  <2>1. Moves(seen, new) = {} /\ Gain(seen, new) = 0
    BY <1>14 DEF Moves, Gain
  <2>2. Advances(next) = Advances(trail)
    BY <1>7, <2>1
  <2>3. \A e \in Advances(trail) : Weight(trail)[e] = Weight(next)[e]
    BY <1>13, <2>1
  <2>4. PICK A : A = Advances(trail)
    OBVIOUS
  <2>5. it[A] = jt[A]
    <3>1. PICK w, v : w = Weight(trail) /\ v = Weight(next)
      OBVIOUS
    <3>2. Adds(it, w, A) /\ Adds(jt, v, A) /\ IsFiniteSet(A) /\ A \in SUBSET A
      BY <1>6, <1>10, <1>11, <2>2, <2>4, <3>1
    <3>3. SameOn(w, v, A)
      BY <2>3, <2>4, <3>1 DEF SameOn
    <3> QED
      BY ONLY <3>2, <3>3, AddsAgree
  <2>6. PagesRead(next) = PagesRead(trail)
    BY <1>10, <1>11, <2>2, <2>4, <2>5
  <2> QED
    BY <1>5, <1>12, <2>1, <2>6
<1>15. CASE new.page > seen.page
  <2>1. PICK m : m = [type |-> "advanced", from |-> seen.page, to |-> new.page]
    OBVIOUS
  <2>2. Moves(seen, new) = {m} /\ Gain(seen, new) = d /\ m.to - m.from = d
    BY <1>15, <2>1 DEF Moves, Gain
  <2>3. PICK rest : rest = Advances(trail) \ {m}
    OBVIOUS
  <2>4. Advances(next) \ {m} = rest /\ m \in Advances(next) /\ rest \in SUBSET Advances(trail)
        /\ rest \in SUBSET Advances(next)
    BY <1>7, <2>2, <2>3
  <2>5. it[rest] = jt[rest]
    <3>1. \A e \in rest : Weight(trail)[e] = Weight(next)[e]
      BY <1>13, <2>2, <2>3
    <3>2. IsFiniteSet(rest)
      BY <1>6, <2>4, FS_Subset
    <3>3. PICK w, v, A, B : /\ w = Weight(trail) /\ v = Weight(next)
                            /\ A = Advances(trail) /\ B = Advances(next)
      OBVIOUS
    <3>4. Adds(it, w, A) /\ Adds(jt, v, B) /\ rest \in SUBSET A /\ rest \in SUBSET B
      BY <1>10, <1>11, <2>4, <3>3
    <3>5. SameOn(w, v, rest)
      BY <3>1, <3>3 DEF SameOn
    <3> QED
      BY ONLY <3>2, <3>4, <3>5, AddsAgree
  <2>6. it[rest] \in Int
    BY <1>6, <1>8, <1>10, <2>4, AddsTyped
  <2>7. Weight(next)[m] = (IF m \in Advances(trail) THEN Weight(trail)[m] ELSE 0) + d
    <3>1. m.type = "advanced" /\ m \in more
      BY <2>1, <2>2
    <3>2. next[m] = (IF m \in BagToSet(trail) THEN trail[m] ELSE 0) + 1
      BY <1>1, <3>1
    <3>3. m \in BagToSet(trail) <=> m \in Advances(trail)
      BY <3>1 DEF Advances
    <3>4. Weight(next)[m] = next[m] * d
      BY <1>9, <2>2, <2>4
    <3>5. CASE m \in Advances(trail)
      <4>1. Weight(next)[m] = (trail[m] + 1) * d /\ Weight(trail)[m] = trail[m] * d
        BY <1>8, <2>2, <3>2, <3>3, <3>4, <3>5
      <4>2. trail[m] \in Int
        BY <1>8, <3>5
      <4> HIDE DEF d
      <4> QED
        BY <1>2, <3>5, <4>1, <4>2, OneMore
    <3>6. CASE m \notin Advances(trail)
      <4>1. Weight(next)[m] = (0 + 1) * d
        BY <3>2, <3>3, <3>4, <3>6
      <4> HIDE DEF d
      <4> QED
        BY <1>2, <3>6, <4>1, OneMore
    <3> QED
      BY <3>5, <3>6
  <2>8. Weight(next)[m] \in Int /\ \A e \in Advances(next) : Weight(next)[e] \in Int
    <3>1. Weight(next)[m] \in Int
      <4> HIDE DEF d
      <4> QED
        BY <1>2, <1>8, <2>7
    <3>2. \A e \in Advances(next) : e = m \/ e \in rest
      BY <2>4
    <3>3. \A e \in rest : Weight(next)[e] \in Int
      BY <1>8, <1>13, <2>2, <2>3
    <3>4. PICK v : v = Weight(next)
      OBVIOUS
    <3>5. \A e \in Advances(next) : v[e] \in Int
      BY <3>1, <3>2, <3>3, <3>4
    <3> QED
      BY <3>1, <3>4, <3>5
  <2>9. PagesRead(next) = Weight(next)[m] + it[rest]
    <3>1. jt[Advances(next)] = Weight(next)[m] + jt[Advances(next) \ {m}]
      <4>1. PICK v, B : v = Weight(next) /\ B = Advances(next)
        OBVIOUS
      <4>2. Adds(jt, v, B) /\ IsFiniteSet(B) /\ m \in B /\ B \in SUBSET B
        BY <1>6, <1>11, <2>4, <4>1
      <4>3. \A x \in B : v[x] \in Int
        BY <2>8, <4>1
      <4>4. jt[B] = v[m] + jt[B \ {m}]
        BY ONLY <4>2, <4>3, AddsOne
      <4> QED
        BY <4>1, <4>4
    <3> QED
      BY <1>11, <2>4, <2>5, <3>1
  <2>10. PagesRead(trail) = (IF m \in Advances(trail) THEN Weight(trail)[m] ELSE 0) + it[rest]
    <3>1. CASE m \in Advances(trail)
      <4>1. it[Advances(trail)] = Weight(trail)[m] + it[Advances(trail) \ {m}]
        BY <1>6, <1>8, <1>10, <3>1, AddsOne
      <4> QED
        BY <1>10, <2>3, <3>1, <4>1
    <3>2. CASE m \notin Advances(trail)
      <4>1. rest = Advances(trail)
        BY <2>3, <3>2
      <4> QED
        BY <1>10, <2>6, <3>2, <4>1
    <3> QED
      BY <3>1, <3>2
  <2>11. (IF m \in Advances(trail) THEN Weight(trail)[m] ELSE 0) \in Int
    BY <1>8
  <2>12. PICK w \in Int, r \in Int, g \in Int :
           /\ PagesRead(trail) = w + r /\ PagesRead(next) = (w + g) + r /\ Gain(seen, new) = g
    <3> HIDE DEF d
    <3> QED
      BY <1>2, <2>2, <2>6, <2>7, <2>9, <2>10, <2>11
  <2> QED
    BY <1>5, <1>12, <2>12
<1> QED
  BY <1>14, <1>15

\* Unless updates overlapped, a request knows the position it is about to change.
KnowsPosition ==
  ~raced /\ alive => \A p \in Puts : put[p].pc = "loaded" =>
    /\ put[p].seen = None <=> row = None
    /\ row # None => put[p].seen.page = row.page

\* The trail is finite, empty until there is a row, and then accounts for the position.
AccountInv ==
  /\ IsFiniteSet(BagToSet(trail))
  /\ alive /\ row = None => trail = EmptyBag /\ back = 0
  /\ PagesAccounted
  /\ KnowsPosition

\* Nothing has been read at first.
LEMMA NothingRead == IsFiniteSet(BagToSet(EmptyBag)) /\ PagesRead(EmptyBag) = 0
<1>1. BagToSet(EmptyBag) = {}
  BY DEF BagToSet, EmptyBag, SetToBag
<1>2. Advances(EmptyBag) = {}
  BY <1>1 DEF Advances
<1>3. IsFiniteSet({})
  BY FS_EmptySet
<1>4. PICK it : PagesRead(EmptyBag) = it[{}] /\ Adds(it, Weight(EmptyBag), {})
  BY <1>2, <1>3, PagesAreAdded
<1>5. it[{}] = 0
  BY <1>4 DEF Adds
<1> QED
  BY <1>1, <1>3, <1>4, <1>5

\* Pages read and pages given back keep up with the position.
LEMMA Balance ==
  ASSUME NEW read \in Int, NEW was \in Nat, NEW is \in Nat, NEW gone \in Nat, read = was + gone
  PROVE  read + (IF is > was THEN is - was ELSE 0)
           = is + (IF is < was THEN gone + (was - is) ELSE gone)
<1>1. CASE is > was
  BY <1>1
<1>2. CASE is < was
  BY <1>2
<1>3. CASE is = was
  BY <1>3
<1> QED
  BY <1>1, <1>2, <1>3

\* A commit keeps the pages accounted for.
LEMMA CommitAccounts ==
  ASSUME TypeOK, AccountInv, NEW p \in Puts, CommitPut(p)
  PROVE  AccountInv'
<1>1. StoreTyped /\ RequestsTyped /\ IsABag(trail) /\ BagToSet(trail) \subseteq Event
      /\ IsFiniteSet(BagToSet(trail))
  BY DEF TypeOK, StoreTyped, AccountInv
<1>2. PICK old, seen, new \in Row, body \in Bodies : Commits(p, old, seen, new, body)
  BY <1>1, CommitFields
<1>3. /\ alive /\ alive' = alive /\ put[p].pc = "loaded" /\ (put[p].seen = None <=> row = None)
      /\ raced' = (raced \/ \E q \in Puts \ {p} : put[q].pc = "loaded")
  BY DEF CommitPut
<1>4. /\ IsFiniteSet(BagToSet(trail')) /\ PagesRead(trail) \in Int
      /\ PagesRead(trail') = PagesRead(trail) + Gain(seen, new)
  BY <1>1, <1>2, CommitCounts DEF Commits
<1>5. row' \in Row /\ row' # None
      /\ row'.page = IF new.page # seen.page THEN new.page ELSE old.page
  BY <1>2, MergedFields, NoRowAssumption DEF Commits
<1>6. /\ old.page \in Nat /\ seen.page \in Nat /\ new.page \in Nat
      /\ back \in Nat
  BY <1>1, PageAssumption DEF Row, Pages, StoreTyped
<1>7. ASSUME ~raced' PROVE PagesRead(trail') = row'.page + back'
  <2>1. ~raced
    BY <1>3, <1>7
  <2>2. seen.page = old.page
    BY <1>2, <1>3, <2>1 DEF Commits, AccountInv, KnowsPosition
  <2>3. PagesRead(trail) = old.page + back
    <3>1. CASE row = None
      <4>1. trail = EmptyBag /\ back = 0 /\ old.page = 0
        BY <1>2, <1>3, <3>1 DEF AccountInv, Commits, NewRow
      <4> QED
        BY <4>1, NothingRead
    <3>2. CASE row # None
      BY <1>2, <2>1, <3>2 DEF AccountInv, PagesAccounted, Commits
    <3> QED
      BY <3>1, <3>2
  <2>4. row'.page = new.page
    BY <1>5, <2>2
  <2>5. back' = IF new.page < old.page THEN back + (old.page - new.page) ELSE back
    BY <1>2, <2>4 DEF Commits
  <2>6. Gain(seen, new) = IF new.page > old.page THEN new.page - old.page ELSE 0
    BY <2>2 DEF Gain
  <2> QED
    BY <1>4, <1>6, <2>3, <2>4, <2>5, <2>6, Balance
<1>8. put'[p].pc # "loaded" /\ \A q \in Puts \ {p} : put'[q] = put[q]
  BY <1>1, <1>2 DEF Commits, RequestsTyped, NoPut, Put
<1>9. KnowsPosition'
  BY <1>3, <1>8 DEF KnowsPosition
<1> QED
  BY <1>4, <1>5, <1>7, <1>9 DEF AccountInv, PagesAccounted

\* So does every other step.
LEMMA AccountStep ==
  ASSUME TypeOK, AccountInv, [Next]_vars
  PROVE  AccountInv'
<1> USE DEF history
<1>1. StoreTyped /\ RequestsTyped
  BY DEF TypeOK
<1>2. ASSUME UNCHANGED <<alive, trail, row, back, raced>>,
             \A p \in Puts : put'[p].pc = "loaded" => put'[p] = put[p] \/ put'[p].seen = row
      PROVE  AccountInv'
  <2>1. KnowsPosition'
    BY <1>2 DEF AccountInv, KnowsPosition
  <2>2. PagesAccounted'
    BY <1>2 DEF AccountInv, PagesAccounted
  <2> QED
    BY <1>2, <2>1, <2>2 DEF AccountInv
<1>3. ASSUME NEW p \in Puts, NEW by \in {"screen", "agent"}, LoadPut(p, by) PROVE AccountInv'
  <2>1. UNCHANGED <<alive, trail, row, back, raced>> /\ \A q \in Puts \ {p} : put'[q] = put[q]
    BY <1>1, <1>3 DEF LoadPut, RequestsTyped
  <2>2. put'[p].pc = "loaded" => put'[p].seen = row
    BY <1>1, <1>3 DEF LoadPut, RequestsTyped, NoPut
  <2> QED
    BY <1>2, <2>1, <2>2
<1>4. ASSUME NEW p \in Puts, PutFails(p) \/ Answer(p) PROVE AccountInv'
  <2>1. /\ UNCHANGED <<alive, trail, row, back, raced>>
        /\ put' = [put EXCEPT ![p] = [NoPut EXCEPT !.pc = "done"]]
    BY <1>4 DEF PutFails, Answer
  <2>2. put'[p].pc = "done" /\ \A q \in Puts \ {p} : put'[q] = put[q]
    BY <1>1, <2>1 DEF RequestsTyped, NoPut
  <2> QED
    BY <1>2, <2>1, <2>2
<1>5. ASSUME NEW t \in Recaps, Advance(t) PROVE AccountInv'
  <2>1. row # None /\ row \in Row /\ UNCHANGED <<alive, trail, put, back, raced>>
    BY <1>1, <1>5 DEF Advance, StoreTyped
  <2>2. row'.page = row.page /\ row' # None
    <3>1. PICK end \in 1..LastPage :
            row' = IF Mark(recap[t].mark, end) = recap[t].mark THEN row
                   ELSE [row EXCEPT !.mark = Mark(recap[t].mark, end)]
      BY <1>5 DEF Advance
    <3>2. row'.page = row.page
      BY <2>1, <3>1 DEF Row
    <3>3. row' \in Row
      <4>1. end \in Pages
        BY PageAssumption DEF Pages
      <4> QED
        BY <2>1, <3>1, <4>1 DEF Mark, Row
    <3> QED
      BY <3>2, <3>3, NoRowAssumption
  <2>3. KnowsPosition'
    BY <2>1, <2>2 DEF AccountInv, KnowsPosition
  <2>4. PagesAccounted'
    BY <2>1, <2>2 DEF AccountInv, PagesAccounted
  <2> QED
    BY <2>1, <2>2, <2>3, <2>4 DEF AccountInv
<1>6. ASSUME NEW t \in Recaps, LoadRecap(t) \/ DropRecap(t) PROVE AccountInv'
  BY <1>2, <1>6 DEF LoadRecap, DropRecap
<1>7. ASSUME NEW v \in Viewers, Analyse(v) PROVE AccountInv'
  BY <1>2, <1>7 DEF Analyse, ReadTrail, Store
<1>8. CASE Refresh \/ Expire \/ Ingest \/ UNCHANGED vars
  BY <1>2, <1>8 DEF Refresh, Expire, Ingest, vars
<1>9. CASE Delete
  <2>1. ~alive' /\ row' = None /\ trail' = EmptyBag
    BY <1>9 DEF Delete
  <2> QED
    BY <2>1, NothingRead DEF AccountInv, PagesAccounted, KnowsPosition
<1> QED
  BY <1>3, <1>4, <1>5, <1>6, <1>7, <1>8, <1>9, CommitAccounts DEF Next, Request

\* The pages counted as read are the position plus all movement backwards: nothing is
\* counted twice or lost, as long as no two updates overlapped
\* (analytics_service.py:106-111).
THEOREM PagesAlwaysAccounted == Spec => []PagesAccounted
<1>1. Init => AccountInv
  BY NothingRead DEF Init, AccountInv, PagesAccounted, KnowsPosition, NoPut
<1>2. TypeOK /\ AccountInv /\ [Next]_vars => AccountInv'
  BY AccountStep
<1>3. AccountInv => PagesAccounted
  BY DEF AccountInv
<1> QED
  BY <1>1, <1>2, <1>3, ProgressInit, ProgressStep, PTL DEF Spec
=============================================================================
