------------------------------ MODULE Progress ------------------------------
(***************************************************************************)
(* Reading progress of one user in one document: the progress row, the     *)
(* trail of reading events, the recap mark, the reading screen of the      *)
(* browser, and the analytics that are computed from the trail and cached. *)
(*                                                                         *)
(* A request reads the row, decides, and commits.  Its UPDATE names only   *)
(* the columns that differ from what it read, so a request that overlaps   *)
(* another one may merge with it.  Row locks make the flush and the commit *)
(* of a request one step here.                                             *)
(*                                                                         *)
(* Abstractions: last_accessed_at is left out; the trailing window and the *)
(* calendar of the analytics are in Figures; a summary is the pages it     *)
(* counts, its counts of documents by status are left out.                 *)
(***************************************************************************)
EXTENDS Naturals, FiniteSets, Bags, FiniteSetsExt

CONSTANTS
  Puts,      \* requests of PUT /progress/{id}, or of the agent's tool
  Recaps,    \* agent turns that save a summary and advance the mark
  Viewers,   \* requests of GET /analytics
  Bodies,    \* the bodies those requests may have
  LastPage,  \* page_count, once the document is ingested
  None       \* an absent row, field, page count or summary

ASSUME PageAssumption == LastPage \in Nat \ {0}
ASSUME NoneAssumption == None \notin Nat

VARIABLES
  alive,    \* the document exists
  length,   \* documents.page_count
  row,      \* the reading_progress row, or None
  trail,    \* reading_events, a bag
  put,      \* what each update request is doing
  recap,    \* what each recap is doing
  screen,   \* the row the reading screen shows, or None
  cache,    \* the analytics entry in Redis, or None: the pages and whether it expires
  view,     \* what each analytics request is doing, and the pages it counted
  back,     \* history: pages the position has been moved back
  raced,    \* history: an update overlapped another one
  lapped,   \* history: a recap overlapped another one
  muddled   \* history: the row changed behind the screen since its last refresh

history == <<back, raced, lapped, muddled>>
vars == <<alive, length, row, trail, put, recap, screen, cache, view, history>>

-----------------------------------------------------------------------------
Status  == {"not_started", "reading", "completed", "cancelled"}
Spoiler == {"default", "on"}
Pages   == 0..(LastPage + 1)    \* the positions a request may ask for
Row     == [page : Pages, mark : Pages, status : Status, spoiler : Spoiler]
NewRow  == [page |-> 0, mark |-> 0, status |-> "not_started", spoiler |-> "default"]
ASSUME NoRowAssumption == None \notin Row

Payload == [page : Pages \cup {None}, status : Status \cup {None},
            spoiler : Spoiler \cup {None}]    \* the fields of a body
ASSUME BodyAssumption == Bodies \subseteq Payload

Event   == [type : {"advanced"}, from : Pages, to : Pages]
             \cup [type : {"completed", "status_changed"}, from : {None}, to : Pages]

Put   == [pc : {"new", "loaded", "answer", "done"}, by : {"screen", "agent"},
          count : Nat \cup {None}, seen : Row \cup {None}]
Recap == [pc : {"new", "loaded", "done"}, mark : Pages \cup {None}]

NoPut   == [pc |-> "new", by |-> "screen", count |-> None, seen |-> None]
NoRecap == [pc |-> "new", mark |-> None]
NoView  == [pc |-> "idle", pages |-> 0]

OnScreen == {p \in Puts : put[p].by = "screen" /\ put[p].pc \in {"loaded", "answer"}}

-----------------------------------------------------------------------------
\* update_progress's decisions, pure.

Valid(page, count) == count # None => page <= count

Resolve(explicit, page, previous, count) ==
  IF explicit # None THEN explicit
  ELSE IF count # None /\ page >= count /\ page > 0 THEN "completed"
  ELSE IF page > 0 /\ previous = "not_started" THEN "reading"
  ELSE previous

\* The row object after the payload is applied to it.
Applied(seen, body, count) ==
  [page    |-> IF body.page # None THEN body.page ELSE seen.page,
   mark    |-> seen.mark,
   status  |-> IF body.page # None
                 THEN Resolve(body.status, body.page, seen.status, count)
               ELSE IF body.status # None THEN body.status ELSE seen.status,
   spoiler |-> IF body.spoiler # None THEN body.spoiler ELSE seen.spoiler]

\* What the UPDATE leaves in the database: only changed columns are written.
Merged(old, seen, new) == [f \in DOMAIN old |-> IF new[f] # seen[f] THEN new[f] ELSE old[f]]

\* Variant with a bug: every forward move counts from the first page.
MovesFromStart(seen, new) ==
  IF new.page > seen.page THEN {[type |-> "advanced", from |-> 0, to |-> new.page]} ELSE {}

\* A forward move leaves an event.
Moves(seen, new) ==
  IF new.page > seen.page
    THEN {[type |-> "advanced", from |-> seen.page, to |-> new.page]} ELSE {}

\* Variant with a bug: only the end of the book is recorded.
ChangesToEnd(seen, new) ==
  {[type |-> "completed", from |-> None, to |-> new.page] :
     s \in {new.status} \cap ({"completed"} \ {seen.status})}

\* So does a change of status.
Changes(seen, new) ==
  IF new.status = seen.status THEN {}
  ELSE {[type |-> IF new.status = "completed" THEN "completed" ELSE "status_changed",
         from |-> None, to |-> new.page]}

\* A commit that the screen will not show as it is, until it is refreshed.
ScreenMissed(behind) == muddled' = (muddled \/ behind)

-----------------------------------------------------------------------------
\* A request is let in and reads the document and its progress row.
LoadPut(p, by) ==
  /\ put[p].pc = "new"
  /\ put' = [put EXCEPT ![p] =
       IF alive THEN [pc |-> "loaded", by |-> by, count |-> length, seen |-> row]
                ELSE [NoPut EXCEPT !.pc = "done"]]
  /\ UNCHANGED <<alive, length, row, trail, recap, screen, cache, view, history>>

\* It ends without a trace: 422 for a page past the end, or 500 when another
\* request inserted the row first or the document is gone.
PutFails(p) ==
  /\ put[p].pc = "loaded"
  /\ \/ put[p].seen = None /\ row # None
     \/ ~alive
     \/ \E b \in Bodies : b.page # None /\ ~Valid(b.page, put[p].count)
  /\ put' = [put EXCEPT ![p] = [NoPut EXCEPT !.pc = "done"]]
  /\ UNCHANGED <<alive, length, row, trail, recap, screen, cache, view, history>>

\* It inserts or updates the row, appends the events and commits.  It answers with
\* the row as its session holds it.  The agent's tool only sets the position.
CommitPut(p) ==
  /\ put[p].pc = "loaded"
  /\ alive
  /\ put[p].seen = None <=> row = None
  /\ \E body \in Bodies :
       LET seen == IF put[p].seen = None THEN NewRow ELSE put[p].seen
           old  == IF row = None THEN NewRow ELSE row
           new  == Applied(seen, body, put[p].count)
           next == Merged(old, seen, new)
       IN
       /\ put[p].by = "agent" => body.page # None /\ body.status = None
       /\ body.page # None => Valid(body.page, put[p].count)
       /\ row' = next
       /\ trail' = trail (+) SetToBag(Moves(seen, new) \cup Changes(seen, new))
       /\ put' = [put EXCEPT ![p] = IF @.by = "agent" THEN [NoPut EXCEPT !.pc = "done"]
                                   ELSE [@ EXCEPT !.pc = "answer", !.seen = new, !.count = None]]
       /\ back' = IF next.page < old.page THEN back + (old.page - next.page) ELSE back
       /\ raced' = (raced \/ \E q \in Puts \ {p} : put[q].pc = "loaded")
       /\ ScreenMissed(put[p].by = "agent" \/ OnScreen # {p})
  /\ UNCHANGED <<alive, length, recap, screen, cache, view, lapped>>

\* Variant with a bug: the screen keeps what it showed before.
AnswerIgnored(p) ==
  /\ put[p].pc = "answer"
  /\ put' = [put EXCEPT ![p] = [NoPut EXCEPT !.pc = "done"]]
  /\ UNCHANGED <<alive, length, row, trail, recap, screen, cache, view, history>>

\* The answer arrives; the screen shows it.
Answer(p) ==
  /\ put[p].pc = "answer"
  /\ put' = [put EXCEPT ![p] = [NoPut EXCEPT !.pc = "done"]]
  /\ screen' = put[p].seen
  /\ UNCHANGED <<alive, length, row, trail, recap, cache, view, history>>

-----------------------------------------------------------------------------
\* The screen is opened or refreshed: it shows the row, unless that is in a status
\* that no group of the reading list has.
Refresh ==
  /\ screen' = IF row # None /\ row.status # "not_started" THEN row ELSE None
  /\ muddled' = (OnScreen # {})
  /\ UNCHANGED <<alive, length, row, trail, put, recap, cache, view, back, raced, lapped>>

-----------------------------------------------------------------------------
\* Variant with a bug: the mark is set to the end of the saved range.
MarkSet(mark, page) == page

Mark(mark, page) == IF page > mark THEN page ELSE mark

\* The turn that the reader's decision resumes reads the row, whose object stays in
\* its session while it summarises.
LoadRecap(t) ==
  /\ recap[t].pc = "new"
  /\ row # None
  /\ row.page > row.mark
  /\ recap' = [recap EXCEPT ![t] = [pc |-> "loaded", mark |-> row.mark]]
  /\ UNCHANGED <<alive, length, row, trail, put, screen, cache, view, history>>

\* The summary of pages up to "end", which the reader may have edited, is saved; the
\* mark is advanced from what the turn read.
Advance(t) ==
  /\ recap[t].pc = "loaded"
  /\ row # None
  /\ \E end \in 1..LastPage :
       LET new == Mark(recap[t].mark, end) IN
         row' = IF new = recap[t].mark THEN row ELSE [row EXCEPT !.mark = new]
  /\ recap' = [recap EXCEPT ![t] = [NoRecap EXCEPT !.pc = "done"]]
  /\ lapped' = (lapped \/ \E u \in Recaps \ {t} : recap[u].pc = "loaded")
  /\ ScreenMissed(TRUE)
  /\ UNCHANGED <<alive, length, trail, put, screen, cache, view, back, raced>>

\* The reader denies, the turn dies, or the row is gone.
DropRecap(t) ==
  /\ recap[t].pc = "loaded"
  /\ recap' = [recap EXCEPT ![t] = [NoRecap EXCEPT !.pc = "done"]]
  /\ UNCHANGED <<alive, length, row, trail, put, screen, cache, view, history>>

-----------------------------------------------------------------------------
\* The pages the trail counts: forward movement only.
PagesRead(events) ==
  MapThenSumSet(LAMBDA e : events[e] * (e.to - e.from),
                {e \in BagToSet(events) : e.type = "advanced"})

\* GET /analytics: unless there is a cached summary to serve, the trail is read and
\* aggregated,
ReadTrail(v) ==
  /\ view[v].pc = "idle"
  /\ cache = None
  /\ view' = [view EXCEPT ![v] = [pc |-> "storing", pages |-> PagesRead(trail)]]
  /\ UNCHANGED <<alive, length, row, trail, put, recap, screen, cache, history>>

\* Variant with a bug: the entry never expires.
StoreForever(v) ==
  /\ view[v].pc = "storing"
  /\ cache' = [pages |-> view[v].pages, ttl |-> FALSE]
  /\ view' = [view EXCEPT ![v] = NoView]
  /\ UNCHANGED <<alive, length, row, trail, put, recap, screen, history>>

\* and the summary is cached for its time to live.
Store(v) ==
  /\ view[v].pc = "storing"
  /\ cache' = [pages |-> view[v].pages, ttl |-> TRUE]
  /\ view' = [view EXCEPT ![v] = NoView]
  /\ UNCHANGED <<alive, length, row, trail, put, recap, screen, history>>

Expire ==
  /\ cache # None
  /\ cache.ttl
  /\ cache' = None
  /\ UNCHANGED <<alive, length, row, trail, put, recap, screen, view, history>>

-----------------------------------------------------------------------------
\* The ingestion pipeline commits the page count.
Ingest ==
  /\ alive /\ length = None
  /\ length' = LastPage
  /\ UNCHANGED <<alive, row, trail, put, recap, screen, cache, view, history>>

\* The document is deleted; its progress and its events go with it.
Delete ==
  /\ alive
  /\ alive' = FALSE /\ row' = None /\ trail' = EmptyBag
  /\ ScreenMissed(TRUE)
  /\ UNCHANGED <<length, put, recap, screen, cache, view, back, raced, lapped>>

-----------------------------------------------------------------------------
Init ==
  /\ alive = TRUE /\ length \in {None, LastPage}
  /\ row = None /\ trail = EmptyBag
  /\ put = [p \in Puts |-> NoPut]
  /\ recap = [t \in Recaps |-> NoRecap]
  /\ screen = None
  /\ cache = None
  /\ view = [v \in Viewers |-> NoView]
  /\ back = 0 /\ raced = FALSE /\ lapped = FALSE /\ muddled = FALSE

Request(p) == PutFails(p) \/ CommitPut(p) \/ Answer(p)
Analyse(v) == ReadTrail(v) \/ Store(v)

Next ==
  \/ \E p \in Puts : (\E by \in {"screen", "agent"} : LoadPut(p, by)) \/ Request(p)
  \/ \E t \in Recaps : LoadRecap(t) \/ Advance(t) \/ DropRecap(t)
  \/ \E v \in Viewers : Analyse(v)
  \/ Refresh \/ Expire \/ Ingest \/ Delete

Spec == Init /\ [][Next]_vars

(***************************************************************************)
(* Fairness.  A request that is let in is worked off and Redis expires its *)
(* keys; nobody has to send a request.                                     *)
(***************************************************************************)
FairSpec ==
  /\ Spec
  /\ \A p \in Puts : WF_vars(Request(p))
  /\ \A v \in Viewers : WF_vars(Store(v))
  /\ WF_vars(Expire)

-----------------------------------------------------------------------------
\* The document, its row and its trail.
StoreTyped ==
  /\ alive \in BOOLEAN /\ length \in {None, LastPage}
  /\ row \in Row \cup {None}
  /\ ~alive => row = None
  /\ IsABag(trail) /\ BagToSet(trail) \subseteq Event
  /\ back \in Nat /\ raced \in BOOLEAN /\ lapped \in BOOLEAN /\ muddled \in BOOLEAN

\* The requests and the screen.
RequestsTyped ==
  /\ put \in [Puts -> Put]
  /\ recap \in [Recaps -> Recap]
  /\ \A t \in Recaps : recap[t].pc = "loaded" <=> recap[t].mark # None
  /\ screen \in Row \cup {None}

TypeOK == StoreTyped /\ RequestsTyped

\* However requests interleave, the trail accounts for the row: each page up to the
\* position lies within a recorded advance, and each status a reader is in was
\* recorded when it was entered (progress_service.py:15).
TrailExplainsRow ==
  row # None =>
    LET events == BagToSet(trail) IN
    /\ \A n \in 1..row.page : \E e \in events : e.type = "advanced" /\ e.from < n /\ n <= e.to
    /\ row.status = "completed" => \E e \in events : e.type = "completed"
    /\ row.status \in {"reading", "cancelled"} => \E e \in events : e.type = "status_changed"

\* The pages counted as read are the position plus all movement backwards: nothing is
\* counted twice or lost, as long as no two updates overlapped
\* (analytics_service.py:106-111).
PagesAccounted ==
  row # None /\ ~raced => PagesRead(trail) = row.page + back

\* The recap mark never moves back while recaps do not overlap: pages already
\* summarised are not summarised again (progress_service.py:221-226).
MarkGrowsAlone ==
  [][row # None /\ row' # None /\ ~lapped' => row'.mark >= row.mark]_vars

\* With nothing under way and no change from elsewhere since the last refresh, the
\* screen shows the stored row, or nothing for one that is not started.
ScreenIsTrue ==
  ~muddled /\ OnScreen = {} =>
    \/ screen = row
    \/ screen = None /\ row.status = "not_started"

\* Once no update is under way any more, the cached analytics end up gone or right,
\* even if a summary computed earlier was stored late.
AnalyticsCatchUp ==
  \/ []<>(\E p \in Puts : put[p].pc = "loaded")
  \/ <>[](cache = None \/ cache.pages = PagesRead(trail))
=============================================================================
