-------------------------- MODULE DocumentLifecycle --------------------------
(***************************************************************************)
(* What ingestion promises a user, with no store, queue or worker in       *)
(* sight.  A document is absent, waiting, ready, failed or removed.  A     *)
(* search sees nothing of it until it is ready and all of it from then on, *)
(* until its owner starts to remove it.                                    *)
(***************************************************************************)
CONSTANTS Docs, SameContent(_, _)

VARIABLES
  life,      \* stage of each document
  visible,   \* what a search can return of it: "none", "part" or "all"
  removing   \* documents whose removal has begun

vars == <<life, visible, removing>>

Present(d) == life[d] \in {"waiting", "ready", "failed"}

Init ==
  /\ life     = [d \in Docs |-> "absent"]
  /\ visible  = [d \in Docs |-> "none"]
  /\ removing = {}

\* The owner submits content they do not have yet.
Submit(d) ==
  /\ life[d] = "absent"
  /\ \A e \in Docs : Present(e) => ~SameContent(d, e)
  /\ life' = [life EXCEPT ![d] = "waiting"]
  /\ UNCHANGED <<visible, removing>>

\* It becomes ready and, in the same step, visible as a whole.  Removal that
\* has begun may already have taken its contents away.
Publish(d) ==
  /\ life[d] \in {"waiting", "failed"}
  /\ life' = [life EXCEPT ![d] = "ready"]
  /\ \E v \in IF d \in removing THEN {"none", "all"} ELSE {"all"} :
       visible' = [visible EXCEPT ![d] = v]
  /\ UNCHANGED removing

GiveUp(d) ==
  /\ life[d] = "waiting"
  /\ life' = [life EXCEPT ![d] = "failed"]
  /\ UNCHANGED <<visible, removing>>

\* Another attempt at a failed document.
Reopen(d) ==
  /\ life[d] = "failed"
  /\ life' = [life EXCEPT ![d] = "waiting"]
  /\ UNCHANGED <<visible, removing>>

\* Removal takes the contents first ...
Hide(d) ==
  /\ life[d] # "absent"
  /\ visible'  = [visible EXCEPT ![d] = "none"]
  /\ removing' = removing \cup {d}
  /\ UNCHANGED life

\* ... and the document last.
Remove(d) ==
  /\ Present(d) /\ d \in removing
  /\ life'    = [life EXCEPT ![d] = "removed"]
  /\ visible' = [visible EXCEPT ![d] = "none"]
  /\ UNCHANGED removing

Next == \E d \in Docs :
  Submit(d) \/ Publish(d) \/ GiveUp(d) \/ Reopen(d) \/ Hide(d) \/ Remove(d)

Spec == Init /\ [][Next]_vars
=============================================================================
