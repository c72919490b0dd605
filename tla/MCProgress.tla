----------------------------- MODULE MCProgress -----------------------------
(***************************************************************************)
(* A small instance of Progress for TLC.                                   *)
(***************************************************************************)
EXTENDS Progress, TLC

CONSTANTS p1, p2, t1, t2, v1

Field(page, status, spoiler) == [page |-> page, status |-> status, spoiler |-> spoiler]

\* Positions at the edges of the book, an override of the status, and the setting.
SomeBodies ==
  {Field(1, None, None), Field(LastPage, None, None), Field(LastPage + 1, None, None),
   Field(0, None, "on"), Field(None, "cancelled", None)}
=============================================================================
