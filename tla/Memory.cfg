\* Two ids, two writers, a summary and a delete request.
SPECIFICATION Spec
CONSTANTS
  i1 = i1  i2 = i2  i3 = i3  w1 = w1  w2 = w2  s1 = s1  d1 = d1
  likes = likes  loves = loves
  Ids = {i1, i2}
  Writers = {w1, w2}
  Savers = {s1}
  Deleters = {d1}
  Kinds = {"fact", "habit"}
  Texts = {likes, loves}
  Meaning <- MeaningOf
  LastPage = 1
  None = None
INVARIANTS RowsAreRecallable DeletedIsForgotten VectorMatchesText NoTwins SaidIsKept
SYMMETRY Symmetry
CHECK_DEADLOCK FALSE
