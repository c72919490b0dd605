\* Two updates, two recaps, an analytics request.
SPECIFICATION FairSpec
CONSTANTS
  p1 = p1  p2 = p2  t1 = t1  t2 = t2  v1 = v1
  Puts = {p1, p2}
  Recaps = {t1, t2}
  Viewers = {v1}
  Bodies <- SomeBodies
  LastPage = 2
  None = None
INVARIANTS TrailExplainsRow PagesAccounted 
PROPERTIES MarkGrowsAlone AnalyticsCatchUp
CHECK_DEADLOCK FALSE
