\* One question of each kind, over every small library and input.
SPECIFICATION Spec
CONSTANTS
  me = me  them = them
  Unset = Unset  None = None  Nobody = Nobody
  Corrupt = Corrupt  ParseError = ParseError  Refused = Refused  Unknown = Unknown
  LineEnd = 0
  Untitled = 3
  HistorySeeds = 1  MemorySeeds = 1  Candidates = 4
  TopK = 2  PageFilteredLimit = 4
  Size = 3  Overlap = 2
  Words = {1, 2, 3}
  Topics = {1, 2}
  Readers <- MCReaders
  Shelves <- MCShelves
  Values <- MCValues
  Pages <- MCPages
  Limits <- MCLimits
  Answers <- MCAnswers
  MemoryTypes <- MCMemoryTypes
  Files <- MCFiles
  Cuts <- MCCuts
  Trails <- MCTrails
  Cases <- MCCases
  Pads <- MCPads
  Secret = 9  Redacted = 8  Label = 7
  Typed <- MCTyped
  Attached <- MCAttached
  Proposals <- MCProposals
  HistoryTurns = 1  Overhead = 1  Budget = 14
  MaxTurns = 3  MaxRounds = 1
INVARIANTS  BestIsFound PiecesMakeTheWhole FiguresAddUp JudgesSeeTheTalk TalkIsKept
PROPERTIES WebIsShown
CHECK_DEADLOCK FALSE
