SPECIFICATION Spec
CONSTANTS
  Roots <- MCRoots
  Revision = {"v", "w"}
  None = None
  Shards <- MCShards
  Listed <- MCListed
  Size <- MCSize
  Caches <- MCCaches
  Starts <- MCStarts
  Mains <- MCMains
  Moves <- MCMoves
  Options <- MCOptions
INVARIANTS
  TypeOK
  ReportIsTrue
  CompleteIsFound
  EntryIsOneSnapshot
  CompleteIsAuthentic
CHECK_DEADLOCK FALSE
