CONSTANTS
  Node <- MCNode
  Root = "root"
  Parent <- MCParent
  IsDir <- MCIsDir
  Above <- MCAbove
  Text <- MCText
  Torn = ""
  Size = 3
  Has <- MCHas
  Sub <- MCSub
  Rank <- MCRank
  Skipped = {".git", ".github"}
  Orbit <- MCOrbit
  Trees <- MCTrees
  MaxRuns = 2
SPECIFICATION FairSpec
INVARIANTS TypeOK PathsResolve NoStalePath LostOnlyInClash SkippedUntouched TornBound AllReplaced
PROPERTIES OpenStable KeepsPromise Terminates
CHECK_DEADLOCK FALSE
