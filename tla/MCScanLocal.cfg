\* Does a scan that respects git's rules match one of a clean checkout?
SPECIFICATION Spec
CONSTANTS
  a = a
  b = b
  g = g
  gmd = gmd
  o = o
  sub = sub
  submd = submd
  Parent <- MCParent
  Kind <- MCKind
  Name <- MCName
  Rank <- MCRank
  LocalSets <- MCLocalToo
  FileRules <- MCNoRules
  NestedSets <- MCNone
  LargeSets <- MCNone
  Outs <- MCNoOut
  MaxFiles = 4
  MaxGone = 0
INVARIANTS
  LocalMatchesClean
