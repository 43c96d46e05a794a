\* Any one document, or the directory with the last two, may disappear.
SPECIFICATION Spec
CONSTANTS
  a = a
  b = b
  g = g
  gmd = gmd
  o = o
  sub = sub
  submd = submd
  Parent <- MCParent
  Kind <- MCKind
  Name <- MCName
  Rank <- MCRank
  LocalSets <- MCLocalSets
  FileRules <- MCFileRules
  NestedSets <- MCNestedSets
  LargeSets <- MCLargeSets
  Outs <- MCOuts
  MaxFiles = 3
  MaxGone = 2
INVARIANTS
  ScanIsClean
  NothingIsLost
PROPERTIES
  ScanEnds
