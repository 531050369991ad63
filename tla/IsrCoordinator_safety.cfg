SPECIFICATION Spec
CONSTANTS
  NONE = NONE
  Route = {r1, r2}
  File = {f1, f2}
  FileOf <- OwnFiles
  Caller = {c1, c2, c3}
  MaxVersion = 4
SYMMETRY Symmetry
INVARIANTS MutualExclusion NoPartialVisibility VisibleIsNewest AVersionSurvives
