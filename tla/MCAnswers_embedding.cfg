SPECIFICATION Spec
CONSTANTS
  Requests = {r1, r2}
  Workers = {w1, w2}
  Questions = {"why", "hello"}
  SmallTalk = {"hello"}
  Rankings <- MCRankings
  LocalSize = 2
  Nothing = nothing
  Faults = TRUE
  Budget = 3000
  MinExcerpt = 80
  Sentences <- MCSentences
  Bytes <- MCBytes
  Density <- MCDensity
SYMMETRY Symmetry
INVARIANTS EmbeddingsAreVectors
CHECK_DEADLOCK FALSE
