SPECIFICATION Spec
CONSTANTS
  Call = {1, 2}
  ResultPage = {1, 4}
  Doc <- MCDoc
  Lexical <- MCLexical
  Vectors <- MCVectors
  Indexed <- MCIndexed
  Score <- MCScore
  Workers = 1
  Deadline = 2
  Grace = 1
  MinForDense = 1
  Limit = 1
  CandidatePool = 3
  MaxWindow = 3
  MaxRestarts = 1
INVARIANT AnswersAreSound
PROPERTY CallsEnd
CHECK_DEADLOCK FALSE
