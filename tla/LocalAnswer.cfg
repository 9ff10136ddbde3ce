SPECIFICATION FairSpec
CONSTANTS
  Prebuffer = 3
  Block = 2
  MaxPiece = 2
  HistoryMessages = 2
  Latency = 1
  MaxTurns = 2
  MaxQuestions = 4
  MaxSentences = 2
  MaxFailures = 1
INVARIANTS TypeOK HeardWhole QuestionIsHeard AnswerIsToItsTurn HistoryInOrder
PROPERTIES AnswerEnds
CHECK_DEADLOCK FALSE
