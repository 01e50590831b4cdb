CONSTANTS
  x1 = x1  x2 = x2  None = None
  Exchanges <- MCExchanges
  MaxRestarts = 1
SPECIFICATION FairSpec
INVARIANTS TypeOK HardStop OneRunUnlessRaced AnswerFollowsRequest
PROPERTY EveryExchangeIsAnswered
CHECK_DEADLOCK FALSE
