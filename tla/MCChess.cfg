SPECIFICATION LegalGame
CONSTANTS
  Starts <- MCStarts
  MaxPlies = 2
INVARIANTS PositionOK LegalMovesKeepKing AttacksFollowRules MovesFollowRules SanIdentifiesMove GameEndAgrees CastlingImpliesStep
CHECK_DEADLOCK FALSE
