SPECIFICATION FairSpec
CONSTANTS
  Answers <- VisardAndOther
  Texts <- NoText
  PingMayThrow = TRUE
  MaxRounds = 2
  MaxBatch = 1
  Dialogs = {"reset"}
INVARIANTS
  ListIsProtected
  JoinDoesNotBlock
  ButtonsFit
PROPERTIES
  DiscoveryEnds
  ButtonComesBackUnlessThrown
