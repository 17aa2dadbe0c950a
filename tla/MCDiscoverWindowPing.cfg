SPECIFICATION FairSpec
CONSTANTS
  Answers <- VisardOnly
  Texts <- NoText
  PingMayThrow = TRUE
  MaxRounds = 1
  MaxBatch = 1
  Dialogs = {"reset"}
PROPERTY
  ButtonComesBack
