SPECIFICATION Spec
CONSTANTS
  Answers <- VisardOnly
  Texts <- NoText
  PingMayThrow = FALSE
  MaxRounds = 1
  MaxBatch = 1
  Dialogs = {"reset"}
INVARIANT
  WebGUIOfARow
