SPECIFICATION ListSpec
CONSTANTS
  Answers <- SameNames
  Texts <- NameOrIfaces
INVARIANTS
  ViewOfFixedColumns
  AnswersAreMerged
  HighlightedAreNew
PROPERTY
  SelectionDoesNotSlip
