SPECIFICATION FairSpec
CONSTANT
  Scenes <- AnyScene
INVARIANTS
  ReleaseIsTried
  ReleasedForGood
  NoSpuriousGiveUp
  ReadsTheRightRegister
PROPERTIES
  ModeUpdate
  InOrder
  Returns
