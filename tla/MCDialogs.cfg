SPECIFICATION Spec
CONSTANTS
  Scenes <- AllScenes
  Configs <- TwoConfigs
INVARIANTS
  ShownIsChosen
PROPERTIES
  OnlyConfirmed
  OwnConfigUnlessSilent
  ProposalsFit
