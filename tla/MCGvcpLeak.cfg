SPECIFICATION Spec
CONSTANT
  Scenes <- OnlyFailing
INVARIANT
  ControlIsReleased
