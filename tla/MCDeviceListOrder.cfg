SPECIFICATION ListSpec
CONSTANTS
  Answers <- CameraAndOther
  Texts <- NoText
INVARIANT
  VisibleInOrder
