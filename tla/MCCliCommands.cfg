SPECIFICATION Spec
CONSTANTS
  Argvs <- CommandLines
  Interfaces <- TwoInterfaces
  Entries <- ThreeEntries
  Lengths = {8, 136, 248}
  MaxAnswers = 3
CHECK_DEADLOCK FALSE
INVARIANTS
  SelectionIsExact
  OneRowPerDevice
  OnlyWhatWasAgreed
  AddressForOne
