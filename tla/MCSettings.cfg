SPECIFICATION Spec
CONSTANTS
  Numerals = {"0", "1", "7", "9", "640", "1180"}
  Widths = {"640", "1180"}
  Columns = {"0", "7"}
  Filters <- FilterTexts
PROPERTIES
  Restored
