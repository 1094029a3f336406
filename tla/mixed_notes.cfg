SPECIFICATION EditingSpec
CONSTANTS
  None = None
  Editor = page
  EditThread = {}
  Cents = {1, 2}
  MaxDocuments = 3
  MaxEdits = 3
PROPERTIES CheckedNoteFits
CHECK_DEADLOCK FALSE
