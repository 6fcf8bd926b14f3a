SPECIFICATION Spec
CONSTANTS
  None = None
  RecordTypes <- AllRecords
  Written = {"ai", "mbbi"}
  PutsTo <- Puts
  Writers = {v, w}
  Values = {0, 1, 2}
  FieldValues = {1, 2}
  Strings = {"c"}
  Metadata <- DBRs
  MaxWrites = 2
  MaxPuts <- PutBounds
SYMMETRY Symmetry
CHECK_DEADLOCK FALSE
INVARIANTS FieldsFollowAlarm
PROPERTIES AlarmFitsValue FieldsAreIndependent TransientIsKept RawNamesValue
