SPECIFICATION Spec
CONSTANTS
  Fields = {"a", "b", "wide"}
  TableMax = 2
  MaxHeaders = 2
  MaxList = 4
  MaxBlock = 4
INVARIANT TablesAgree
CHECK_DEADLOCK FALSE
