SPECIFICATION Spec
CONSTANTS
  N = 2
  Scaled = {1}
  Values = {0, 10, 13}
  MaxChanges = 4
PROPERTIES
  RowsFromDevice
  WrittenThrough
  RequestsTakenDown
