SPECIFICATION HistorySpec
CONSTANTS
  Height = 2
  MaxRows = 4
  Marks = {"output"}
CHECK_DEADLOCK FALSE
INVARIANT DragKeepsOtherEnd
