\* A second interface may be selected.
SPECIFICATION Spec
CONSTANTS
  None = None
  Ifaces = {1, 2}
  Counter32Max = 2
  ColumnMax = 3
  Counter64Max = 5
  Capacity = 20
  Threshold = 50
  Duration = 2
  Interval = 1
  MaxAge = 3
  MaxSpawned = 1
  Widths = {TRUE, FALSE}
  Answers <- MCComplete
  Loads <- MCOneLoad
PROPERTIES
  RateOfOneInterface
