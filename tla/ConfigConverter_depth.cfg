SPECIFICATION Spec
CONSTANTS
  Last = 24
  Words <- SomeWords
  Crc <- SomeCrc
  GivenFiles <- SomeFiles
  MaxRuns = 3
PROPERTIES
  ConvertedWhole
  RoundTrip
CHECK_DEADLOCK FALSE
