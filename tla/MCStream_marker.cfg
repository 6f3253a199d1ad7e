\* Short texts: the marker begins in one read and ends in the next.
CONSTANTS
  INBUFSIZE = 4
  PACKAGE_SIZE = 4
  SizeofPd = 2
  SizeMod = 8
  MaxCommands = 3
  MaxFailures = 0
  Failing = {}
  Script <- MCShort
SPECIFICATION Spec
INVARIANTS
  MarkerIsSeen
CHECK_DEADLOCK FALSE
