\* Uploads of which one read or write fails.
CONSTANTS
  INBUFSIZE = 4
  PACKAGE_SIZE = 4
  SizeofPd = 2
  SizeMod = 8
  MaxCommands = 3
  MaxFailures = 1
  Failing <- MCFailing
  Script <- MCFailing
SPECIFICATION Spec
PROPERTIES
  FinishedIsUploaded
CHECK_DEADLOCK FALSE
