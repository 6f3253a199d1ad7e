\* Clients that wait for answers or not, over a network that cuts anywhere;
\* a read or a write may fail.
CONSTANTS
  INBUFSIZE = 4
  PACKAGE_SIZE = 4
  SizeofPd = 2
  SizeMod = 8
  MaxCommands = 3
  MaxFailures = 1
  Failing <- MCFailing
  Script <- MCScripts
SPECIFICATION Spec
INVARIANTS
  TypeOK
  ReadHasRoom
  BytesInOrder
  LinesAreMessages
  FileArrives
  NoShortFile
  DescriptionIsText
  DescriptionKept
  NoClientWaits
PROPERTIES
  MessagesAnswered
  UploadEnds
  DescriptionEnds
CHECK_DEADLOCK FALSE
