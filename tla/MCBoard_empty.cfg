\* Empty files, whose transfers leave a file or a descriptor behind; users who
\* register and log in, from an empty table, over db_postgresql.c.
CONSTANTS
  INBUFSIZE = 2
  PACKAGE_SIZE = 1
  SizeofPd = 1
  SizeMod = 5
  Desc = {d1, d2, d3, d4}
  NoFd = NoFd
  u1 = u1
  Name = {u1}
  Anonymous = Anonymous
  NoName = NoName
  Path = {p1, p2}
  NoPath = NoPath
  Garbage = {0}
  Size = {0, 2}
  PackageSize = {0, 1}
  Capacity = 2
  Postgres = TRUE
  InitialUsers <- NoUsers
  MaxUsers = 1
  MaxFiles = 2
SYMMETRY MCSymmetry
SPECIFICATION Spec
INVARIANTS
  TransferHasFile
  DescriptorsOwned
  RowOwnerIsUploader
  SavedReplyIsTrue
PROPERTIES
  OrphansOnlyWhileDescribing
