\* Two sessions store and fetch files of two bytes on a disk that does not
\* hold both; clients choose packages smaller and larger than the file.
CONSTANTS
  INBUFSIZE = 2
  PACKAGE_SIZE = 1
  SizeofPd = 1
  SizeMod = 5
  Desc = {d1, d2, d3, d4}
  NoFd = NoFd
  u1 = u1
  Name = {u1}
  Anonymous = Anonymous
  NoName = NoName
  Path = {p1, p2}
  NoPath = NoPath
  Garbage = {1}
  Size = {2}
  PackageSize = {1, 3}
  Capacity = 3
  Postgres = FALSE
  InitialUsers <- NoUsers
  MaxUsers = 1
  MaxFiles = 2
SYMMETRY MCSymmetry
SPECIFICATION Spec
INVARIANTS
  TypeOK
  PathsOwned
  RowsIntact
  DescriptorsReturned
PROPERTIES
  ImplementsStore
