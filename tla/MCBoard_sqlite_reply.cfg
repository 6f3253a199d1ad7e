\* db_sqlite.c: the reply to a failed insertion.
CONSTANTS
  INBUFSIZE = 2
  PACKAGE_SIZE = 1
  SizeofPd = 1
  SizeMod = 5
  Desc = {d1, d2, d3, d4}
  NoFd = NoFd
  u1 = u1
  Name = {u1}
  Anonymous = Anonymous
  NoName = NoName
  Path = {p1, p2}
  NoPath = NoPath
  Garbage = {1}
  Size = {1}
  PackageSize = {1}
  Capacity = 3
  Postgres = FALSE
  InitialUsers <- MCInitialUsers
  MaxUsers = 1
  MaxFiles = 2
SYMMETRY MCSymmetry
SPECIFICATION Spec
INVARIANTS
  SavedReplyIsTrue
