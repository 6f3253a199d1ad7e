\* A client reads as many pages as it is told that there are.
CONSTANTS
  a = a
  ab = ab
  anonymous = anonymous
  Name = {a, ab}
  Prefixes <- MCPrefixes
  Viewer = {a, anonymous}
  Uid = {1, 2}
  Limit = {1, 2, 3}
  Garbage = {}
  InitialUsers <- MCInitialUsers
  MaxUsers = 2
  MaxFiles = 5
  MaxPages = 6
  MaxFailures = 0
SPECIFICATION Spec
INVARIANTS
  PagesEndListing
CHECK_DEADLOCK FALSE
