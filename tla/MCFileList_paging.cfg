\* A client reads page after page while others register and upload, and
\* queries fail.
CONSTANTS
  a = a
  ab = ab
  anonymous = anonymous
  Name = {a, ab}
  Prefixes <- MCPrefixes
  Viewer = {a, anonymous}
  Uid = {1, 2}
  Limit = {1, 2, 3}
  Garbage <- MCGarbage
  InitialUsers <- MCInitialUsers
  MaxUsers = 2
  MaxFiles = 4
  MaxPages = 5
  MaxFailures = 2
SPECIFICATION Spec
INVARIANTS
  TypeOK
  ListedOnce
  ListedAll
  CountEndsListing
CHECK_DEADLOCK FALSE
