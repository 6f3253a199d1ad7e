\* Two sessions register, enter and try again, over either database.
CONSTANTS
  Sd = {s1, s2}
  Name = {"u", "exit"}
  Line <- MCLines
  Pass = {p, q}
  Email = {e, f}
  Garbage = {1}
  MaxUsers = 2
SYMMETRY MCSymmetry
SPECIFICATION Spec
INVARIANTS
  TypeOK
  AccountsDistinct
  SessionIsItsUser
  AcceptedAccountsEnter
  RefusalIsTrue
