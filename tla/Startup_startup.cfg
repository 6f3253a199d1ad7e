\* Three processes over what an earlier one may have left.
CONSTANTS
  Process = {a, b, c}
  Earlier = Earlier
SPECIFICATION Spec
INVARIANTS
  TypeOK
  LogIsOwn
  LastLogKept
  BackupKept
PROPERTIES
  SomeoneServes
CHECK_DEADLOCK FALSE
