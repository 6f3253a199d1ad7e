\* Three descriptors: up to three sessions, or two of which one transfers.
CONSTANTS
  MaxFd = 3
  Size <- MCSize
  MaxPending = 1
  MaxBacklog = 1
SPECIFICATION Spec
INVARIANTS
  TypeOK
  LinesDoNotWait
PROPERTIES
  EveryLineServed
  QuietWhenIdle
CHECK_DEADLOCK FALSE
