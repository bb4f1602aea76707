CONSTANTS
  a = a
  b = b
  Nobody = Nobody
  NoCancel = NoCancel
  Sessions <- Both
  Single <- Both
  Caching <- Both
  MaxSessions = 1
  MaxClosed = 2
SPECIFICATION Spec
SYMMETRY Symmetry
VIEW View
CHECK_DEADLOCK FALSE
INVARIANTS OneReader NothingHeld WebCloseLands
