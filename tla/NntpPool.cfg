CONSTANTS
  Callers = {a, b, c}
  Conns = {x1, x2, x3, x4, x5}
  MaxConnections = 2
  NoConn = NoConn
SPECIFICATION Spec
SYMMETRY Sym
INVARIANTS OpenExact RepliesInSync WithinLimit
