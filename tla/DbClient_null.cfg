SPECIFICATION Spec
CONSTANTS
  Callers = {p1, p2}
  Clients = {c1, c2, c3}
  NoCaller = NoCaller
  NoClient = NoClient
  MaxRetries = 1
  MaxRotations = 0
  MaxAttempts = 2
SYMMETRY Symmetry
INVARIANT NoNullClient
