SPECIFICATION FairSpec
CONSTANTS
  Callers = {p1}
  Clients = {c1, c2, c3}
  NoCaller = NoCaller
  NoClient = NoClient
  MaxRetries = 1
  MaxRotations = 1
  MaxAttempts = 2
PROPERTY EveryCallSettles
