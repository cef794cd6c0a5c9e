SPECIFICATION FairSpec
CONSTANTS
  Out = {peer1}
  In = {client1, client2}
  MaxClients = 1
  Batch = 1
  CounterSize = 3
  MaxQueue = 2
  MaxPending = 1
  MaxSessions = 2
INVARIANTS
  ClientsLimited
