SPECIFICATION FairSpec
CONSTANTS
  Out = {peer1}
  In = {client1}
  MaxClients = 1
  Batch = 1
  CounterSize = 3
  MaxQueue = 2
  MaxPending = 1
  MaxSessions = 2
INVARIANTS
  WritesFront
  WriterRuns
PROPERTIES
  DeadDropped
  HandshakeLeaves
