\* Two clients with every kind of request, a game that starts and stops, a server that may be disposed.
SPECIFICATION Spec
CONSTANTS
  agent = agent
  other = other
  None = None
  Clients = {agent, other}
  Kinds = {"ping", "reload", "outside"}
  MaxExchanges = 2
INVARIANTS TypeOK AckIsTrue FlagIsOneFrameOld
PROPERTIES QueuedReloadRuns DrainEnds ExchangeEnds ListenerComesBack
