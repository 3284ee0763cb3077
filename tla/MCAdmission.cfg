SPECIFICATION FairSpec
CONSTANTS
  alice = alice
  bob = bob
  carol = carol
  dave = dave
  erin = erin
  v1 = v1
  v2 = v2
  Clients <- MCClients
  LimitsOf <- MCLimitsOf
  One = 2
  TicksPerSecond = 1
  MaxLag = 1
  Offsets <- MCOffsets
  Expiry = 5
  Never = 99
  Horizon = 7
  Connections <- MCConnections
  Paths = {"chat"}
  MaxConnections = 1
  AuthConfigs <- MCAuthConfigs
  Credentials = {"k1", "k2", "unknown"}
  HandlerErrors = {"ProviderError"}
INVARIANTS AllowanceKept WaitIsEnough HandledHavePaid
 
