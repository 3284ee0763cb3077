SPECIFICATION FairSpec
CONSTANTS
  Blank = {"", " "}
  BlankText = {"", " "}
  Uppercase <- MCUppercase
  KnownProviders = {"openai", "ollama"}
  Files <- MCFiles
  AbsolutePath <- MCAbsolutePath
  ChannelSize = 1
  MaxEdits = 2
  ConfigFiles <- MCConfigFiles
  Environments <- MCEnvironments
  RoutablePaths = {"/a", "/b"}
  RequestPaths = {"/a", "/b"}
  Connections = {1}
INVARIANTS TypeOK InForceIsUsable ChangesArePending ServesOnValidConfig RoutesAreUnambiguous
PROPERTIES Settles StopsGracefully
CHECK_DEADLOCK FALSE
