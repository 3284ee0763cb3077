SPECIFICATION Spec
CONSTANTS
  Blank = {"", " "}
  BlankText = {"", " "}
  Uppercase <- MCUppercase
  KnownProviders = {"openai", "ollama"}
  Files <- MCFiles
  AbsolutePath <- MCAbsolutePath
  ChannelSize = 1
  MaxEdits = 2
  ConfigFiles <- MCConfigFiles
  Environments <- MCEnvironments
  RoutablePaths = {"/a", "/b"}
  RequestPaths = {"/a", "/b"}
  Connections = {1}
PROPERTY AddedRoutesAreServed
CHECK_DEADLOCK FALSE
