SPECIFICATION FairSpec
CONSTANTS
  Garbled = Garbled
  RoleChars <- MCRoleChars
  Requests <- MCRequests
  EmbeddingRequests <- MCEmbeddingRequests
  Routes <- MCRoutes
  Providers <- MCProviders
  Responses <- MCResponses
  Bodies <- MCBodies
  MaxMessages = 6
INVARIANTS ContextSurvives CompactionIsFrugal ProviderSeesTheReply RepliesAreAccepted StreamIsRelayed EmbeddingsAreWhole
PROPERTIES WorkRunsOut EveryRequestEnds
