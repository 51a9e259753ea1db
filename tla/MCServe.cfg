CONSTANTS
  Raws <- MCRaws
  Configured <- MCConfigured
  Foreign = {"foreign"}
  Grants <- MCGrants
  Revokers = {"revoke"}
  Requests = {"r1"}
  Titles = {"", "t1", "t2"}
  Messages <- MCMessages
SPECIFICATION ServeSpec
INVARIANT NoStatementAfterClose
INVARIANT AnswersAreTrue
INVARIANT RevokedIsRefused
PROPERTY KeysOnlyWeaken
PROPERTY ServeStops
