CONSTANTS
  Clients = {c1, c2}
  Users = {"vanity", "anna"}
  Passwords = {"vanity", "other", "abc"}
  Short = {"abc"}
  M_DEFAULT_USERNAME = "vanity"
  M_DEFAULT_PASSWORD = "vanity"
  NumDatabases = 2
  Addresses <- MCAddresses
  Ports <- MCPorts
  ClusterAddress <- MCClusterAddress
  Saved <- MCSaved
  MaxTrn = 2
  Parts = {"accounts", "transactions", "listeners", "pubsub", "pipes"}
  Channels = {ch1, ch2}
  Frames = {f1}
  Workers = {w1, w2}
  MaxPublished = 2
  MaxWithPipes = 1
SPECIFICATION Spec
INVARIANTS
  SubscriptionsMirror
  ReceivedOnce
  AccountsSurvive
  TransactionsPaired
PROPERTIES
  PublishedIsTaken
