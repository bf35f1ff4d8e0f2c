SPECIFICATION FairSpec
CONSTANTS
  c1 = c1
  c2 = c2
  w = w
  a1 = a1
  a2 = a2
  a3 = a3
  Clients <- MCClients
  Waiter = w
  Addresses <- MCAddresses
  NotExecutable = {"", "a/b"}
  ProtocolVersion = 1
  LspTools = {"lsp_hover"}
  MsPerSec = 4
  U64 = 10
  RawPolicies <- MCRawPolicies
  FramesOf <- MCFramesOf
  MaxFrames = 2
  MaxStarts = 2
  Queries <- MCQueries
  DnsOf <- MCDnsOf
INVARIANTS
  GuestTypeOK
  EgressContained
  RulesetAgrees
  LaunchWithinGrant
  NoRunOverCap
PROPERTIES
  RefusalChangesNothing
  DispatchReturns
CHECK_DEADLOCK FALSE
