SPECIFICATION Spec
CONSTANTS
  ServerOrder <- MCServerOrder
  Stored = {"s1", "s2"}
  Profiles <- MCProfiles
  RemotePaths <- MCRemotePaths
  LongFiles <- MCLongFiles
  MaxActs = 1
  MaxFaults = 0
  Failing = {}
  MaxInFlight = 1
  ChatTools = {}
  MaxRounds = 1
  MaxCalls = 1
  Lines = {"exit"}
  MaxOutput = 1
  MaxPolls = 1
  Modes = {"SAFE_AUTOMATION", "FULL_ACCESS"}
  Offers = {"p2"}
  MaxRefreshes = 1
  Views = {"Terminal"}
  Patience <- MCPatience
  MaxMounts = 2
INVARIANT ScreenInStep
CHECK_DEADLOCK FALSE
