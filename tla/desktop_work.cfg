SPECIFICATION FairSpec
CONSTANTS
  ServerOrder <- MCStoredOrder
  Stored = {"s1", "s2"}
  Profiles <- MCStoredProfiles
  RemotePaths <- MCRemotePaths
  LongFiles <- MCLongFiles
  MaxActs = 3
  MaxFaults = 1
  Failing = {"evaluateAndExecuteTool", "submitApproval", "sftpWriteFile", "saveMessage"}
  MaxInFlight = 1
  ChatTools = {"ssh.execute"}
  MaxRounds = 1
  MaxCalls = 2
  Lines = {"exit"}
  MaxOutput = 1
  MaxPolls = 1
  Modes = {"SAFE_AUTOMATION", "FULL_ACCESS"}
  Offers = {"p2"}
  MaxRefreshes = 1
  Views = {"Chat", "Files"}
  Patience <- MCPatience
  MaxMounts = 2
INVARIANTS TypeOK RepliesGoHome ToolsOnChosenServer FilesActOnShown
PROPERTY ChatSettles
CHECK_DEADLOCK FALSE
