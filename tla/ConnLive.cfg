SPECIFICATION FairSpec
CONSTANTS
  Clients = {c1}
  MaxConn = 2
  MaxSeq = 1
  Heartbeats = {}
  Cmds = {"status", "query"}
  Queries = {"query"}
  LaserSeqs = {1}
  Status = "status"
  None = None
PROPERTIES AckOnce CallsReturn
