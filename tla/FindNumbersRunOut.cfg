SPECIFICATION FairSpec
CONSTANTS
  Clients = {c1}
  MaxConn = 1
  MaxSeq = 1
  Heartbeats = {1}
  Cmds = {"status"}
  Queries = {}
  LaserSeqs = {}
  Status = "status"
  None = None
PROPERTY KeepAlive
