SPECIFICATION Spec
CONSTANTS
  Clients = {c1}
  MaxConn = 2
  MaxSeq = 2
  Heartbeats = {1}
  Cmds = {"status"}
  Queries = {}
  LaserSeqs = {}
  Status = "status"
  None = None
INVARIANTS TypeOK NoOrphans AnswerHasOwnNumber AnsweredOnce AnswerMatches
PROPERTY LossIsReal
