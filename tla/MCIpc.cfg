CONSTANTS
  client = client
  stranger = stranger
  Clients = {client}
  Strangers = {stranger}
  Version = 1
  Installed = {1, 2}
  Readings = {1, 2}
  Unreadable = 0
  Buffer = 1
SPECIFICATION FairSpec
INVARIANTS
  TypeOK
  SameVersion
PROPERTIES
  AnswersTheRequest
  NobodyWaitsForEver
  ThreadsEnd
