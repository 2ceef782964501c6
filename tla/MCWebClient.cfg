SPECIFICATION FairSpec
CONSTANTS
  s1 = s1  s2 = s2  s3 = s3
  Socket <- MCSocket
  maxReconnectAttempts = 5
  NoSocket = NoSocket
  MaxMounts = 3
INVARIANTS TypeOK NeverForks
PROPERTY Recovers
