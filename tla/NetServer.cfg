CONSTANTS
  s1 = s1  s2 = s2
  Sessions <- MCSessions
  MaxConn = 2
  SerialMod = 4
  FirstSerial = 3
  MaxBeat = 0
  MaxWaiting = 1
  MaxPending = 1
  Nobody = Nobody
SPECIFICATION FairSpec
CHECK_DEADLOCK FALSE
INVARIANTS
  SessionsUsable
  SerialsUnique
  
  
PROPERTIES
  
  SessionsEnd
