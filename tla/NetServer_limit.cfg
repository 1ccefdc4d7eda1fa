CONSTANTS
  s1 = s1  s2 = s2
  Sessions <- MCSessions
  MaxConn = 1
  SerialMod = 3
  FirstSerial = 1
  MaxBeat = 1
  MaxWaiting = 1
  MaxPending = 1
  Nobody = Nobody
SPECIFICATION FairSpec
CHECK_DEADLOCK FALSE
PROPERTY AdmitsBelowLimit
