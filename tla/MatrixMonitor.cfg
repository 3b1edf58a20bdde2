CONSTANTS
  ReAlert = 2
  Grace = 1
  GpuIdle = 2
  Heartbeat = 2
  MaxAge = 2
  MaxStep = 2
  MaxChanges = 3
  MaxFaults = 1
SPECIFICATION FairSpec
INVARIANTS NoEcho
PROPERTIES AlarmIsSustained AlarmsAreSpaced TroubleIsTold ReliefIsTold
