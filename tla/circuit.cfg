SPECIFICATION FairSpec
CONSTANTS
  None = None
  k1 = k1
  k2 = k2
  k3 = k3
  k4 = k4
  Servers = {"s1"}
  Stages <- FourStages
  Cooldown = 2
  Timeout = 2
  Lease = 3
  Faults = {"crash", "callback"}
INVARIANTS
  TypeOK
  

  
  
CHECK_DEADLOCK FALSE
