SPECIFICATION MCFairSpec
CONSTANTS
  Parts = {"loop", "plane", "bridge", "verdicts", "daemon", "config"}
  Request <- AllOps
  Expensive <- ExpensiveOps
  MaxSent = 4
 
PROPERTIES ServicedInOrder EveryRequestServiced EveryAcceptedCompletes 
           EveryWaiterAnswered StopCompletes
CHECK_DEADLOCK FALSE
