SPECIFICATION FairSpec
CONSTANTS
  MaxChanges = 2
  MaxFaults = 1
INVARIANTS TypeOK NoWrongMenu
PROPERTIES UpdateUndisturbed LearnsMode
