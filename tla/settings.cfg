SPECIFICATION FairSpec
CONSTANTS
  Request = {r1, r2}
  Boot = boot
  None = none
  Bodies <- MCBodies
  Envs = {0, 3}
  Default = 1
  MaxDb = 1
  MaxF2b = 1
  MaxRestart = 1
  MaxF2bRestart = 1
INVARIANTS TypeOK Agree DispatchersAccounted SavedWasAccepted
 
