SPECIFICATION Spec
CONSTANTS
  Drives <- MCDrives
  Scancodes <- MCScancodes
  Disabling <- MCDisabling
  BiosConfig = BiosConfig
  MaxWaiting = 1
  MaxBoots = 2
  WORD = 8
  HZ = 3
  SIXTY = 2
  HOURS = 2
  Times <- MCTimes
INVARIANTS
  DateReadsClock
\* without a loader on the disk, or a disk, the machine stops
CHECK_DEADLOCK FALSE
