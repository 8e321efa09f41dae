SPECIFICATION Spec
CONSTANTS
  Phrases <- Typed
  Openings <- Starts
  MaxTyped = 3
INVARIANTS
  Sound
  Complete
  
CHECK_DEADLOCK FALSE
