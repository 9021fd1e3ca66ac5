\* Set up first, then logged to, visited and closed; both modes.
SPECIFICATION Spec
CONSTANTS
  Writers = {w1, w2}
  Timer = timer
  App = app
  MaxChannel = 2
  MaxObject = 3
  Options = {{"open"}, {"open", "buffer"}}
  MaxLog = 2
  Early = FALSE
  CloseAwake = FALSE
  
PROPERTIES JournalKept 
CHECK_DEADLOCK FALSE
