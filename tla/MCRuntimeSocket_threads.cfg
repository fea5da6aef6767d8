SPECIFICATION SocketSpec
CONSTANTS
  Size = {1}
  ControlCapacity = 1
  DataCapacityMessages = 1
  DataCapacityBytes = 2
  MaxMessageBytes = 2
  MaxSequence = 2
  Thread = {s1}
  Window = 1
  Interval = 1
  IdleLimit = 1
VIEW MCView
CHECK_DEADLOCK FALSE
INVARIANTS
  FlushLosesNothing
PROPERTIES
  SilenceEnds
  SpeaksInTime
  EndCompletes
  GracefulCloseEnds
