SPECIFICATION NodeSpec
CONSTANTS
  Size = {1, 3, 5}
  ControlCapacity = 1
  DataCapacityMessages = 2
  DataCapacityBytes = 4
  MaxMessageBytes = 4
  MaxSequence = 4
  BufferLimit = 2
  Chunk = 2
  Interval = 1
  IdleLimit = 2
INVARIANTS
  DataBounded
  Accounted
  NothingStranded
PROPERTIES
  SendsInOrder
  NodeSpeaksInTime
  SilentPeerLeaves
  EndCompletes
