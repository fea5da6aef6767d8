SPECIFICATION SessionSpec
CONSTANTS
  l1 = l1
  l2 = l2
  i1 = i1
  i2 = i2
  Link = {l1, l2}
  Instance = {i1, i2}
  MaxSlot = 2
  NoLink = NoLink
  NoInstance = NoInstance
  NoOne = NoOne
  LightLoad = 1
SYMMETRY Symmetry
INVARIANTS
  TopServes
  TablesAgree
  EventsUnderstood
  AttachedWhileLive
PROPERTIES
  SlotKept
