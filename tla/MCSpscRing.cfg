CONSTANTS
  Size = 4
  Item = {a, b}
  NoItem = NoItem
  Pending = Pending
SPECIFICATION FairSpec
INVARIANT RingInv NoSlotRace
PROPERTY RefinesFifo OldestIsTaken
