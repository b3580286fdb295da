\* Two senders, two descriptors, a ring of two slots stored into twice over.
CONSTANTS
  NumSenders = 2
  Slots = 2
  Fds = {f1, f2}
  LastChunk = 3
  Main = Main
  Broadcaster = Broadcaster
  NULL = NULL
SPECIFICATION Spec
SYMMETRY Symmetry
INVARIANTS Consistent SlotHoldsAnnouncedChunk NeverReplays SleepersAreCurrent
