\* Two senders and one descriptor: liveness, no symmetry.
CONSTANTS
  NumSenders = 2
  Slots = 2
  Fds = {f1}
  LastChunk = 2
  Main = Main
  Broadcaster = Broadcaster
  NULL = NULL
SPECIFICATION FairSpec
PROPERTIES SendersKeepUp AnsweredIsListed
