CONSTANTS
  Fds = {c1, c2}
  ServerSocket = listen
  Words <- MCWords
  ChannelWords = {}
  Password = "pass"
  Cmds <- TalkCmds
  Batches <- TalkBatches
  MaxOut = 2
SPECIFICATION TalkSpec
INVARIANTS PollAsksForMarked
PROPERTIES MarkedClientLeaves OutputDrains
CHECK_DEADLOCK FALSE
