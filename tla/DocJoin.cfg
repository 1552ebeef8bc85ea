CONSTANTS
  Fds = {c1, c2}
  ServerSocket = listen
  Words <- MCWords
  ChannelWords = {}
  Password = "pass"
  Cmds <- JoinCmds
  Batches <- JoinBatches
  MaxOut = 1
SPECIFICATION TalkSpec
PROPERTIES JoinAnswered
CHECK_DEADLOCK FALSE
