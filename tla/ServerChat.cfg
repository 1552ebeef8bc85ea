CONSTANTS
  Fds = {c1, c2}
  ServerSocket = listen
  Words <- MCWords
  ChannelWords = {}
  Password = "pass"
  Cmds <- ChatCmds
  Batches <- ChatBatches
  MaxOut = 1
SPECIFICATION SafetySpec
SYMMETRY Symmetry
PROPERTIES CommandsSpec RoundProgress
CHECK_DEADLOCK FALSE
