CONSTANTS
  Fds = {c1, c2}
  ServerSocket = listen
  Words <- MCWords
  ChannelWords = {}
  Password = "pass"
  Cmds <- LoginCmds
  Batches <- LoginBatches
  MaxOut = 2
SPECIFICATION BoundedSpec
INVARIANTS TypeOK PollSetMatchesClients RoundServesEachEventOnce NoCommandLeftBehind NoDescriptorLeak
PROPERTIES ShutdownAfterSignal InboxSpec InboxDrains RoundEnds
CHECK_DEADLOCK FALSE
