CONSTANTS
  Fds = {c1, c2}
  ServerSocket = listen
  Words = {"pass"}
  ChannelWords = {}
  Password = "pass"
  Cmds = {}
  Batches <- NoCommands
  Arguments <- MCArguments
SPECIFICATION ProcessSpec
INVARIANTS ProcessTypeOK ServesAsRequested
PROPERTIES ServerSpec SignalEndsProcess
CHECK_DEADLOCK FALSE
