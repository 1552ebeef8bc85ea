CONSTANTS
  Fds = {c1, c2}
  Words <- MCWords
  ChannelWords <- MCChannelWords
  Password = "pass"
  Cmds <- CoreCmds
  MaxOut = 2
SPECIFICATION BoundedSpec
SYMMETRY Symmetry
INVARIANTS NickUnique DoomedHasOutput SenderIdentified
PROPERTIES SourceIsLive OutputIsFifo
