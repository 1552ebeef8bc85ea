CONSTANTS
  Fds = {c1, c2}
  Words <- MCWords
  ChannelWords <- MCChannelWords
  Password = "pass"
  Cmds <- NickCmds
  MaxOut = 3
SPECIFICATION BoundedSpec
PROPERTIES NicknameReachable
