CONSTANTS
  Fds = {c1, c2}
  Words <- MCWords
  ChannelWords <- MCChannelWords
  Password = "pass"
  Cmds <- AllCmds
  MaxOut = 1
SPECIFICATION BoundedSpec
SYMMETRY Symmetry
INVARIANTS TypeOK IdentityNeedsPassword
PROPERTIES WelcomeOnRegistration
