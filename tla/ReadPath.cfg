CONSTANTS
  Letters <- MCLetters
  toupper <- MCToupper
  KnownCommands <- MCKnown
  MaxChunk = 3
  MaxStream = 6
SPECIFICATION Spec
INVARIANTS TypeOK ChunksDoNotMatter ParserFits ParseFormat
PROPERTY InboxSpec
CHECK_DEADLOCK FALSE
