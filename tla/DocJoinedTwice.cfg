CONSTANTS
  Clients = {c1, c2}
  Names = {"#one"}
  Topics = {"news"}
  Keys = {}
  Limits = {1}
SPECIFICATION Spec
INVARIANT JoinedOnce
