CONSTANTS
  Clients = {c1, c2, c3}
  Names = {"#one", "#two"}
  Topics = {"news"}
  Keys = {"key"}
  Limits = {1, 2, 3}
SPECIFICATION Spec
INVARIANT TypeOK
PROPERTIES LimitKept RoleChangeKeepsClient TopicAnnounced
SYMMETRY Symmetry
