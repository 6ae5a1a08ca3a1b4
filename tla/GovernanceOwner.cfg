SPECIFICATION SafetySpec
CONSTANTS
  u1 = u1
  u2 = u2
  u3 = u3
  Users <- TwoUsers
  NoUser = NoUser
  Doors = {"invitation"}
  Offered = {"partner", "member"}
  Controls = {}
  Kinds = {"team"}
SYMMETRY Symmetry
VIEW Rows
PROPERTY OwnerOnlyByTransfer
CHECK_DEADLOCK FALSE
