SPECIFICATION FairSpec
CONSTANTS
  u1 = u1
  u2 = u2
  u3 = u3
  Users <- TwoUsers
  NoUser = NoUser
  Doors = {"request"}
  Offered = {"partner"}
  Controls = {"disable", "reactivate"}
  Kinds = {"team"}
PROPERTY ExpiredControlsMakeRoom
CHECK_DEADLOCK FALSE
