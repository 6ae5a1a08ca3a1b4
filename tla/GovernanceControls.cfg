SPECIFICATION Spec
CONSTANTS
  u1 = u1
  u2 = u2
  u3 = u3
  Users <- TwoUsers
  NoUser = NoUser
  Doors = {"invitation"}
  Offered = {"partner"}
  Controls = {"disable", "reactivate", "delete", "cancel_deletion"}
  Kinds = {"team", "personal"}
PROPERTY IndependentApproval
PROPERTY ScheduledDeletionEnds
CHECK_DEADLOCK FALSE
