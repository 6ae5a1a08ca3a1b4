SPECIFICATION SafetySpec
CONSTANTS
  u1 = u1
  u2 = u2
  u3 = u3
  Users <- ThreeUsers
  NoUser = NoUser
  Doors = {"invitation", "request"}
  Offered = {"partner", "administrator"}
  Controls = {}
  Kinds = {"team"}
SYMMETRY Symmetry
VIEW Rows
INVARIANT TypeOK
 
PROPERTY ControllersAreAppointed
CHECK_DEADLOCK FALSE
