SPECIFICATION Spec
CONSTANTS
    Users = {u1, u2, u3}
    NoUser = NoUser
    MaxRows = 5
    MaxCalls = 4
    MaxRepeats = 1
SYMMETRY Alike
INVARIANTS TypeOK RegistryAgrees PlayedRoomsStayOpen
CHECK_DEADLOCK FALSE
