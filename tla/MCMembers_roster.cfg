SPECIFICATION Spec
CONSTANTS
  a = a b = b c = c w1 = w1 w2 = w2 w3 = w3
  Person = {a, b, c} Worker = {w1, w2}
  Role <- Roles Administering = {"owner", "admin"} Owner = "owner" Demoted = "admin" Out = "out"
  SeatLimit = 2 NoOffer = NoOffer NoRequest = NoRequest
  MaxRequests = 3 MaxInvites = 1 MaxFaults = 1
SYMMETRY Alike
CHECK_DEADLOCK FALSE
INVARIANTS Administered SeatsHeld OneJoinEach
PROPERTIES OwnerNotEnded
