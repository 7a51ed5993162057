SPECIFICATION Spec
CONSTANTS
  OrderIds = {o1, o2, o3}
  MaxPrice = 2
  QtyModulus = 4
  NoLimit = NoLimit
  NoTaker = NoTaker
INVARIANTS
  CheckInvariants
PROPERTIES
  FillOrKill
  ImplementsReference
SYMMETRY IdSymmetry
