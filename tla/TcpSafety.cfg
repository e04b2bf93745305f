SPECIFICATION Spec
CONSTANTS
  Conns = {c1, c2, c3}
  MaxConns = 2
  MaxUnits = 1
  None = None
SYMMETRY Symmetry
INVARIANTS TypeOK PermitsConserved Custody DescriptorsBounded
PROPERTY ImplementsAdmission
