SPECIFICATION FairSpec
CONSTANTS
  Conns = {c1, c2}
  MaxConns = 1
  MaxUnits = 1
  None = None
PROPERTIES ConnectBounded HalfCloseDelivers  ServedInTurn
