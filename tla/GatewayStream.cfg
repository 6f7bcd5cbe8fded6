SPECIFICATION StreamSpec
CONSTANTS
  Open = Open
  Close = Close
  Name = {n}
  Known = {n}
  Plain = {}
  Channel = {a, b}
  Unnamed = Unnamed
  MaxHeld = 5
  Fragment <- MCFragment
  MaxPiece = 4
  MaxText = 7
SYMMETRY Symmetric
INVARIANTS
  StreamTypeOK
  StreamExact
  NothingLost
  ArgumentsExact
CHECK_DEADLOCK FALSE
