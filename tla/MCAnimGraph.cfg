CONSTANTS
  Name = {a, b, c}
  Parameter = {p}
  Group = {q}
  MaxNodes = 4
  MaxTransitions = 1
  MaxUndo = 1
SPECIFICATION Spec
SYMMETRY Symmetry
VIEW View
INVARIANTS
  TypeOK
  NamesAreUnique
  PlacementHolds
  TransitionsJoinSiblings
  PortsTakeOneWire
  TreesAreAcyclic
PROPERTIES
  FailedRequestsLeaveNothing
  GraphEditsAreUndoable
