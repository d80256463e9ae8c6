CONSTANTS
  MaxEntities = 4
  MaxChanges = 5
  MaxUndo = 1
  Position <- MCPosition
  Scale <- MCScale
  Requested <- MCRequested
  Target <- MCTarget
SPECIFICATION Spec
PROPERTY
  RefusalsLeaveTheEntityAlone
