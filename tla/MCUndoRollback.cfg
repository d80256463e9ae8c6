CONSTANTS
  Entity = {e1, e2, e3}
  MaxEntities = 2
  MaxDepth = 2
  MaxHistory = 2
SPECIFICATION Spec
PROPERTY RollbackKeepsOtherBatches
