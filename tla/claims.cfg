SPECIFICATION Spec
CONSTANTS
  Workers = {"scout", "fixer"}
  Files = {"shared", "mine"}
  Claimable <- OwnsOf
  None = None
  MaxLog = 2
  MaxAttempts = 2
  EditSets <- ScoutAmended
INVARIANTS
  TypeOK
  LedgerIsProjection
  FirstRunIsAdjudicated
CHECK_DEADLOCK FALSE
