CONSTANTS
  Apps = {browser, mail}
  MaxBytes = 3
  MaxFailures = 2
  MaxStarts = 2
SYMMETRY AppSymmetry
SPECIFICATION Spec
INVARIANTS
  TypeOK
  NothingInvented
  ExactUnlessDropped
PROPERTY KeepsPromise
