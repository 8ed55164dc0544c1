CONSTANTS
  Apps = {browser, mail}
  MaxBytes = 3
  MaxFailures = 0
  MaxStarts = 1
SPECIFICATION Spec
INVARIANT BaselineIsPrevious
