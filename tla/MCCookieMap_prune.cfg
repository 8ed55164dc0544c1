SPECIFICATION Spec
CONSTANTS
  Cookies = {c1}
  Pids = {p1}
  Apps = {a}
  None = None
  RingCapacity = 1
  MaxChanges = 0
PROPERTIES
  PruneForgetsTheDead
