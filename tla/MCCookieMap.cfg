SPECIFICATION FairSpec
CONSTANTS
  Cookies = {c1}
  Pids = {p1, p2}
  Apps = {a, b}
  None = None
  RingCapacity = 1
  MaxChanges = 4
INVARIANTS
  TypeOK
  SeenInMap
  NoSocketFallsThrough
  Custody
  NamedByItsPid
PROPERTIES
  BirthWins
  IdleKeepIdentity
  AnnouncedIsNamed
