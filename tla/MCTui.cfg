CONSTANTS
  Apps = {1, 2}
  Contents <- Course
  Held <- CourseHeld
  Machines <- Some
  Refresh = 1
  Current = 1
  MaxRelease = 2
  Files <- Found
  MaxChanges = 1
  None = None
SPECIFICATION FairSpec
INVARIANTS
  TypeOK
  ScreenAgrees
PROPERTIES
  FollowsDatabase
  KnownReleaseTold
CHECK_DEADLOCK FALSE
