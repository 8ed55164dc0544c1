CONSTANTS
  service = service
  second = second
  setter = setter
  Openers = {service, second, setter}
  Job <- Jobs
  Requests <- Asked
  Names = {"UTC", "Madrid", "Havana", "Mars/Phobos"}
  Zones = {"UTC", "Madrid", "Havana"}
  Detected = {"Madrid", None}
  Versions = {0, 2}
  None = None
  MaxFaults = 1
  Managed = service
  Scenes <- Some
SPECIFICATION FairSpec
INVARIANTS
  TypeOK
  SchemaAgrees
  ConfigUsable
  LostOnlyByOverlap
  DiagnosisPossible
  VerdictsAgree

PROPERTY ComesUp
CHECK_DEADLOCK FALSE
