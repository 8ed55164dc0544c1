CONSTANTS
  Apps = {browser}
  Configs <- TwoConfigs
  Day = 2
  WeekDays = 2
  FirstDays <- Firsts
  Instants <- Horizon
  Offset <- Clock
  Now0 = 9
  MaxNow = 14
  MaxBytes = 2
  MaxFailures = 1
  MaxCommands = 1
SPECIFICATION FairSpec
INVARIANTS
  TypeOK
  PeriodsExact
  TablesBounded
  PeriodsAgree
PROPERTIES
  RetentionInvisible
  StaleSamplesGo
