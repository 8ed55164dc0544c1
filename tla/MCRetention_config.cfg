CONSTANTS
  Apps = {browser}
  Configs <- TwoConfigs
  Day = 2
  WeekDays = 2
  FirstDays <- Firsts
  Instants <- Horizon
  Offset <- Clock
  Now0 = 8
  MaxNow = 15
  MaxBytes = 2
  MaxFailures = 1
  MaxCommands = 1
SPECIFICATION Spec
PROPERTY RetentionKeepsShown
