CONSTANTS
  EnvKeys = {1, 2}
  EnvValues = {3, 4}
  RenameAttempts = 2
  MaxWrites = 3
  MaxDeaths = 2
SPECIFICATION EnvFileSpec
PROPERTY ContentNeverLost
CHECK_DEADLOCK FALSE
