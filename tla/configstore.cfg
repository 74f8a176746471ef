SPECIFICATION Spec
CONSTANTS
  purge_hour = purge_hour
  license_key = license_key
  base_url = base_url
  last_run = last_run
  user_token = user_token
  v1 = v1
  v2 = v2
  short = short
  long = long
  Job = purge_hour
  Licence = license_key
  Plain = {base_url}
  Silent = {last_run}
  Secrets = {user_token}
  Values = {v1, v2}
  Tokens = {short, long}
  Env <- MCEnv
  Expiry <- MCExpiry
  Bodies <- MCBodies
  None = None
  Absent = Absent
  Empty = Empty
  Cleared = Cleared
  Mask = Mask
  Savers = {s1, s2}
  MaxSaves = 4
  LastDay = 2
SYMMETRY Symmetry
CHECK_DEADLOCK FALSE
INVARIANTS
  ValuesAreTraced
  ScheduleFollowsConfig
PROPERTIES
  OnlyAKeyUpgrades
