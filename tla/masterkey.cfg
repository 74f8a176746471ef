\* An engine and a command line, two secrets, three faults.
CONSTANTS
  Secrets = {"admin_password_hash", "glpi_user_token"}
  AdminHash = "admin_password_hash"
  Keys = {k1, k2, k3, k4}
  NoKey = NoKey
  Torn = Torn
  Attempts = 2
  MaxFaults = 3
SPECIFICATION FairSpec
INVARIANTS
  SecretsStayReadable
  SessionsFollowTheKey
PROPERTIES
  EngineComesUp
