CONSTANTS
  u1 = u1
  u2 = u2
  Config <- TwoConfigs
  Group <- OneGroup
  Subject = {u1, u2}
  Role <- OneRole
  Kinds = {"Role", "ClusterRole", "Group"}
  ValidKinds = {"Role", "ClusterRole"}
  Specs <- ShrinkSpecs
  UpstreamAnswers <- Known
  ValidLabel <- OneConfig
  RoleRefImmutable = TRUE
  PollEnabled = TRUE
  MaxEdits = 2
  MaxFaults = 1
  MaxCrashes = 0
  NoSpec = NoSpec
  NoConfig = NoConfig
  NoVersion = NoVersion
  Absent = Absent
SPECIFICATION FairSpec
PROPERTY Converges
