CONSTANTS
  u1 = u1
  u2 = u2
  Config <- TwoConfigs
  Group <- OneGroup
  Subject = {u1, u2}
  Role <- OneRole
  Kinds = {"Role", "ClusterRole", "Group"}
  ValidKinds = {"Role", "ClusterRole"}
  Specs <- KindSpecs
  UpstreamAnswers <- Known
  ValidLabel <- OneConfig
  RoleRefImmutable = TRUE
  PollEnabled = TRUE
  MaxEdits = 3
  MaxFaults = 0
  MaxCrashes = 1
  NoSpec = NoSpec
  NoConfig = NoConfig
  NoVersion = NoVersion
  Absent = Absent
SPECIFICATION Spec
INVARIANTS NoLostUpdate Lineage Justified
PROPERTY KeepsBindings
