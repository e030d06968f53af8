CONSTANTS
  u1 = u1
  u2 = u2
  Config <- OneConfig
  Group <- TwoGroups
  Subject = {u1, u2}
  Role <- TwoRoles
  Kinds = {"Role", "ClusterRole", "Group"}
  ValidKinds = {"Role", "ClusterRole"}
  Specs <- RichSpecs
  UpstreamAnswers <- Known
  ValidLabel <- OneConfig
  RoleRefImmutable = TRUE
  PollEnabled = TRUE
  MaxEdits = 3
  MaxFaults = 1
  MaxCrashes = 0
  NoSpec = NoSpec
  NoConfig = NoConfig
  NoVersion = NoVersion
  Absent = Absent
SPECIFICATION Spec
INVARIANTS TypeOK NoLostUpdate Custody Justified
PROPERTIES UnknownLeavesAlone KeepsBindings
