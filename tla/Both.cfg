CONSTANTS
  u1 = u1
  u2 = u2
  Config <- NamespacedConfigs
  ClusterConfig <- ClusterConfigs
  Group <- Groups1
  Subject = {u1, u2}
  Role <- Roles1
  Kinds = {"Role", "ClusterRole"}
  ValidKinds = {"Role", "ClusterRole"}
  Specs <- NamespacedSpecs
  ClusterSpecs <- SomeClusterSpecs
  UpstreamAnswers <- Known
  ValidLabel <- NamespacedConfigs
  ClusterValidLabel <- ClusterConfigs
  RoleRefImmutable = TRUE
  PollEnabled = TRUE
  MaxEdits = 1
  MaxClusterEdits = 1
  MaxFaults = 0
  MaxCrashes = 1
  NoSpec = NoSpec
  NoConfig = NoConfig
  NoVersion = NoVersion
  Absent = Absent
SPECIFICATION FairBothSpec
INVARIANT ClusterNoLostUpdate
PROPERTY ClusterConverges
