CONSTANTS
  Group = {g1, g2}
  Subject <- People
  MaxMemberships = 3
  MaxSubjects = 3
SPECIFICATION Spec
INVARIANTS FailureDominates NeverEmpty OrderFree ListsAreSets MergeIntoIsMerge
