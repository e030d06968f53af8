CONSTANTS
  Group = {g1}
  Subject = {1, 2, 3}
  PageSize = 1
  MaxEdits = 2
  NoGroup = NoGroup
  NoReply = NoReply
SPECIFICATION FairSpec
INVARIANTS TypeOK ListIsComplete NotFoundMeansAbsent
PROPERTY Returns
