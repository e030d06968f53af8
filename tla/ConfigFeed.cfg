CONSTANTS
  Config = {c1, c2}
  MaxWrites = 3
  MaxRelists = 1
  MaxNotices = 3
SPECIFICATION FairSpec
PROPERTIES FeedIsLaggingCache FeedCatchesUp ResyncsAreFree
CHECK_DEADLOCK FALSE
