\* Lists of up to four keys, two of which have the same tag, with removals.
SPECIFICATION MapSpec
CONSTANTS
  Keys = {0, 1, 2, 3, 4, 5, 6}
  TABLE_ENTRIES = 2
  Hash <- IDHash
  Tag <- NameTag
INVARIANT ListedOnce
PROPERTY ActsAsDictionary
