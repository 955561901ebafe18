CONSTANTS
  nobody = nobody
  none = none
  NoUser = nobody
  NoFilter = none
  Public = Public
  AdminOnly = AdminOnly
  Asks <- MCAsks
  Quiet <- QuietAsk
  Before <- TextBefore
  asciiLower <- LowerText
  toLowerCase <- LowerAny
  TextLength <- SizeOf
  Contains <- Holds
  Matches <- LikeText
  Wild <- HasWildcard
  JsonText <- JsonOf
  None = None
  Editors <- AllEditors
  Wishes <- AllWishes
  Given <- GivenRows
  MaxRecords = 2
  MaxMishaps = 1
CHECK_DEADLOCK FALSE
SPECIFICATION SpecCollections
INVARIANTS ByIdOnlyWhatIsListed PatchKeepsItVisible HiddenRowsDontDecide RowCountsRight StaysTogether
