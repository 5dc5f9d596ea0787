SPECIFICATION Spec
CONSTANTS
  Pages <- MCPages
  Host <- MCHost
  Articles = {"story", "second", "third", "fourth", "report"}
  Search = {"engine"}
  News = {"site", "other"}
  Fallback <- MCFallback
  MaxSeeds = 3
  MinFallback = 1
  MaxLinks = 3
  PerSeed = 2
  PerPage = 2
  GiveUp = 2
  MaxFound = 2
INVARIANTS TypeOK FollowedOnce
PROPERTIES GivenUpStays
