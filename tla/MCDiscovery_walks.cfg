SPECIFICATION FairSpec
CONSTANTS
  Entries <- MCEntries
  UserDomains = {"d1", "d2"}
  NoDomain = "none"
  MaxId = 3
  Limit = 1
  MaxChange = 3
INVARIANTS ListingIsExact DomainIsTheOnlyOne
PROPERTIES WalksEnd
CHECK_DEADLOCK FALSE
