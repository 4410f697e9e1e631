SPECIFICATION CanonSpec
CONSTANTS
  Stage = 2
  Window = 2
  Dict = 4
  Growth = {0, 3}
  NameLen <- MCNames
  Mains = {"word", "excel"}
  ContentTypes = "types"
  Signatures = {"signature"}
  Asked = {"any", "word"}
  MaxMembers = 2
  MaxNameBytes = 3
  LargeMin = 3
  Limit32 = 6
  Limit16 = 2
  LocalLen = 1
  CentralLen = 1
  MaxSource = 3
  Claimed = {0, 2, 3, 6, 9}
  MaxPackages = 2
INVARIANTS
  DirectoryIsTrue
  ObserverHearsIt
  SoundMembersPass
  AcceptedIsOffice
CHECK_DEADLOCK FALSE
