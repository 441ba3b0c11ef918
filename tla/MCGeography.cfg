\* A database with twins is migrated, used and perhaps migrated back.
SPECIFICATION MCSpec
CONSTANTS
  None = None
  Unknown = Unknown
  north = north
  Harare = Harare
  HARARE = HARARE
  Ruwa = Ruwa
  asked = asked
  other = other
  CityIds = {1, 2, 3}
  SuburbIds = {1, 2}
  BranchIds = {1}
  first = first
  Customers = {first}
  Names <- MCNames
  Norm <- MCLower
  PyLower <- MCLower
  DbLower <- MCLower
  Regions <- MCRegions
  Localities <- MCLocalities
  Requests = {asked, other}
INVARIANTS
  TypeOK
  ReferencesResolve
  SuburbIsInTheCity
  ExplorerShowsEveryBranch
PROPERTIES
  UpgradeKeepsPlaces
  UpgradeLeavesNoTwins
SYMMETRY Symmetric
