\* The engineer leaves step 1 with a branch that the page no longer shows.
SPECIFICATION Spec
SYMMETRY Symmetric
CONSTRAINT MCFollowed
CONSTANTS
  None = None
  Customers = {acme}
  Cities = {harare, mutare}
  Suburbs = {avondale}
  CityOf <- MCCityOf
  Slots = {s1, s2}
  Indices = {i1, i2}
  MaxLinks = 2
PROPERTY
  StartsFromAShownBranch
