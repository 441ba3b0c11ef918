\* One customer, two cities, one suburb; two questions and two requests in flight.
SPECIFICATION Spec
SYMMETRY Symmetric
CONSTRAINT MCFollowed
CONSTANTS
  None = None
  Customers = {acme}
  Cities = {harare, mutare}
  Suburbs = {avondale}
  CityOf <- MCCityOf
  Slots = {s1, s2}
  Indices = {i1, i2}
  MaxLinks = 2
INVARIANTS
  TypeOK
  BranchIsOfTheChoice
  PageShowsTheChoice
  OneLinkPerVisit
  SelectionShownIsStored
  ReviewNamesTheInterface
