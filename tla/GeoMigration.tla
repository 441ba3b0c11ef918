------------------------------ MODULE GeoMigration ------------------------------
(* The migration that makes cities and suburbs shared by all customers            *)
(* (alembic/versions/8610f8c7c2c6), as functions of the tables it rewrites: each  *)
(* table is a function from row ids to rows.                                      *)
EXTENDS Integers, FiniteSets

CONSTANTS
  None,
  CityIds, SuburbIds, BranchIds,   \* the row ids there are; bound the tables
  Names,            \* names of cities and suburbs, as they were spelled
  Norm,             \* Norm[n]: the name stripped and in lower case
  Regions,          \* pairs of a country and a province, their spelling left out
  Unknown,          \* the region of a city that the dataset does not have
  Localities        \* the rows of the embedded dataset

ASSUME MigrationAssumption ==
  /\ CityIds \subseteq Nat \ {0}
  /\ SuburbIds \subseteq Nat \ {0}
  /\ None \notin Nat \cup Names \cup Regions
  /\ Unknown \in Regions
  /\ Localities \subseteq [name : Names, region : Regions]
  /\ \A l, m \in Localities : Norm[l.name] = Norm[m.name] => l = m

(* Rows.  A city has no region in the schema before the migration; the customer   *)
(* it had there is dropped, and does not appear.                                  *)
City   == [name : Names, region : Regions \cup {None}]
Suburb == [city : CityIds, name : Names]

Smallest(ids) == CHOOSE i \in ids : \A j \in ids : i <= j

(* Step 2: the region of the locality of that name, or "Unknown".  The mutant      *)
(* takes the whole record.                                                        *)
RegionOf_Record(name) ==
  IF \E l \in Localities : Norm[l.name] = Norm[name]
  THEN CHOOSE l \in Localities : Norm[l.name] = Norm[name]
  ELSE Unknown
RegionOf(name) ==
  IF \E l \in Localities : Norm[l.name] = Norm[name]
  THEN (CHOOSE l \in Localities : Norm[l.name] = Norm[name]).region
  ELSE Unknown

Backfilled(cities) ==
  [c \in DOMAIN cities |-> [cities[c] EXCEPT !.region = RegionOf(cities[c].name)]]

(* Step 3: the cities of one key, and the row that stays of them.  The mutant     *)
(* merges by the exact name.                                                      *)
CityKey_Exact(city) == <<city.region, city.name>>
CityKey(city) == <<city.region, Norm[city.name]>>
SameCity(cities, c) == {d \in DOMAIN cities : CityKey(cities[d]) = CityKey(cities[c])}
CanonicalCity(cities, c) == Smallest(SameCity(cities, c))

(* The suburbs move to the row that stays.                                        *)
MovedSuburbs(cities, suburbs) ==
  [s \in DOMAIN suburbs |-> [suburbs[s] EXCEPT !.city = CanonicalCity(cities, suburbs[s].city)]]

(* Step 4: likewise for the suburbs that now meet in one city.  The mutant merges *)
(* whatever is in the city.                                                       *)
SameSuburb_City(suburbs, s) == {t \in DOMAIN suburbs : suburbs[t].city = suburbs[s].city}
SameSuburb(suburbs, s) ==
  {t \in DOMAIN suburbs : /\ suburbs[t].city = suburbs[s].city
                          /\ Norm[suburbs[t].name] = Norm[suburbs[s].name]}
CanonicalSuburb(suburbs, s) == Smallest(SameSuburb(suburbs, s))

(* The branches follow in both steps; one without a suburb stays without, and so  *)
(* does a suburb_id that names no row stay as it is.  The mutant deletes the      *)
(* duplicate suburbs without repointing their branches.                           *)
MovedBranches_CityOnly(cities, suburbs, branches) ==
  [b \in DOMAIN branches |-> [branches[b] EXCEPT !.city = CanonicalCity(cities, branches[b].city)]]
MovedBranches(cities, suburbs, branches) ==
  [b \in DOMAIN branches |->
     [branches[b] EXCEPT
        !.city   = CanonicalCity(cities, branches[b].city),
        !.suburb = IF branches[b].suburb \in DOMAIN suburbs
                   THEN CanonicalSuburb(suburbs, branches[b].suburb)
                   ELSE branches[b].suburb]]

KeptCities(cities)   == {c \in DOMAIN cities : c = CanonicalCity(cities, c)}
KeptSuburbs(suburbs) == {s \in DOMAIN suburbs : s = CanonicalSuburb(suburbs, s)}

Only(table, ids) == [i \in ids |-> table[i]]

(* Step 6: the localities whose key no city has, each under an id not in use.     *)
MissingLocalities(cities) ==
  {l \in Localities : \A c \in DOMAIN cities : CityKey(cities[c]) # CityKey(l)}

FreshIds(cities) ==
  {f \in [MissingLocalities(cities) -> CityIds \ DOMAIN cities] :
     \A l, m \in MissingLocalities(cities) : f[l] = f[m] => l = m}

Preloaded(cities) ==
  LET id == CHOOSE f \in FreshIds(cities) : TRUE
      new == {id[l] : l \in MissingLocalities(cities)}
  IN  [c \in DOMAIN cities \cup new |->
         IF c \in DOMAIN cities THEN cities[c]
         ELSE CHOOSE l \in MissingLocalities(cities) : id[l] = c]

(* upgrade, on the three tables it was found with.                                *)
MergedCities(cities) == Only(Backfilled(cities), KeptCities(Backfilled(cities)))

UpgradedCities(cities) == Preloaded(MergedCities(cities))

UpgradedSuburbs(cities, suburbs) ==
  LET moved == MovedSuburbs(Backfilled(cities), suburbs) IN Only(moved, KeptSuburbs(moved))

UpgradedBranches(cities, suburbs, branches) ==
  MovedBranches(Backfilled(cities), MovedSuburbs(Backfilled(cities), suburbs), branches)

(* downgrade takes the region away again, and restores nothing of what was merged. *)
DowngradedCities(cities) == [c \in DOMAIN cities |-> [cities[c] EXCEPT !.region = None]]
================================================================================
