---------------------------- MODULE GeographyProofs ----------------------------
(* Proofs about Geography, for tables of any size.                                *)
EXTENDS Geography, TLAPS, WellFoundedInduction

--------------------------------------------------------------------------------
(* A nonempty set of row ids has a least one, so a canonical row exists.          *)
LEMMA LeastId ==
  ASSUME NEW T \in SUBSET Nat, T # {}
  PROVE  \E n \in T : \A m \in T : n <= m
  <1>1. PICK n \in T : \A m \in T : ~(<<m, n>> \in OpToRel(<, Nat))
    BY NatLessThanWellFounded, WFMin
  <1>2. ASSUME NEW m \in T
        PROVE  n <= m
    <2>1. m \in Nat /\ n \in Nat
      OBVIOUS
    <2>2. m < n => <<m, n>> \in OpToRel(<, Nat)
      BY <2>1 DEF OpToRel
    <2>3. ~(m < n)
      BY <1>1, <2>2
    <2>. QED
      BY <2>1, <2>3
  <1>. QED
    BY <1>2

LEMMA SmallestIsMember ==
  ASSUME NEW T \in SUBSET Nat, T # {}
  PROVE  Smallest(T) \in T
  BY LeastId DEF Smallest

--------------------------------------------------------------------------------
(* Tables of cities: what a merge keeps.                                          *)
CityTable(cs) == DOMAIN cs \subseteq CityIds /\ cs \in [DOMAIN cs -> City]

LEMMA CanonicalCityIsKept ==
  ASSUME NEW cs, CityTable(cs), NEW c \in DOMAIN cs
  PROVE  /\ CanonicalCity(cs, c) \in KeptCities(cs)
         /\ CanonicalCity(cs, c) \in DOMAIN cs
         /\ cs[CanonicalCity(cs, c)].region = cs[c].region
         /\ Norm[cs[CanonicalCity(cs, c)].name] = Norm[cs[c].name]
  <1>1. SameCity(cs, c) \in SUBSET Nat /\ SameCity(cs, c) # {}
    BY MigrationAssumption DEF SameCity, CityTable
  <1>2. CanonicalCity(cs, c) \in SameCity(cs, c)
    BY <1>1, SmallestIsMember DEF CanonicalCity
  <1>3. CityKey(cs[CanonicalCity(cs, c)]) = CityKey(cs[c])
    BY <1>2 DEF SameCity
  <1>4. SameCity(cs, CanonicalCity(cs, c)) = SameCity(cs, c)
    BY <1>3 DEF SameCity
  <1>5. CanonicalCity(cs, CanonicalCity(cs, c)) = CanonicalCity(cs, c)
    BY <1>4 DEF CanonicalCity
  <1>6. CanonicalCity(cs, c) \in DOMAIN cs
    BY <1>2 DEF SameCity
  <1>. QED
    BY <1>3, <1>5, <1>6 DEF KeptCities, CityKey

LEMMA KeptCitiesDiffer ==
  ASSUME NEW cs, NEW c \in KeptCities(cs), NEW d \in KeptCities(cs),
         CityKey(cs[c]) = CityKey(cs[d])
  PROVE  c = d
  <1>1. SameCity(cs, c) = SameCity(cs, d)
    BY DEF SameCity
  <1>2. CanonicalCity(cs, c) = CanonicalCity(cs, d)
    BY <1>1 DEF CanonicalCity
  <1>. QED
    BY <1>2 DEF KeptCities

LEMMA BackfilledType ==
  ASSUME NEW cs, CityTable(cs)
  PROVE  /\ CityTable(Backfilled(cs))
         /\ DOMAIN Backfilled(cs) = DOMAIN cs
         /\ \A c \in DOMAIN cs : Backfilled(cs)[c].name = cs[c].name
         /\ \A c \in DOMAIN cs : Backfilled(cs)[c].region \in Regions
  <1>1. ASSUME NEW name
        PROVE  RegionOf(name) \in Regions
    BY MigrationAssumption DEF RegionOf
  <1>2. DOMAIN Backfilled(cs) = DOMAIN cs
    BY DEF Backfilled
  <1>3. ASSUME NEW c \in DOMAIN cs
        PROVE  /\ Backfilled(cs)[c] \in City
               /\ Backfilled(cs)[c].name = cs[c].name
               /\ Backfilled(cs)[c].region \in Regions
    <2>1. cs[c] \in City
      BY DEF CityTable
    <2>2. Backfilled(cs)[c] = [cs[c] EXCEPT !.region = RegionOf(cs[c].name)]
      BY DEF Backfilled
    <2>3. RegionOf(cs[c].name) \in Regions
      BY <1>1
    <2>. QED
      BY <2>1, <2>2, <2>3 DEF City
  <1>4. Backfilled(cs) = [c \in DOMAIN cs |-> Backfilled(cs)[c]]
    BY DEF Backfilled
  <1>. QED
    BY <1>2, <1>3, <1>4 DEF CityTable

LEMMA MergedCitiesType ==
  ASSUME NEW cs, CityTable(cs)
  PROVE  /\ CityTable(MergedCities(cs))
         /\ DOMAIN MergedCities(cs) = KeptCities(Backfilled(cs))
         /\ \A c \in DOMAIN MergedCities(cs) :
              /\ c \in DOMAIN cs
              /\ MergedCities(cs)[c] = Backfilled(cs)[c]
         /\ NoTwinCities(MergedCities(cs))
  <1>1. DOMAIN MergedCities(cs) = KeptCities(Backfilled(cs))
    BY DEF MergedCities, Only
  <1>2. KeptCities(Backfilled(cs)) \subseteq DOMAIN cs
    BY BackfilledType DEF KeptCities
  <1>3. \A c \in DOMAIN MergedCities(cs) : MergedCities(cs)[c] = Backfilled(cs)[c]
    BY <1>1 DEF MergedCities, Only
  <1>4. MergedCities(cs) \in [DOMAIN MergedCities(cs) -> City]
    <2>1. \A c \in DOMAIN MergedCities(cs) : Backfilled(cs)[c] \in City
      BY <1>1, <1>2, BackfilledType DEF CityTable
    <2>. QED
      BY <1>1, <2>1 DEF MergedCities, Only
  <1>5. CityTable(MergedCities(cs))
    BY <1>1, <1>2, <1>4 DEF CityTable
  <1>6. NoTwinCities(MergedCities(cs))
    <2>. SUFFICES ASSUME NEW c \in DOMAIN MergedCities(cs), NEW d \in DOMAIN MergedCities(cs),
                         MergedCities(cs)[c].region = MergedCities(cs)[d].region,
                         Norm[MergedCities(cs)[c].name] = Norm[MergedCities(cs)[d].name]
                  PROVE  c = d
      BY DEF NoTwinCities
    <2>1. CityKey(Backfilled(cs)[c]) = CityKey(Backfilled(cs)[d])
      BY <1>3 DEF CityKey
    <2>. QED
      BY <1>1, <2>1, KeptCitiesDiffer
  <1>. QED
    BY <1>1, <1>2, <1>3, <1>5, <1>6

--------------------------------------------------------------------------------
(* The localities added are new, and no two of them are alike.                    *)
LEMMA PreloadedType ==
  ASSUME NEW cs, CityTable(cs), NoTwinCities(cs), FreshIds(cs) # {}
  PROVE  /\ CityTable(Preloaded(cs))
         /\ DOMAIN cs \subseteq DOMAIN Preloaded(cs)
         /\ \A c \in DOMAIN cs : Preloaded(cs)[c] = cs[c]
         /\ NoTwinCities(Preloaded(cs))
         /\ HasLocalities(Preloaded(cs))
  <1>. DEFINE id == CHOOSE f \in FreshIds(cs) : TRUE
  <1>1. id \in FreshIds(cs)
    OBVIOUS
  <1>. HIDE DEF id
  <1>. DEFINE new == {id[l] : l \in MissingLocalities(cs)}
  <1>2. /\ \A l \in MissingLocalities(cs) : id[l] \in CityIds \ DOMAIN cs
        /\ \A l, m \in MissingLocalities(cs) : id[l] = id[m] => l = m
    BY <1>1 DEF FreshIds
  <1>3. Preloaded(cs) =
          [c \in DOMAIN cs \cup new |->
             IF c \in DOMAIN cs THEN cs[c]
             ELSE CHOOSE l \in MissingLocalities(cs) : id[l] = c]
    BY DEF Preloaded, id
  <1>4. MissingLocalities(cs) \subseteq Localities /\ Localities \subseteq City
    BY MigrationAssumption DEF MissingLocalities, City
  <1>5. DOMAIN Preloaded(cs) = DOMAIN cs \cup new
    BY <1>3
  <1>6. \A c \in DOMAIN cs : Preloaded(cs)[c] = cs[c]
    BY <1>3
  <1>7. ASSUME NEW l \in MissingLocalities(cs)
        PROVE  id[l] \in DOMAIN Preloaded(cs) /\ Preloaded(cs)[id[l]] = l
    <2>1. id[l] \in new /\ id[l] \notin DOMAIN cs
      BY <1>2
    <2>2. Preloaded(cs)[id[l]] = CHOOSE m \in MissingLocalities(cs) : id[m] = id[l]
      BY <1>3, <2>1
    <2>. QED
      BY <1>2, <1>5, <2>1, <2>2
  <1>8. CityTable(Preloaded(cs))
    <2>1. DOMAIN Preloaded(cs) \subseteq CityIds
      BY <1>2, <1>5 DEF CityTable
    <2>2. ASSUME NEW c \in DOMAIN Preloaded(cs)
          PROVE  Preloaded(cs)[c] \in City
      BY <1>4, <1>5, <1>6, <1>7 DEF CityTable
    <2>3. Preloaded(cs) = [c \in DOMAIN Preloaded(cs) |-> Preloaded(cs)[c]]
      BY <1>3, <1>5
    <2>. QED
      BY <2>1, <2>2, <2>3 DEF CityTable
  <1>9. NoTwinCities(Preloaded(cs))
    <2>. SUFFICES ASSUME NEW c \in DOMAIN Preloaded(cs), NEW d \in DOMAIN Preloaded(cs),
                         Preloaded(cs)[c].region = Preloaded(cs)[d].region,
                         Norm[Preloaded(cs)[c].name] = Norm[Preloaded(cs)[d].name]
                  PROVE  c = d
      BY DEF NoTwinCities
    <2>1. CASE c \in DOMAIN cs /\ d \in DOMAIN cs
      BY <1>6, <2>1 DEF NoTwinCities
    <2>2. ASSUME NEW x \in DOMAIN cs, NEW l \in MissingLocalities(cs)
          PROVE  ~(cs[x].region = l.region /\ Norm[cs[x].name] = Norm[l.name])
      BY DEF MissingLocalities, CityKey
    <2>3. CASE c \in DOMAIN cs /\ d \notin DOMAIN cs
      <3>1. PICK l \in MissingLocalities(cs) : d = id[l]
        BY <1>5, <2>3
      <3>. QED
        BY <1>6, <1>7, <2>2, <2>3, <3>1
    <2>4. CASE c \notin DOMAIN cs /\ d \in DOMAIN cs
      <3>1. PICK l \in MissingLocalities(cs) : c = id[l]
        BY <1>5, <2>4
      <3>. QED
        BY <1>6, <1>7, <2>2, <2>4, <3>1
    <2>5. CASE c \notin DOMAIN cs /\ d \notin DOMAIN cs
      <3>1. PICK l \in MissingLocalities(cs) : c = id[l]
        BY <1>5, <2>5
      <3>2. PICK m \in MissingLocalities(cs) : d = id[m]
        BY <1>5, <2>5
      <3>3. Norm[l.name] = Norm[m.name]
        BY <1>7, <3>1, <3>2
      <3>4. l = m
        BY <1>4, <3>3, MigrationAssumption
      <3>. QED
        BY <3>1, <3>2, <3>4
    <2>. QED
      BY <2>1, <2>3, <2>4, <2>5
  <1>10. HasLocalities(Preloaded(cs))
    <2>. SUFFICES ASSUME NEW l \in Localities
                  PROVE  \E c \in DOMAIN Preloaded(cs) :
                           /\ Preloaded(cs)[c].region = l.region
                           /\ Norm[Preloaded(cs)[c].name] = Norm[l.name]
      BY DEF HasLocalities
    <2>1. CASE l \in MissingLocalities(cs)
      BY <1>7, <2>1
    <2>2. CASE l \notin MissingLocalities(cs)
      <3>1. PICK c \in DOMAIN cs : CityKey(cs[c]) = CityKey(l)
        BY <2>2 DEF MissingLocalities
      <3>. QED
        BY <1>5, <1>6, <3>1 DEF CityKey
    <2>. QED
      BY <2>1, <2>2
  <1>. QED
    BY <1>5, <1>6, <1>8, <1>9, <1>10

--------------------------------------------------------------------------------
(* Tables of suburbs, whose cities are in a table of cities.                      *)
SuburbTable(ss) == DOMAIN ss \subseteq SuburbIds /\ ss \in [DOMAIN ss -> Suburb]
SuburbsIn(ss, cs) == \A s \in DOMAIN ss : ss[s].city \in DOMAIN cs

LEMMA CanonicalSuburbIsKept ==
  ASSUME NEW ss, SuburbTable(ss), NEW s \in DOMAIN ss
  PROVE  /\ CanonicalSuburb(ss, s) \in KeptSuburbs(ss)
         /\ CanonicalSuburb(ss, s) \in DOMAIN ss
         /\ ss[CanonicalSuburb(ss, s)].city = ss[s].city
         /\ Norm[ss[CanonicalSuburb(ss, s)].name] = Norm[ss[s].name]
  <1>1. SameSuburb(ss, s) \in SUBSET Nat /\ SameSuburb(ss, s) # {}
    BY MigrationAssumption DEF SameSuburb, SuburbTable
  <1>2. CanonicalSuburb(ss, s) \in SameSuburb(ss, s)
    BY <1>1, SmallestIsMember DEF CanonicalSuburb
  <1>3. /\ CanonicalSuburb(ss, s) \in DOMAIN ss
        /\ ss[CanonicalSuburb(ss, s)].city = ss[s].city
        /\ Norm[ss[CanonicalSuburb(ss, s)].name] = Norm[ss[s].name]
    BY <1>2 DEF SameSuburb
  <1>4. SameSuburb(ss, CanonicalSuburb(ss, s)) = SameSuburb(ss, s)
    BY <1>3 DEF SameSuburb
  <1>5. CanonicalSuburb(ss, CanonicalSuburb(ss, s)) = CanonicalSuburb(ss, s)
    BY <1>4 DEF CanonicalSuburb
  <1>. QED
    BY <1>3, <1>5 DEF KeptSuburbs

LEMMA KeptSuburbsDiffer ==
  ASSUME NEW ss, NEW s \in KeptSuburbs(ss), NEW t \in KeptSuburbs(ss),
         ss[s].city = ss[t].city, Norm[ss[s].name] = Norm[ss[t].name]
  PROVE  s = t
  <1>1. SameSuburb(ss, s) = SameSuburb(ss, t)
    BY DEF SameSuburb
  <1>2. CanonicalSuburb(ss, s) = CanonicalSuburb(ss, t)
    BY <1>1 DEF CanonicalSuburb
  <1>. QED
    BY <1>2 DEF KeptSuburbs

LEMMA MovedSuburbsType ==
  ASSUME NEW cs, CityTable(cs), NEW ss, SuburbTable(ss), SuburbsIn(ss, cs)
  PROVE  /\ SuburbTable(MovedSuburbs(cs, ss))
         /\ DOMAIN MovedSuburbs(cs, ss) = DOMAIN ss
         /\ \A s \in DOMAIN ss : MovedSuburbs(cs, ss)[s].name = ss[s].name
         /\ \A s \in DOMAIN ss : MovedSuburbs(cs, ss)[s].city = CanonicalCity(cs, ss[s].city)
         /\ \A s \in DOMAIN ss : MovedSuburbs(cs, ss)[s].city \in KeptCities(cs)
  <1>1. DOMAIN MovedSuburbs(cs, ss) = DOMAIN ss
    BY DEF MovedSuburbs
  <1>2. ASSUME NEW s \in DOMAIN ss
        PROVE  /\ MovedSuburbs(cs, ss)[s] \in Suburb
               /\ MovedSuburbs(cs, ss)[s].name = ss[s].name
               /\ MovedSuburbs(cs, ss)[s].city = CanonicalCity(cs, ss[s].city)
               /\ MovedSuburbs(cs, ss)[s].city \in KeptCities(cs)
    <2>1. ss[s] \in Suburb
      BY DEF SuburbTable
    <2>2. MovedSuburbs(cs, ss)[s] = [ss[s] EXCEPT !.city = CanonicalCity(cs, ss[s].city)]
      BY DEF MovedSuburbs
    <2>3. /\ CanonicalCity(cs, ss[s].city) \in KeptCities(cs)
          /\ CanonicalCity(cs, ss[s].city) \in CityIds
      BY CanonicalCityIsKept DEF SuburbsIn, CityTable
    <2>. QED
      BY <2>1, <2>2, <2>3 DEF Suburb
  <1>3. MovedSuburbs(cs, ss) = [s \in DOMAIN ss |-> MovedSuburbs(cs, ss)[s]]
    BY DEF MovedSuburbs
  <1>. QED
    BY <1>1, <1>2, <1>3 DEF SuburbTable

--------------------------------------------------------------------------------
(* Branches, the tables they refer to, and what the migration makes of all three. *)
BranchTable(bs) == DOMAIN bs \subseteq BranchIds /\ bs \in [DOMAIN bs -> Branch]

BranchesIn(bs, ss, cs, cust) ==
  \A b \in DOMAIN bs :
    /\ bs[b].customer \in cust
    /\ bs[b].city \in DOMAIN cs
    /\ bs[b].suburb \in DOMAIN ss \cup {None, NoSuburb}
    /\ bs[b].suburb \in DOMAIN ss => ss[bs[b].suburb].city = bs[b].city

Sound(cust, cs, ss, bs) ==
  /\ CityTable(cs) /\ SuburbTable(ss) /\ BranchTable(bs)
  /\ SuburbsIn(ss, cs)
  /\ BranchesIn(bs, ss, cs, cust)

LEMMA NoSuburbIsNoId == None \notin SuburbIds /\ NoSuburb \notin SuburbIds
  BY MigrationAssumption DEF NoSuburb

LEMMA UpgradedCitiesType ==
  ASSUME NEW cs, CityTable(cs), FreshIds(MergedCities(cs)) # {}
  PROVE  /\ CityTable(UpgradedCities(cs))
         /\ NoTwinCities(UpgradedCities(cs))
         /\ HasLocalities(UpgradedCities(cs))
         /\ \A c \in KeptCities(Backfilled(cs)) :
              /\ c \in DOMAIN UpgradedCities(cs)
              /\ UpgradedCities(cs)[c] = Backfilled(cs)[c]
  BY MergedCitiesType, PreloadedType DEF UpgradedCities

LEMMA UpgradedSuburbsType ==
  ASSUME NEW cs, CityTable(cs), NEW ss, SuburbTable(ss), SuburbsIn(ss, cs)
  PROVE  LET moved == MovedSuburbs(Backfilled(cs), ss) IN
         /\ SuburbTable(UpgradedSuburbs(cs, ss))
         /\ DOMAIN UpgradedSuburbs(cs, ss) = KeptSuburbs(moved)
         /\ \A s \in KeptSuburbs(moved) : UpgradedSuburbs(cs, ss)[s] = moved[s]
         /\ NoTwinSuburbs(UpgradedSuburbs(cs, ss))
  <1>. DEFINE moved == MovedSuburbs(Backfilled(cs), ss)
  <1>1. SuburbTable(moved) /\ DOMAIN moved = DOMAIN ss
    BY BackfilledType, MovedSuburbsType DEF SuburbsIn
  <1>2. UpgradedSuburbs(cs, ss) = [s \in KeptSuburbs(moved) |-> moved[s]]
    BY DEF UpgradedSuburbs, Only
  <1>. HIDE DEF moved
  <1>3. KeptSuburbs(moved) \subseteq DOMAIN moved
    BY DEF KeptSuburbs
  <1>4. SuburbTable(UpgradedSuburbs(cs, ss))
    BY <1>1, <1>2, <1>3 DEF SuburbTable
  <1>5. NoTwinSuburbs(UpgradedSuburbs(cs, ss))
    BY <1>2, KeptSuburbsDiffer DEF NoTwinSuburbs
  <1>. QED
    BY <1>2, <1>4, <1>5 DEF moved

(* What becomes of one branch.                                                    *)
LEMMA MovedBranch ==
  ASSUME NEW cust, NEW cs, NEW ss, NEW bs, Sound(cust, cs, ss, bs), NEW b \in DOMAIN bs
  PROVE  LET dated == Backfilled(cs)
             moved == MovedSuburbs(dated, ss)
             after == UpgradedBranches(cs, ss, bs)[b]
         IN  /\ after \in Branch
             /\ after.customer = bs[b].customer
             /\ after.city = CanonicalCity(dated, bs[b].city)
             /\ after.suburb = IF bs[b].suburb \in DOMAIN ss THEN CanonicalSuburb(moved, bs[b].suburb)
                               ELSE bs[b].suburb
  <1>. DEFINE dated == Backfilled(cs)
              moved == MovedSuburbs(dated, ss)
              after == UpgradedBranches(cs, ss, bs)[b]
              suburb == IF bs[b].suburb \in DOMAIN ss THEN CanonicalSuburb(moved, bs[b].suburb)
                        ELSE bs[b].suburb
  <1>1. /\ CityTable(cs) /\ SuburbTable(ss) /\ SuburbsIn(ss, cs) /\ bs[b] \in Branch
        /\ bs[b].city \in DOMAIN cs
    BY DEF Sound, BranchTable, BranchesIn
  <1>2. CityTable(dated) /\ DOMAIN dated = DOMAIN cs
    BY <1>1, BackfilledType
  <1>3. SuburbTable(moved) /\ DOMAIN moved = DOMAIN ss
    BY <1>1, <1>2, MovedSuburbsType DEF SuburbsIn
  <1>4. CanonicalCity(dated, bs[b].city) \in CityIds
    BY <1>1, <1>2, CanonicalCityIsKept DEF CityTable
  <1>5. suburb \in SuburbIds \cup {None, NoSuburb}
    <2>1. CASE bs[b].suburb \in DOMAIN ss
      BY <1>3, <2>1, CanonicalSuburbIsKept DEF SuburbTable
    <2>2. CASE bs[b].suburb \notin DOMAIN ss
      BY <1>1, <2>2 DEF Branch
    <2>. QED
      BY <2>1, <2>2
  <1>6. after = [bs[b] EXCEPT !.city = CanonicalCity(dated, bs[b].city), !.suburb = suburb]
    BY <1>3 DEF UpgradedBranches, MovedBranches
  <1>. HIDE DEF after, suburb, dated, moved
  <1>7. /\ after \in Branch
        /\ after.customer = bs[b].customer
        /\ after.city = CanonicalCity(dated, bs[b].city)
        /\ after.suburb = suburb
    BY <1>1, <1>4, <1>5, <1>6 DEF Branch
  <1>. QED
    BY <1>7 DEF after, suburb, dated, moved

LEMMA UpgradedIsSound ==
  ASSUME NEW cust, NEW cs, NEW ss, NEW bs, Sound(cust, cs, ss, bs),
         FreshIds(MergedCities(cs)) # {}
  PROVE  Sound(cust, UpgradedCities(cs), UpgradedSuburbs(cs, ss), UpgradedBranches(cs, ss, bs))
  <1>. DEFINE dated == Backfilled(cs)
              moved == MovedSuburbs(dated, ss)
              cs2 == UpgradedCities(cs)
              ss2 == UpgradedSuburbs(cs, ss)
              bs2 == UpgradedBranches(cs, ss, bs)
  <1>1. CityTable(cs) /\ SuburbTable(ss) /\ SuburbsIn(ss, cs) /\ BranchTable(bs)
    BY DEF Sound
  <1>2. CityTable(dated) /\ DOMAIN dated = DOMAIN cs
    BY <1>1, BackfilledType
  <1>3. /\ SuburbTable(moved) /\ DOMAIN moved = DOMAIN ss
        /\ \A s \in DOMAIN ss : moved[s].city = CanonicalCity(dated, ss[s].city)
        /\ \A s \in DOMAIN ss : moved[s].city \in KeptCities(dated)
    BY <1>1, <1>2, MovedSuburbsType DEF SuburbsIn
  <1>4. CityTable(cs2) /\ \A c \in KeptCities(dated) : c \in DOMAIN cs2
    BY <1>1, UpgradedCitiesType
  <1>5. /\ SuburbTable(ss2) /\ DOMAIN ss2 = KeptSuburbs(moved)
        /\ \A s \in KeptSuburbs(moved) : ss2[s] = moved[s]
    BY <1>1, UpgradedSuburbsType
  <1>6. DOMAIN bs2 = DOMAIN bs /\ bs2 = [b \in DOMAIN bs |-> bs2[b]]
    BY DEF UpgradedBranches, MovedBranches
  <1>7. ASSUME NEW b \in DOMAIN bs
        PROVE  /\ bs2[b] \in Branch
               /\ bs2[b].customer = bs[b].customer
               /\ bs2[b].city = CanonicalCity(dated, bs[b].city)
               /\ bs2[b].suburb = IF bs[b].suburb \in DOMAIN ss
                                  THEN CanonicalSuburb(moved, bs[b].suburb) ELSE bs[b].suburb
    BY MovedBranch
  <1>8. KeptSuburbs(moved) \subseteq DOMAIN moved
    BY DEF KeptSuburbs
  <1>. HIDE DEF dated, moved, cs2, ss2, bs2
  <1>9. SuburbsIn(ss2, cs2)
    BY <1>3, <1>4, <1>5, <1>8 DEF SuburbsIn
  <1>10. BranchTable(bs2)
    BY <1>1, <1>6, <1>7 DEF BranchTable
  <1>11. ASSUME NEW b \in DOMAIN bs
         PROVE  /\ bs2[b].customer \in cust
                /\ bs2[b].city \in DOMAIN cs2
                /\ bs2[b].suburb \in DOMAIN ss2 \cup {None, NoSuburb}
                /\ bs2[b].suburb \in DOMAIN ss2 => ss2[bs2[b].suburb].city = bs2[b].city
    <2>1. /\ bs[b].customer \in cust /\ bs[b].city \in DOMAIN cs
          /\ bs[b].suburb \in DOMAIN ss \cup {None, NoSuburb}
          /\ bs[b].suburb \in DOMAIN ss => ss[bs[b].suburb].city = bs[b].city
      BY DEF Sound, BranchesIn
    <2>2. bs2[b].city \in DOMAIN cs2
      BY <1>2, <1>4, <1>7, <2>1, CanonicalCityIsKept
    <2>3. CASE bs[b].suburb \in DOMAIN ss
      <3>1. /\ bs2[b].suburb \in KeptSuburbs(moved)
            /\ moved[bs2[b].suburb].city = moved[bs[b].suburb].city
        BY <1>3, <1>7, <2>3, CanonicalSuburbIsKept
      <3>2. moved[bs[b].suburb].city = bs2[b].city
        BY <1>3, <1>7, <2>1, <2>3
      <3>. QED
        BY <1>5, <1>7, <2>1, <2>2, <3>1, <3>2
    <2>4. CASE bs[b].suburb \notin DOMAIN ss
      <3>1. bs2[b].suburb \in {None, NoSuburb}
        BY <1>7, <2>1, <2>4
      <3>2. bs2[b].suburb \notin DOMAIN ss2
        BY <1>5, <3>1, NoSuburbIsNoId DEF SuburbTable
      <3>. QED
        BY <1>7, <2>1, <2>2, <3>1, <3>2
    <2>. QED
      BY <2>3, <2>4
  <1>12. BranchesIn(bs2, ss2, cs2, cust)
    BY <1>6, <1>11 DEF BranchesIn
  <1>13. Sound(cust, cs2, ss2, bs2)
    BY <1>4, <1>5, <1>9, <1>10, <1>12 DEF Sound
  <1>. QED
    BY <1>13 DEF cs2, ss2, bs2

--------------------------------------------------------------------------------
(* An insert keeps every row and adds one.                                        *)
LEMMA FreshIdIsNew ==
  ASSUME NEW table, NEW ids, DOMAIN table \subseteq ids, DOMAIN table # ids
  PROVE  FreshId(table, ids) \in ids /\ FreshId(table, ids) \notin DOMAIN table
  <1>1. \E i \in ids : i \notin DOMAIN table
    OBVIOUS
  <1>. QED
    BY <1>1 DEF FreshId

LEMMA AddedCity ==
  ASSUME NEW cust, NEW cs, NEW ss, NEW bs, Sound(cust, cs, ss, bs),
         NEW row \in City, DOMAIN cs # CityIds
  PROVE  /\ Sound(cust, Added(cs, CityIds, row), ss, bs)
         /\ DOMAIN cs \subseteq DOMAIN Added(cs, CityIds, row)
  <1>. DEFINE new == Added(cs, CityIds, row)
  <1>1. DOMAIN cs \subseteq CityIds
    BY DEF Sound, CityTable
  <1>. DEFINE c == FreshId(cs, CityIds)
  <1>2. /\ c \in CityIds /\ c \notin DOMAIN cs
        /\ DOMAIN new = DOMAIN cs \cup {c} /\ new[c] = row
        /\ \A i \in DOMAIN cs : new[i] = cs[i]
    <2>1. c \in CityIds /\ c \notin DOMAIN cs
      BY <1>1, FreshIdIsNew, Zenon
    <2>. QED
      BY <2>1 DEF Added
  <1>3. new = [i \in DOMAIN new |-> new[i]]
    BY DEF Added
  <1>. HIDE DEF new, c
  <1>4. CityTable(new)
    BY <1>1, <1>2, <1>3 DEF Sound, CityTable
  <1>5. Sound(cust, new, ss, bs)
    BY <1>2, <1>4 DEF Sound, SuburbsIn, BranchesIn
  <1>. QED
    BY <1>2, <1>5 DEF new

LEMMA AddedSuburb ==
  ASSUME NEW cust, NEW cs, NEW ss, NEW bs, Sound(cust, cs, ss, bs),
         NEW row \in Suburb, row.city \in DOMAIN cs, DOMAIN ss # SuburbIds
  PROVE  Sound(cust, cs, Added(ss, SuburbIds, row), bs)
  <1>. DEFINE new == Added(ss, SuburbIds, row)
  <1>1. DOMAIN ss \subseteq SuburbIds
    BY DEF Sound, SuburbTable
  <1>. DEFINE s == FreshId(ss, SuburbIds)
  <1>2. /\ s \in SuburbIds /\ s \notin DOMAIN ss
        /\ DOMAIN new = DOMAIN ss \cup {s} /\ new[s] = row
        /\ \A i \in DOMAIN ss : new[i] = ss[i]
    <2>1. s \in SuburbIds /\ s \notin DOMAIN ss
      BY <1>1, FreshIdIsNew, Zenon
    <2>. QED
      BY <2>1 DEF Added
  <1>3. new = [i \in DOMAIN new |-> new[i]]
    BY DEF Added
  <1>. HIDE DEF new, s
  <1>4. SuburbTable(new)
    BY <1>1, <1>2, <1>3 DEF Sound, SuburbTable
  <1>5. SuburbsIn(new, cs)
    BY <1>2 DEF Sound, SuburbsIn
  <1>6. BranchesIn(bs, new, cs, cust)
    <2>. SUFFICES ASSUME NEW b \in DOMAIN bs
                  PROVE  /\ bs[b].customer \in cust
                         /\ bs[b].city \in DOMAIN cs
                         /\ bs[b].suburb \in DOMAIN new \cup {None, NoSuburb}
                         /\ bs[b].suburb \in DOMAIN new => new[bs[b].suburb].city = bs[b].city
      BY DEF BranchesIn
    <2>1. /\ bs[b].customer \in cust /\ bs[b].city \in DOMAIN cs
          /\ bs[b].suburb \in DOMAIN ss \cup {None, NoSuburb}
          /\ bs[b].suburb \in DOMAIN ss => ss[bs[b].suburb].city = bs[b].city
      BY DEF Sound, BranchesIn
    <2>2. bs[b].suburb # s
      BY <1>2, <2>1, NoSuburbIsNoId
    <2>. QED
      BY <1>2, <2>1, <2>2
  <1>7. Sound(cust, cs, new, bs)
    BY <1>4, <1>5, <1>6 DEF Sound
  <1>. QED
    BY <1>7 DEF new

LEMMA AddedBranch ==
  ASSUME NEW cust, NEW cs, NEW ss, NEW bs, Sound(cust, cs, ss, bs),
         NEW row \in Branch, row.customer \in cust, row.city \in DOMAIN cs,
         \/ row.suburb \in {None, NoSuburb}
         \/ row.suburb \in DOMAIN ss /\ ss[row.suburb].city = row.city,
         DOMAIN bs # BranchIds
  PROVE  /\ Sound(cust, cs, ss, Added(bs, BranchIds, row))
         /\ DOMAIN bs \subseteq DOMAIN Added(bs, BranchIds, row)
         /\ \A b \in DOMAIN bs : Added(bs, BranchIds, row)[b] = bs[b]
  <1>. DEFINE new == Added(bs, BranchIds, row)
  <1>1. DOMAIN bs \subseteq BranchIds
    BY DEF Sound, BranchTable
  <1>. DEFINE n == FreshId(bs, BranchIds)
  <1>2. /\ n \in BranchIds /\ n \notin DOMAIN bs
        /\ DOMAIN new = DOMAIN bs \cup {n} /\ new[n] = row
        /\ \A i \in DOMAIN bs : new[i] = bs[i]
    <2>1. n \in BranchIds /\ n \notin DOMAIN bs
      BY <1>1, FreshIdIsNew, Zenon
    <2>. QED
      BY <2>1 DEF Added
  <1>3. new = [i \in DOMAIN new |-> new[i]]
    BY DEF Added
  <1>. HIDE DEF new, n
  <1>4. BranchTable(new)
    BY <1>1, <1>2, <1>3 DEF Sound, BranchTable
  <1>5. row.suburb \in DOMAIN ss => ss[row.suburb].city = row.city
    BY NoSuburbIsNoId DEF Sound, SuburbTable
  <1>6. BranchesIn(new, ss, cs, cust)
    BY <1>2, <1>5 DEF Sound, BranchesIn
  <1>7. Sound(cust, cs, ss, new)
    BY <1>4, <1>6 DEF Sound
  <1>. QED
    BY <1>2, <1>7 DEF new

--------------------------------------------------------------------------------
(* The inductive invariant.  The server is stopped while the schema is the old    *)
(* one, so no request is caught by the migration and none has checked against a   *)
(* city that the migration removes.                                               *)
Stopped ==
  schema = "perCustomer" => explorer = None /\ \A r \in Requests : request[r] = None

PendingResolve ==
  \A r \in Requests :
    request[r] # None /\ request[r].adds = "suburb" => request[r].row.city \in DOMAIN cities

RunIsComplete ==
  explorer # None =>
    /\ explorer.before \subseteq DOMAIN branches
    /\ \A b \in explorer.before : branches[b].customer \in explorer.customers
    /\ explorer.loaded \subseteq DOMAIN branches
    /\ explorer.next = "answer" => explorer.before \subseteq explorer.loaded

Inv ==
  /\ schema \in {"perCustomer", "shared"}
  /\ customers \in SUBSET Customers
  /\ Sound(customers, cities, suburbs, branches)
  /\ request \in [Requests -> CityRequests \cup SuburbRequests \cup {None}]
  /\ explorer \in Runs \cup {None}
  /\ Stopped
  /\ PendingResolve
  /\ RunIsComplete

LEMMA InvImplies == Inv => TypeOK /\ ReferencesResolve /\ SuburbIsInTheCity
  BY DEF Inv, Sound, CityTable, SuburbTable, BranchTable, SuburbsIn, BranchesIn,
         TypeOK, ReferencesResolve, SuburbIsInTheCity

LEMMA InitInv == Init => Inv
  <1>. SUFFICES ASSUME Init PROVE Inv
    OBVIOUS
  <1>1. PICK ids \in SUBSET CityIds : cities \in [ids -> [name : Names, region : {None}]]
    BY DEF Init
  <1>2. CityTable(cities)
    BY <1>1 DEF CityTable, City
  <1>3. PICK sids \in SUBSET SuburbIds : suburbs \in [sids -> [city : DOMAIN cities, name : Names]]
    BY DEF Init
  <1>4. SuburbTable(suburbs) /\ SuburbsIn(suburbs, cities)
    <2>1. DOMAIN cities \subseteq CityIds
      BY <1>2 DEF CityTable
    <2>. QED
      BY <1>3, <2>1 DEF SuburbTable, Suburb, SuburbsIn
  <1>5. PICK bids \in SUBSET BranchIds :
          branches \in [bids -> [customer : customers, city : DOMAIN cities,
                                 suburb : DOMAIN suburbs \cup {None}]]
    BY DEF Init
  <1>6. DOMAIN branches = bids /\ \A b \in bids : 
          branches[b] \in [customer : customers, city : DOMAIN cities,
                           suburb : DOMAIN suburbs \cup {None}]
    BY <1>5
  <1>7. BranchTable(branches)
    <2>1. customers \subseteq Customers /\ DOMAIN cities \subseteq CityIds
          /\ DOMAIN suburbs \subseteq SuburbIds
      BY <1>2, <1>4 DEF Init, CityTable, SuburbTable
    <2>2. [customer : customers, city : DOMAIN cities, suburb : DOMAIN suburbs \cup {None}]
            \subseteq Branch
      BY <2>1 DEF Branch
    <2>. QED
      BY <1>5, <1>6, <2>2 DEF BranchTable
  <1>8. BranchesIn(branches, suburbs, cities, customers)
    <2>. SUFFICES ASSUME NEW b \in DOMAIN branches
                  PROVE  /\ branches[b].customer \in customers
                         /\ branches[b].city \in DOMAIN cities
                         /\ branches[b].suburb \in DOMAIN suburbs \cup {None, NoSuburb}
                         /\ branches[b].suburb \in DOMAIN suburbs =>
                              suburbs[branches[b].suburb].city = branches[b].city
      BY DEF BranchesIn
    <2>1. branches[b].suburb # None => suburbs[branches[b].suburb].city = branches[b].city
      BY DEF Init
    <2>2. None \notin DOMAIN suburbs
      BY <1>4, NoSuburbIsNoId DEF SuburbTable
    <2>. QED
      BY <1>6, <2>1, <2>2
  <1>9. Sound(customers, cities, suburbs, branches)
    BY <1>2, <1>4, <1>7, <1>8 DEF Sound
  <1>. QED
    BY <1>9 DEF Init, Inv, Stopped, PendingResolve, RunIsComplete

(* A request that is made or ends, the others as they were.                       *)
LEMMA RequestStep ==
  ASSUME Inv, NEW r \in Requests,
         NEW value \in CityRequests \cup SuburbRequests \cup {None},
         request' = [request EXCEPT ![r] = value],
         value # None /\ value.adds = "suburb" => value.row.city \in DOMAIN cities',
         DOMAIN cities \subseteq DOMAIN cities'
  PROVE  /\ request' \in [Requests -> CityRequests \cup SuburbRequests \cup {None}]
         /\ PendingResolve'
  <1>1. request \in [Requests -> CityRequests \cup SuburbRequests \cup {None}]
    BY DEF Inv
  <1>2. request' \in [Requests -> CityRequests \cup SuburbRequests \cup {None}]
    BY <1>1
  <1>3. ASSUME NEW q \in Requests, request'[q] # None, request'[q].adds = "suburb"
        PROVE  request'[q].row.city \in DOMAIN cities'
    <2>1. CASE q = r
      BY <1>1, <1>3, <2>1
    <2>2. CASE q # r
      BY <1>1, <1>3, <2>2 DEF Inv, PendingResolve
    <2>. QED
      BY <2>1, <2>2
  <1>. QED
    BY <1>2, <1>3 DEF PendingResolve

(* A branch that is added leaves a run of the Explorer as complete as it was.     *)
LEMMA RunStaysComplete ==
  ASSUME Inv, UNCHANGED explorer, DOMAIN branches \subseteq DOMAIN branches',
         \A b \in DOMAIN branches : branches'[b] = branches[b]
  PROVE  RunIsComplete'
  BY DEF Inv, RunIsComplete

LEMMA NextInv == Inv /\ [Next]_vars => Inv'
  <1>. SUFFICES ASSUME Inv, [Next]_vars PROVE Inv'
    OBVIOUS
  <1>1. CASE Upgrade
    <2>1. Sound(customers, cities', suburbs', branches')
      BY <1>1, UpgradedIsSound DEF Upgrade, Inv
    <2>2. explorer = None /\ \A r \in Requests : request[r] = None
      BY <1>1 DEF Upgrade, Inv, Stopped
    <2>3. Stopped' /\ PendingResolve' /\ RunIsComplete'
      BY <1>1, <2>2 DEF Upgrade, Stopped, PendingResolve, RunIsComplete
    <2>. QED
      BY <1>1, <2>1, <2>3 DEF Upgrade, Inv
  <1>2. CASE Downgrade
    <2>1. DOMAIN cities' = DOMAIN cities
      BY <1>2 DEF Downgrade, DowngradedCities
    <2>2. CityTable(cities')
      <3>1. CityTable(cities)
        BY DEF Inv, Sound
      <3>2. ASSUME NEW c \in DOMAIN cities
            PROVE  [cities[c] EXCEPT !.region = None] \in City
        BY <3>1 DEF CityTable, City
      <3>. QED
        BY <1>2, <3>1, <3>2 DEF Downgrade, DowngradedCities, CityTable
    <2>3. Sound(customers, cities', suburbs', branches')
      BY <1>2, <2>1, <2>2 DEF Downgrade, Inv, Sound, SuburbsIn, BranchesIn
    <2>4. Stopped' /\ PendingResolve' /\ RunIsComplete'
      BY <1>2, <2>1 DEF Downgrade, Inv, Stopped, PendingResolve, RunIsComplete
    <2>. QED
      BY <1>2, <2>3, <2>4 DEF Downgrade, Inv
  <1>3. ASSUME NEW c \in Customers, CreateCustomer(c) PROVE Inv'
    <2>1. Sound(customers', cities, suburbs, branches)
      BY <1>3 DEF CreateCustomer, Inv, Sound, BranchesIn
    <2>. QED
      BY <1>3, <2>1
         DEF CreateCustomer, tables, Inv, Stopped, PendingResolve, RunIsComplete
  <1>4. ASSUME NEW r \in Requests, NEW name \in Names, NEW region \in Regions,
               AskCity(r, name, region)
        PROVE  Inv'
    <2>. DEFINE asked == [adds |-> "city", row |-> [name |-> name, region |-> region]]
    <2>1. asked \in CityRequests
      BY DEF CityRequests
    <2>2. asked # None /\ asked.adds # "suburb"
      BY <2>1, NoneIsNothing
    <2>3. /\ request' \in [Requests -> CityRequests \cup SuburbRequests \cup {None}]
          /\ PendingResolve'
      BY <1>4, <2>1, <2>2, RequestStep DEF AskCity, tables
    <2>. QED
      BY <1>4, <2>3 DEF AskCity, tables, Inv, Stopped, RunIsComplete
  <1>5. ASSUME NEW r \in Requests, InsertCity(r) PROVE Inv'
    <2>1. request[r] \in CityRequests /\ request[r].row \in City
      BY <1>5 DEF InsertCity, Inv, CityRequests, SuburbRequests, City
    <2>2. Sound(customers, cities', suburbs, branches) /\ DOMAIN cities \subseteq DOMAIN cities'
      BY <1>5, <2>1, AddedCity DEF InsertCity, Inv
    <2>3. /\ request' \in [Requests -> CityRequests \cup SuburbRequests \cup {None}]
          /\ PendingResolve'
      BY <1>5, <2>2, RequestStep DEF InsertCity, Answered
    <2>4. schema = "shared"
      BY <1>5 DEF InsertCity, Inv, Stopped
    <2>. QED
      BY <1>5, <2>2, <2>3, <2>4 DEF InsertCity, Inv, Stopped, RunIsComplete
  <1>6. ASSUME NEW r \in Requests, NEW city \in CityIds, NEW name \in Names,
               AskSuburb(r, city, name)
        PROVE  Inv'
    <2>. DEFINE asked == [adds |-> "suburb", row |-> [city |-> city, name |-> name]]
    <2>1. asked \in SuburbRequests
      BY DEF SuburbRequests, Suburb
    <2>2. asked # None /\ asked.row.city \in DOMAIN cities
      BY <1>6, <2>1, NoneIsNothing DEF AskSuburb
    <2>3. /\ request' \in [Requests -> CityRequests \cup SuburbRequests \cup {None}]
          /\ PendingResolve'
      BY <1>6, <2>1, <2>2, RequestStep DEF AskSuburb, tables
    <2>. QED
      BY <1>6, <2>3 DEF AskSuburb, tables, Inv, Stopped, RunIsComplete
  <1>7. ASSUME NEW r \in Requests, InsertSuburb(r) PROVE Inv'
    <2>1. /\ request[r].row \in Suburb
          /\ request[r].row.city \in DOMAIN cities
      BY <1>7 DEF InsertSuburb, Inv, CityRequests, SuburbRequests, PendingResolve
    <2>2. Sound(customers, cities, suburbs', branches)
      BY <1>7, <2>1, AddedSuburb DEF InsertSuburb, Inv
    <2>3. /\ request' \in [Requests -> CityRequests \cup SuburbRequests \cup {None}]
          /\ PendingResolve'
      BY <1>7, RequestStep DEF InsertSuburb, Answered
    <2>4. schema = "shared"
      BY <1>7 DEF InsertSuburb, Inv, Stopped
    <2>. QED
      BY <1>7, <2>2, <2>3, <2>4 DEF InsertSuburb, Inv, Stopped, RunIsComplete
  <1>8. ASSUME NEW c \in Customers, NEW city \in CityIds,
               NEW s \in SuburbIds \cup {None, NoSuburb}, CreateBranch(c, city, s)
        PROVE  Inv'
    <2>. DEFINE row == [customer |-> c, city |-> city, suburb |-> s]
    <2>1. row \in Branch
      BY DEF Branch
    <2>2. /\ row.customer \in customers /\ row.city \in DOMAIN cities
          /\ \/ row.suburb \in {None, NoSuburb}
             \/ row.suburb \in DOMAIN suburbs /\ suburbs[row.suburb].city = row.city
          /\ DOMAIN branches # BranchIds
          /\ branches' = Added(branches, BranchIds, row)
      BY <1>8 DEF CreateBranch, SuburbAccepted
    <2>. HIDE DEF row
    <2>3. /\ Sound(customers, cities, suburbs, branches')
          /\ DOMAIN branches \subseteq DOMAIN branches'
          /\ \A b \in DOMAIN branches : branches'[b] = branches[b]
      BY <2>1, <2>2, AddedBranch DEF Inv
    <2>4. RunIsComplete'
      BY <1>8, <2>3, RunStaysComplete DEF CreateBranch
    <2>. QED
      BY <1>8, <2>3, <2>4 DEF CreateBranch, Inv, Stopped, PendingResolve
  <1>9. CASE LoadCustomers
    <2>1. explorer' = [next |-> "branches", customers |-> customers, loaded |-> {},
                       before |-> DOMAIN branches]
      BY <1>9 DEF LoadCustomers
    <2>2. DOMAIN branches \subseteq BranchIds /\ customers \in SUBSET Customers
      BY DEF Inv, Sound, BranchTable
    <2>3. explorer' \in Runs
      BY <2>1, <2>2 DEF Runs
    <2>4. RunIsComplete'
      BY <1>9, <2>1 DEF LoadCustomers, tables, Inv, Sound, BranchesIn, RunIsComplete
    <2>. QED
      BY <1>9, <2>3, <2>4 DEF LoadCustomers, tables, Inv, Stopped, PendingResolve
  <1>10. CASE LoadBranches
    <2>1. explorer \in Runs /\ RunIsComplete /\ DOMAIN branches \subseteq BranchIds
      BY <1>10 DEF LoadBranches, Inv, Sound, BranchTable
    <2>2. /\ explorer'.next = "answer"
          /\ explorer'.customers = explorer.customers
          /\ explorer'.before = explorer.before
          /\ explorer'.loaded =
               {b \in DOMAIN branches : branches[b].customer \in explorer.customers}
          /\ explorer' \in Runs
      BY <1>10, <2>1 DEF LoadBranches, Runs
    <2>3. RunIsComplete'
      BY <1>10, <2>1, <2>2 DEF LoadBranches, tables, RunIsComplete
    <2>4. schema = "shared"
      BY <1>10 DEF LoadBranches, Inv, Stopped
    <2>. QED
      BY <1>10, <2>2, <2>3, <2>4 DEF LoadBranches, tables, Inv, Stopped, PendingResolve
  <1>11. CASE AnswerTree
    BY <1>11 DEF AnswerTree, tables, Inv, Stopped, PendingResolve, RunIsComplete
  <1>12. CASE UNCHANGED vars
    BY <1>12 DEF vars, tables, Inv, Stopped, PendingResolve, RunIsComplete
  <1>. QED
    BY <1>1, <1>2, <1>3, <1>4, <1>5, <1>6, <1>7, <1>8, <1>9, <1>10, <1>11, <1>12 DEF Next

LEMMA Invariance == Spec => []Inv
  BY InitInv, NextInv, PTL DEF Spec

--------------------------------------------------------------------------------
(* The variables keep their types (inventory.py, models.py:61-133).               *)
THEOREM TypeCorrect == Spec => []TypeOK
  BY Invariance, InvImplies, PTL

(* No request and no migration leaves a reference to a row that is not there,     *)
(* although the database checks none (inventory.py:76-146, 8610f8c7c2c6:193-218).   *)
THEOREM ReferencesAlwaysResolve == Spec => []ReferencesResolve
  BY Invariance, InvImplies, PTL

(* A branch is never in a suburb of another city (inventory.py:135-140,           *)
(* 8610f8c7c2c6:193-218).                                                         *)
THEOREM SuburbsAreInTheCity == Spec => []SuburbIsInTheCity
  BY Invariance, InvImplies, PTL

--------------------------------------------------------------------------------
(* The migration moves no branch to a place of another name                       *)
(* (8610f8c7c2c6:170-218).                                                        *)
LEMMA UpgradePlaces ==
  ASSUME Inv, Upgrade
  PROVE  /\ DOMAIN branches' = DOMAIN branches
         /\ \A b \in DOMAIN branches : SamePlace(b)
  <1>. DEFINE dated == Backfilled(cities)
              moved == MovedSuburbs(dated, suburbs)
  <1>1. /\ Sound(customers, cities, suburbs, branches)
        /\ CityTable(cities) /\ SuburbTable(suburbs) /\ SuburbsIn(suburbs, cities)
        /\ FreshIds(MergedCities(cities)) # {}
        /\ cities' = UpgradedCities(cities)
        /\ suburbs' = UpgradedSuburbs(cities, suburbs)
        /\ branches' = UpgradedBranches(cities, suburbs, branches)
    BY DEF Upgrade, Inv, Sound
  <1>2. /\ CityTable(dated) /\ DOMAIN dated = DOMAIN cities
        /\ \A c \in DOMAIN cities : dated[c].name = cities[c].name
    BY <1>1, BackfilledType
  <1>3. /\ SuburbTable(moved) /\ DOMAIN moved = DOMAIN suburbs
        /\ \A s \in DOMAIN suburbs : moved[s].name = suburbs[s].name
    BY <1>1, <1>2, MovedSuburbsType DEF SuburbsIn
  <1>4. \A c \in KeptCities(dated) : c \in DOMAIN cities' /\ cities'[c] = dated[c]
    BY <1>1, UpgradedCitiesType
  <1>5. \A s \in KeptSuburbs(moved) : s \in DOMAIN suburbs' /\ suburbs'[s] = moved[s]
    BY <1>1, UpgradedSuburbsType
  <1>6. ASSUME NEW b \in DOMAIN branches
        PROVE  /\ branches'[b].customer = branches[b].customer
               /\ branches'[b].city = CanonicalCity(dated, branches[b].city)
               /\ branches'[b].suburb = IF branches[b].suburb \in DOMAIN suburbs
                                        THEN CanonicalSuburb(moved, branches[b].suburb)
                                        ELSE branches[b].suburb
               /\ branches[b].city \in DOMAIN cities
    <2>1. branches[b].city \in DOMAIN cities
      BY <1>1 DEF Sound, BranchesIn
    <2>. QED
      BY <1>1, <2>1, MovedBranch
  <1>7. DOMAIN branches' = DOMAIN branches
    BY <1>1 DEF UpgradedBranches, MovedBranches
  <1>. HIDE DEF dated, moved
  <1>8. ASSUME NEW b \in DOMAIN branches
        PROVE  SamePlace(b)
    <2>1. /\ branches'[b].city \in DOMAIN cities'
          /\ Norm[cities'[branches'[b].city].name] = Norm[cities[branches[b].city].name]
      BY <1>2, <1>4, <1>6, CanonicalCityIsKept
    <2>2. ASSUME branches[b].suburb \in DOMAIN suburbs
          PROVE  /\ branches'[b].suburb \in DOMAIN suburbs'
                 /\ Norm[suburbs'[branches'[b].suburb].name]
                      = Norm[suburbs[branches[b].suburb].name]
      BY <1>3, <1>5, <1>6, <2>2, CanonicalSuburbIsKept
    <2>. QED
      BY <1>6, <2>1, <2>2 DEF SamePlace
  <1>. QED
    BY <1>7, <1>8

THEOREM UpgradesKeepPlaces == Spec => UpgradeKeepsPlaces
  <1>1. Inv /\ [Next]_vars =>
          [Upgrade => /\ DOMAIN branches' = DOMAIN branches
                      /\ \A b \in DOMAIN branches : SamePlace(b)]_vars
    BY UpgradePlaces
  <1>. QED
    BY <1>1, Invariance, PTL DEF Spec, UpgradeKeepsPlaces

(* The migration leaves no place twice and misses no locality, so that its new    *)
(* constraints can be created (8610f8c7c2c6:170-258).                             *)
THEOREM UpgradesLeaveNoTwins == Spec => UpgradeLeavesNoTwins
  <1>1. ASSUME Inv, Upgrade
        PROVE  NoTwinCities(cities') /\ NoTwinSuburbs(suburbs') /\ HasLocalities(cities')
    <2>1. /\ CityTable(cities) /\ SuburbTable(suburbs) /\ SuburbsIn(suburbs, cities)
          /\ FreshIds(MergedCities(cities)) # {}
          /\ cities' = UpgradedCities(cities)
          /\ suburbs' = UpgradedSuburbs(cities, suburbs)
      BY <1>1 DEF Upgrade, Inv, Sound
    <2>. QED
      BY <2>1, UpgradedCitiesType, UpgradedSuburbsType
  <1>2. Inv /\ [Next]_vars =>
          [Upgrade => NoTwinCities(cities') /\ NoTwinSuburbs(suburbs') /\ HasLocalities(cities')]_vars
    BY <1>1
  <1>. QED
    BY <1>2, Invariance, PTL DEF Spec, UpgradeLeavesNoTwins

(* The Explorer shows every branch, whatever is added while it reads              *)
(* (inventory.py:163-221).                                                        *)
THEOREM ExplorerIsComplete == Spec => []ExplorerShowsEveryBranch
  <1>1. Inv => ExplorerShowsEveryBranch
    <2>. SUFFICES ASSUME Inv, explorer # None, explorer.next = "answer",
                         \A b \in DOMAIN branches : branches[b].suburb # NoSuburb
                  PROVE  /\ ~Fails(explorer.loaded)
                         /\ \A b \in explorer.before :
                              \E leaf \in Grouped(explorer.loaded) :
                                /\ leaf.branch = b
                                /\ leaf.customer = branches[b].customer
                                /\ leaf.suburb # None => suburbs[leaf.suburb].city = leaf.city
                                /\ \A other \in Grouped(explorer.loaded) :
                                     other.branch = b => other = leaf
      BY DEF ExplorerShowsEveryBranch
    <2>1. /\ explorer.before \subseteq explorer.loaded
          /\ explorer.loaded \subseteq DOMAIN branches
      BY DEF Inv, RunIsComplete
    <2>2. ASSUME NEW b \in explorer.loaded
          PROVE  /\ branches[b].city \in DOMAIN cities
                 /\ branches[b].suburb \in DOMAIN suburbs \cup {None}
                 /\ branches[b].suburb # None =>
                      suburbs[branches[b].suburb].city = branches[b].city
      BY <2>1 DEF Inv, Sound, BranchesIn
    <2>3. ~Fails(explorer.loaded)
      BY <2>2 DEF Fails, Unresolved
    <2>4. ASSUME NEW b \in explorer.before
          PROVE  \E leaf \in Grouped(explorer.loaded) :
                   /\ leaf.branch = b
                   /\ leaf.customer = branches[b].customer
                   /\ leaf.suburb # None => suburbs[leaf.suburb].city = leaf.city
                   /\ \A other \in Grouped(explorer.loaded) : other.branch = b => other = leaf
      <3>1. Leaf(b) \in Grouped(explorer.loaded)
        BY <2>1 DEF Grouped
      <3>2. /\ Leaf(b).branch = b /\ Leaf(b).customer = branches[b].customer
            /\ Leaf(b).suburb = branches[b].suburb /\ Leaf(b).city = branches[b].city
        BY DEF Leaf
      <3>3. ASSUME NEW other \in Grouped(explorer.loaded), other.branch = b
            PROVE  other = Leaf(b)
        <4>1. PICK x \in explorer.loaded : other = Leaf(x)
          BY DEF Grouped
        <4>2. x = b
          BY <3>3, <4>1 DEF Leaf
        <4>. QED
          BY <4>1, <4>2
      <3>4. Leaf(b).suburb # None => suburbs[Leaf(b).suburb].city = Leaf(b).city
        BY <2>1, <2>2, <3>2
      <3>. QED
        BY <3>1, <3>2, <3>3, <3>4
    <2>. QED
      BY <2>3, <2>4
  <1>. QED
    BY <1>1, Invariance, PTL

--------------------------------------------------------------------------------
(* The same place is asked for twice: two requests whose checks both passed want  *)
(* cities of one region, or suburbs of one city, with names that Python folds     *)
(* alike, as the API compares names: in whatever case, blanks included.           *)
Rivals(r, q) ==
  /\ request[r] # None /\ request[q] # None
  /\ request[r].adds = request[q].adds
  /\ PyLower[request[r].row.name] = PyLower[request[q].row.name]
  /\ request[r].adds = "city" => request[r].row.region = request[q].row.region
  /\ request[r].adds = "suburb" => request[r].row.city = request[q].row.city

NoRivals == \A r, q \in Requests : Rivals(r, q) => r = q

(* Python and SQLite fold names alike.                                            *)
FoldingsAgree == \A n \in Names : DbLower[n] = PyLower[n]

(* No place of the shared reference is there twice, by the comparison of the API  *)
(* (inventory.py:46-65, 77-93).  The migration's strips blanks as well, so what   *)
(* it leaves is unique all the more.                                              *)
UniqueCities(table) ==
  \A c, d \in DOMAIN table :
    table[c].region = table[d].region /\ PyLower[table[c].name] = PyLower[table[d].name] => c = d

UniqueSuburbs(table) ==
  \A s, t \in DOMAIN table :
    table[s].city = table[t].city /\ PyLower[table[s].name] = PyLower[table[t].name] => s = t

PlacesAreUnique == schema = "shared" => UniqueCities(cities) /\ UniqueSuburbs(suburbs)

(* What the check of a request has found still holds when it inserts.             *)
CityIsNew(row) ==
  \A c \in DOMAIN cities : cities[c].region = row.region => PyLower[cities[c].name] # PyLower[row.name]
SuburbIsNew(row) ==
  \A s \in DOMAIN suburbs : suburbs[s].city = row.city => PyLower[suburbs[s].name] # PyLower[row.name]

ChecksHold ==
  \A r \in Requests :
    request[r] # None =>
      /\ request[r].adds = "city" => CityIsNew(request[r].row)
      /\ request[r].adds = "suburb" => SuburbIsNew(request[r].row)

UniqueInv == PlacesAreUnique /\ ChecksHold

(* The request that inserts is answered; every other one is as it was.            *)
LEMMA OthersAsTheyWere ==
  ASSUME NEW r \in Requests, NEW value, Inv, request' = [request EXCEPT ![r] = value]
  PROVE  /\ request'[r] = value
         /\ \A q \in Requests : q # r => request'[q] = request[q]
  <1>1. request \in [Requests -> CityRequests \cup SuburbRequests \cup {None}]
    BY DEF Inv
  <1>. QED
    BY <1>1

LEMMA InsertedCity ==
  ASSUME Inv, UniqueInv, NoRivals, NEW r \in Requests, InsertCity(r)
  PROVE  UniqueInv'
  <1>1. /\ request[r] # None /\ request[r].adds = "city"
        /\ DOMAIN cities # CityIds /\ DOMAIN cities \subseteq CityIds
        /\ UNCHANGED <<schema, suburbs>>
    BY DEF InsertCity, Inv, Sound, CityTable
  <1>2. request'[r] = None /\ \A q \in Requests : q # r => request'[q] = request[q]
    BY OthersAsTheyWere DEF InsertCity, Answered
  <1>3. CityIsNew(request[r].row)
    BY <1>1 DEF UniqueInv, ChecksHold
  <1>4. cities' = cities \/ cities' = Added(cities, CityIds, request[r].row)
    BY DEF InsertCity
  <1>5. CASE cities' = cities
    BY <1>1, <1>2, <1>5
       DEF UniqueInv, PlacesAreUnique, UniqueCities, UniqueSuburbs, ChecksHold, CityIsNew, SuburbIsNew
  <1>6. CASE cities' = Added(cities, CityIds, request[r].row)
    <2>1. PICK new \in CityIds :
            /\ DOMAIN cities' = DOMAIN cities \cup {new}
            /\ \A i \in DOMAIN cities : cities'[i] = cities[i]
            /\ cities'[new] = request[r].row
      <3>1. FreshId(cities, CityIds) \in CityIds /\ FreshId(cities, CityIds) \notin DOMAIN cities
        BY <1>1, FreshIdIsNew, Zenon
      <3>. DEFINE added == Added(cities, CityIds, request[r].row)
      <3>2. /\ DOMAIN added = DOMAIN cities \cup {FreshId(cities, CityIds)}
            /\ \A i \in DOMAIN cities : added[i] = cities[i]
            /\ added[FreshId(cities, CityIds)] = request[r].row
        BY <3>1 DEF Added
      <3>. HIDE DEF added
      <3>3. cities' = added
        BY <1>6 DEF added
      <3>. QED
        BY <3>1, <3>2, <3>3
    <2>2. PlacesAreUnique'
      BY <1>1, <1>3, <2>1
         DEF UniqueInv, PlacesAreUnique, UniqueCities, UniqueSuburbs, CityIsNew
    <2>3. ASSUME NEW q \in Requests, request'[q] # None
          PROVE  (/\ request[q].adds = "city" => CityIsNew(request[q].row)
                  /\ request[q].adds = "suburb" => SuburbIsNew(request[q].row))'
      <3>1. q # r /\ request'[q] = request[q]
        BY <1>2, <2>3
      <3>2. ~Rivals(r, q)
        BY <3>1 DEF NoRivals
      <3>3. request[q].adds = "city" =>
              ~(/\ request[r].row.region = request[q].row.region
                /\ PyLower[request[r].row.name] = PyLower[request[q].row.name])
        BY <1>1, <2>3, <3>1, <3>2 DEF Rivals
      <3>4. /\ request[q].adds = "city" => CityIsNew(request[q].row)
            /\ request[q].adds = "suburb" => SuburbIsNew(request[q].row)
        BY <2>3, <3>1 DEF UniqueInv, ChecksHold
      <3>. QED
        BY <1>1, <2>1, <3>1, <3>3, <3>4 DEF CityIsNew, SuburbIsNew
    <2>. QED
      BY <2>2, <2>3 DEF UniqueInv, ChecksHold
  <1>. QED
    BY <1>4, <1>5, <1>6

LEMMA InsertedSuburb ==
  ASSUME Inv, UniqueInv, NoRivals, NEW r \in Requests, InsertSuburb(r)
  PROVE  UniqueInv'
  <1>1. /\ request[r] # None /\ request[r].adds = "suburb"
        /\ DOMAIN suburbs # SuburbIds /\ DOMAIN suburbs \subseteq SuburbIds
        /\ UNCHANGED <<schema, cities>>
    BY DEF InsertSuburb, Inv, Sound, SuburbTable
  <1>2. request'[r] = None /\ \A q \in Requests : q # r => request'[q] = request[q]
    BY OthersAsTheyWere DEF InsertSuburb, Answered
  <1>3. SuburbIsNew(request[r].row)
    BY <1>1 DEF UniqueInv, ChecksHold
  <1>4. suburbs' = suburbs \/ suburbs' = Added(suburbs, SuburbIds, request[r].row)
    BY DEF InsertSuburb
  <1>5. CASE suburbs' = suburbs
    BY <1>1, <1>2, <1>5
       DEF UniqueInv, PlacesAreUnique, UniqueCities, UniqueSuburbs, ChecksHold, CityIsNew, SuburbIsNew
  <1>6. CASE suburbs' = Added(suburbs, SuburbIds, request[r].row)
    <2>1. PICK new \in SuburbIds :
            /\ DOMAIN suburbs' = DOMAIN suburbs \cup {new}
            /\ \A i \in DOMAIN suburbs : suburbs'[i] = suburbs[i]
            /\ suburbs'[new] = request[r].row
      <3>1. FreshId(suburbs, SuburbIds) \in SuburbIds /\ FreshId(suburbs, SuburbIds) \notin DOMAIN suburbs
        BY <1>1, FreshIdIsNew, Zenon
      <3>. DEFINE added == Added(suburbs, SuburbIds, request[r].row)
      <3>2. /\ DOMAIN added = DOMAIN suburbs \cup {FreshId(suburbs, SuburbIds)}
            /\ \A i \in DOMAIN suburbs : added[i] = suburbs[i]
            /\ added[FreshId(suburbs, SuburbIds)] = request[r].row
        BY <3>1 DEF Added
      <3>. HIDE DEF added
      <3>3. suburbs' = added
        BY <1>6 DEF added
      <3>. QED
        BY <3>1, <3>2, <3>3
    <2>2. PlacesAreUnique'
      BY <1>1, <1>3, <2>1
         DEF UniqueInv, PlacesAreUnique, UniqueCities, UniqueSuburbs, SuburbIsNew
    <2>3. ASSUME NEW q \in Requests, request'[q] # None
          PROVE  (/\ request[q].adds = "city" => CityIsNew(request[q].row)
                  /\ request[q].adds = "suburb" => SuburbIsNew(request[q].row))'
      <3>1. q # r /\ request'[q] = request[q]
        BY <1>2, <2>3
      <3>2. ~Rivals(r, q)
        BY <3>1 DEF NoRivals
      <3>3. request[q].adds = "suburb" =>
              ~(/\ request[r].row.city = request[q].row.city
                /\ PyLower[request[r].row.name] = PyLower[request[q].row.name])
        BY <1>1, <2>3, <3>1, <3>2 DEF Rivals
      <3>4. /\ request[q].adds = "city" => CityIsNew(request[q].row)
            /\ request[q].adds = "suburb" => SuburbIsNew(request[q].row)
        BY <2>3, <3>1 DEF UniqueInv, ChecksHold
      <3>. QED
        BY <1>1, <2>1, <3>1, <3>3, <3>4 DEF CityIsNew, SuburbIsNew
    <2>. QED
      BY <2>2, <2>3 DEF UniqueInv, ChecksHold
  <1>. QED
    BY <1>4, <1>5, <1>6

(* A request is made after its check passed, for a name that is then new.         *)
LEMMA AskedKeepsUnique ==
  ASSUME Inv, UniqueInv, FoldingsAgree, NEW r \in Requests, UNCHANGED <<schema, cities, suburbs>>,
         NEW asked, request' = [request EXCEPT ![r] = asked],
         asked.adds = "city" => CityIsNew(asked.row),
         asked.adds = "suburb" => SuburbIsNew(asked.row)
  PROVE  UniqueInv'
  <1>1. request'[r] = asked /\ \A q \in Requests : q # r => request'[q] = request[q]
    BY OthersAsTheyWere
  <1>2. PlacesAreUnique'
    BY DEF UniqueInv, PlacesAreUnique, UniqueCities, UniqueSuburbs
  <1>3. ASSUME NEW q \in Requests, request'[q] # None
        PROVE  (/\ request[q].adds = "city" => CityIsNew(request[q].row)
                /\ request[q].adds = "suburb" => SuburbIsNew(request[q].row))'
    <2>1. CASE q = r
      BY <1>1, <2>1 DEF CityIsNew, SuburbIsNew
    <2>2. CASE q # r
      <3>1. request'[q] = request[q]
        BY <1>1, <2>2
      <3>2. /\ request[q].adds = "city" => CityIsNew(request[q].row)
            /\ request[q].adds = "suburb" => SuburbIsNew(request[q].row)
        BY <1>3, <3>1 DEF UniqueInv, ChecksHold
      <3>. QED
        BY <3>1, <3>2 DEF CityIsNew, SuburbIsNew
    <2>. QED
      BY <2>1, <2>2
  <1>. QED
    BY <1>2, <1>3 DEF UniqueInv, ChecksHold

LEMMA UniqueInvInductive ==
  ASSUME FoldingsAgree
  PROVE  Inv /\ UniqueInv /\ NoRivals /\ [Next]_vars => UniqueInv'
  <1>. SUFFICES ASSUME Inv, UniqueInv, NoRivals, [Next]_vars PROVE UniqueInv'
    OBVIOUS
  <1>1. CASE Upgrade
    <2>1. UniqueCities(cities') /\ UniqueSuburbs(suburbs')
      <3>1. /\ CityTable(cities) /\ SuburbTable(suburbs) /\ SuburbsIn(suburbs, cities)
            /\ FreshIds(MergedCities(cities)) # {}
            /\ cities' = UpgradedCities(cities)
            /\ suburbs' = UpgradedSuburbs(cities, suburbs)
        BY <1>1 DEF Upgrade, Inv, Sound
      <3>2. /\ CityTable(cities') /\ NoTwinCities(cities')
            /\ SuburbTable(suburbs') /\ NoTwinSuburbs(suburbs')
        BY <3>1, UpgradedCitiesType, UpgradedSuburbsType
      <3>3. /\ \A c \in DOMAIN cities' : cities'[c].name \in Names
            /\ \A s \in DOMAIN suburbs' : suburbs'[s].name \in Names
        BY <3>2 DEF CityTable, City, SuburbTable, Suburb
      <3>. QED
        BY <3>2, <3>3, NamesAssumption
           DEF NoTwinCities, NoTwinSuburbs, UniqueCities, UniqueSuburbs
    <2>2. \A r \in Requests : request'[r] = None
      BY <1>1 DEF Upgrade, Inv, Stopped
    <2>. QED
      BY <2>1, <2>2 DEF UniqueInv, PlacesAreUnique, UniqueCities, UniqueSuburbs, ChecksHold
  <1>2. CASE Downgrade
    BY <1>2 DEF Downgrade, UniqueInv, PlacesAreUnique, ChecksHold
  <1>3. ASSUME NEW r \in Requests, NEW name \in Names, NEW region \in Regions,
               AskCity(r, name, region)
        PROVE  UniqueInv'
    <2>. DEFINE asked == [adds |-> "city", row |-> [name |-> name, region |-> region]]
    <2>1. asked.adds = "city" /\ asked.row.name = name /\ asked.row.region = region
      OBVIOUS
    <2>2. \A c \in DOMAIN cities : cities[c].name \in Names
      BY DEF Inv, Sound, CityTable, City
    <2>3. ASSUME NEW c \in DOMAIN cities, cities[c].region = region,
                 PyLower[cities[c].name] = PyLower[name]
          PROVE  FALSE
      BY <1>3, <2>2, <2>3 DEF AskCity, FoldingsAgree
    <2>4. CityIsNew(asked.row)
      BY <2>1, <2>3 DEF CityIsNew
    <2>5. request' = [request EXCEPT ![r] = asked] /\ UNCHANGED <<schema, cities, suburbs>>
      BY <1>3 DEF AskCity, tables
    <2>. HIDE DEF asked
    <2>. QED
      BY <2>1, <2>4, <2>5, AskedKeepsUnique
  <1>4. ASSUME NEW r \in Requests, InsertCity(r) PROVE UniqueInv'
    BY <1>4, InsertedCity
  <1>5. ASSUME NEW r \in Requests, NEW city \in CityIds, NEW name \in Names,
               AskSuburb(r, city, name)
        PROVE  UniqueInv'
    <2>. DEFINE asked == [adds |-> "suburb", row |-> [city |-> city, name |-> name]]
    <2>1. asked.adds = "suburb" /\ asked.row.name = name /\ asked.row.city = city
      OBVIOUS
    <2>2. \A s \in DOMAIN suburbs : suburbs[s].name \in Names
      BY DEF Inv, Sound, SuburbTable, Suburb
    <2>3. ASSUME NEW s \in DOMAIN suburbs, suburbs[s].city = city,
                 PyLower[suburbs[s].name] = PyLower[name]
          PROVE  FALSE
      BY <1>5, <2>2, <2>3 DEF AskSuburb, FoldingsAgree
    <2>4. SuburbIsNew(asked.row)
      BY <2>1, <2>3 DEF SuburbIsNew
    <2>5. request' = [request EXCEPT ![r] = asked] /\ UNCHANGED <<schema, cities, suburbs>>
      BY <1>5 DEF AskSuburb, tables
    <2>. HIDE DEF asked
    <2>. QED
      BY <2>1, <2>4, <2>5, AskedKeepsUnique
  <1>6. ASSUME NEW r \in Requests, InsertSuburb(r) PROVE UniqueInv'
    BY <1>6, InsertedSuburb
  <1>7. CASE UNCHANGED <<schema, cities, suburbs, request>>
    BY <1>7 DEF UniqueInv, PlacesAreUnique, UniqueCities, UniqueSuburbs, ChecksHold,
                CityIsNew, SuburbIsNew
  <1>. QED
    BY <1>1, <1>2, <1>3, <1>4, <1>5, <1>6, <1>7
       DEF Next, CreateCustomer, CreateBranch, LoadCustomers, LoadBranches, AnswerTree, tables, vars

(* If Python and SQLite fold names alike, only two requests for one place that    *)
(* overlap can make a place twice, as the API compares names: although the        *)
(* constraints of the tables compare exactly and a request inserts after its      *)
(* check, in another transaction, the check of a request without a rival is still *)
(* true when it inserts, through any number of migrations (inventory.py:46-65,    *)
(* 77-93).  Names that differ in the blanks around them are not alike here.       *)
THEOREM OnlyRivalsMakeTwins ==
  ASSUME FoldingsAgree
  PROVE  Spec /\ []NoRivals => []PlacesAreUnique
  <1>1. Init => UniqueInv
    BY DEF Init, UniqueInv, PlacesAreUnique, ChecksHold
  <1>2. Inv /\ UniqueInv /\ NoRivals /\ [Next]_vars => UniqueInv'
    BY UniqueInvInductive
  <1>3. UniqueInv => PlacesAreUnique
    BY DEF UniqueInv
  <1>. QED
    BY <1>1, <1>2, <1>3, Invariance, PTL DEF Spec
================================================================================
