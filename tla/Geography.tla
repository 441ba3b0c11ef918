------------------------------- MODULE Geography -------------------------------
(* The inventory of customers, cities, suburbs and branches: its migration, the   *)
(* requests that add rows, and the Explorer that reads them                       *)
(* (app/api/inventory.py, alembic/versions/8610f8c7c2c6).                         *)
(*                                                                                *)
(* Requests run on threads, each with a session of its own; the uniqueness check  *)
(* and the insert of a request are separate transactions of SQLite, and so are    *)
(* the queries of the Explorer.  Nothing here is ever deleted or updated by the   *)
(* API, so a check that a row exists stays true until the insert.                 *)
EXTENDS GeoMigration

CONSTANTS
  Customers,        \* the customers there may be; bounds CreateCustomer
  PyLower,          \* PyLower[n]: str.lower of a name
  DbLower,          \* DbLower[n]: lower() of SQLite, which folds ASCII letters only
  Requests          \* requests for a city or a suburb at once; bounds Ask*

ASSUME NamesAssumption ==
  \A n, m \in Names : PyLower[n] = PyLower[m] => Norm[n] = Norm[m]

(* SQLite gives no row the id 0, and does not check foreign keys unless told to.  *)
NoSuburb == 0
Branch   == [customer : Customers, city : CityIds, suburb : SuburbIds \cup {None, NoSuburb}]

CityRequests   == [adds : {"city"}, row : [name : Names, region : Regions]]
SuburbRequests == [adds : {"suburb"}, row : Suburb]

(* A run of the Explorer: the customers and the branches it has loaded so far,    *)
(* and the branches there were when it began (history).                           *)
Runs == [next : {"branches", "answer"}, customers : SUBSET Customers,
         loaded : SUBSET BranchIds, before : SUBSET BranchIds]

ASSUME NoneIsNothing ==
  None \notin CityRequests \cup SuburbRequests \cup Runs

VARIABLES
  schema,           \* "perCustomer" before the migration, "shared" after it
  customers,        \* the ids of the customers
  cities, suburbs, branches,       \* the tables, from ids to rows
  request,          \* request[r]: what r inserts, its check passed; or None
  explorer          \* the run of the Explorer, or None

tables == <<cities, suburbs, branches>>
vars   == <<schema, customers, tables, request, explorer>>

--------------------------------------------------------------------------------
(* A database of the schema before: the cities of one customer have different     *)
(* names, and so have the suburbs of one city.  A branch is in a suburb of its    *)
(* own city.                                                                      *)
Init ==
  /\ schema = "perCustomer"
  /\ customers \in SUBSET Customers
  /\ cities \in UNION {[ids -> [name : Names, region : {None}]] : ids \in SUBSET CityIds}
  /\ \A n \in Names :
       Cardinality({c \in DOMAIN cities : cities[c].name = n}) <= Cardinality(customers)
  /\ suburbs \in UNION {[ids -> [city : DOMAIN cities, name : Names]] : ids \in SUBSET SuburbIds}
  /\ \A s, t \in DOMAIN suburbs : suburbs[s] = suburbs[t] => s = t
  /\ branches \in UNION {[ids -> [customer : customers, city : DOMAIN cities,
                                  suburb : DOMAIN suburbs \cup {None}]] : ids \in SUBSET BranchIds}
  /\ \A b \in DOMAIN branches :
       branches[b].suburb # None => suburbs[branches[b].suburb].city = branches[b].city
  /\ request = [r \in Requests |-> None]
  /\ explorer = None

(* upgrade, before the server is started.                                         *)
Upgrade ==
  /\ schema = "perCustomer"
  /\ FreshIds(MergedCities(cities)) # {}
  /\ schema' = "shared"
  /\ cities' = UpgradedCities(cities)
  /\ suburbs' = UpgradedSuburbs(cities, suburbs)
  /\ branches' = UpgradedBranches(cities, suburbs, branches)
  /\ UNCHANGED <<customers, request, explorer>>

(* downgrade, when the server is stopped.  Whether SQLite's batch mode takes the   *)
(* unnamed foreign key it adds (8610f8c7c2c6:267) is left out: here it succeeds.  *)
Downgrade ==
  /\ schema = "shared"
  /\ explorer = None
  /\ \A r \in Requests : request[r] = None
  /\ schema' = "perCustomer"
  /\ cities' = DowngradedCities(cities)
  /\ UNCHANGED <<customers, suburbs, branches, request, explorer>>

--------------------------------------------------------------------------------
(* A row is inserted under an id that is not in use.                              *)
FreshId(table, ids) == CHOOSE i \in ids : i \notin DOMAIN table
Added(table, ids, row) ==
  [i \in DOMAIN table \cup {FreshId(table, ids)} |->
     IF i \in DOMAIN table THEN table[i] ELSE row]

(* create_customer, with a name no customer has: the constraint refuses another.  *)
CreateCustomer(c) ==
  /\ schema = "shared"
  /\ c \notin customers
  /\ customers' = customers \cup {c}
  /\ UNCHANGED <<schema, tables, request, explorer>>

Answered(r) == request' = [request EXCEPT ![r] = None]

(* create_city: no city of the region has the name, the stored one folded by      *)
(* SQLite and the new one by Python.                                              *)
AskCity(r, name, region) ==
  /\ schema = "shared"
  /\ request[r] = None
  /\ DOMAIN cities # CityIds
  /\ \A c \in DOMAIN cities :
       cities[c].region = region => DbLower[cities[c].name] # PyLower[name]
  /\ request' = [request EXCEPT ![r] = [adds |-> "city", row |-> [name |-> name, region |-> region]]]
  /\ UNCHANGED <<schema, customers, tables, explorer>>

(* The insert; the unique constraint refuses what is spelled the same.            *)
InsertCity(r) ==
  /\ request[r] # None
  /\ request[r].adds = "city"
  /\ DOMAIN cities # CityIds
  /\ cities' = IF \E c \in DOMAIN cities : cities[c] = request[r].row THEN cities
               ELSE Added(cities, CityIds, request[r].row)
  /\ Answered(r)
  /\ UNCHANGED <<schema, customers, suburbs, branches, explorer>>

(* create_suburb, in the same two steps.                                          *)
AskSuburb(r, city, name) ==
  /\ schema = "shared"
  /\ request[r] = None
  /\ city \in DOMAIN cities
  /\ DOMAIN suburbs # SuburbIds
  /\ \A s \in DOMAIN suburbs :
       suburbs[s].city = city => DbLower[suburbs[s].name] # PyLower[name]
  /\ request' = [request EXCEPT ![r] = [adds |-> "suburb", row |-> [city |-> city, name |-> name]]]
  /\ UNCHANGED <<schema, customers, tables, explorer>>

InsertSuburb(r) ==
  /\ request[r] # None
  /\ request[r].adds = "suburb"
  /\ DOMAIN suburbs # SuburbIds
  /\ suburbs' = IF \E s \in DOMAIN suburbs : suburbs[s] = request[r].row THEN suburbs
                ELSE Added(suburbs, SuburbIds, request[r].row)
  /\ Answered(r)
  /\ UNCHANGED <<schema, customers, cities, branches, explorer>>

(* create_branch: its customer and its city exist, and its suburb is one of the   *)
(* city; but a suburb_id of 0 is taken for none by the check and stored as it is. *)
(* The mutant does not compare the cities.                                        *)
SuburbAccepted_Anywhere(city, s) == s \in {None, NoSuburb} \cup DOMAIN suburbs
SuburbAccepted(city, s) ==
  \/ s \in {None, NoSuburb}
  \/ s \in DOMAIN suburbs /\ suburbs[s].city = city

CreateBranch(customer, city, s) ==
  /\ schema = "shared"
  /\ customer \in customers
  /\ city \in DOMAIN cities
  /\ SuburbAccepted(city, s)
  /\ DOMAIN branches # BranchIds
  /\ branches' = Added(branches, BranchIds, [customer |-> customer, city |-> city, suburb |-> s])
  /\ UNCHANGED <<schema, customers, cities, suburbs, request, explorer>>

--------------------------------------------------------------------------------
(* explorer_tree: the customers, then their branches, then the cities and suburbs *)
(* of those.                                                                      *)
LoadCustomers ==
  /\ schema = "shared"
  /\ explorer = None
  /\ explorer' = [next |-> "branches", customers |-> customers, loaded |-> {},
                  before |-> DOMAIN branches]
  /\ UNCHANGED <<schema, customers, tables, request>>

LoadBranches ==
  /\ explorer # None
  /\ explorer.next = "branches"
  /\ explorer' = [explorer EXCEPT !.next = "answer",
                    !.loaded = {b \in DOMAIN branches : branches[b].customer \in explorer.customers}]
  /\ UNCHANGED <<schema, customers, tables, request>>

(* A suburb that is not there has no id to group by, and the request fails.  The  *)
(* mutant has no place for a branch without a suburb.                             *)
Unresolved(b) ==
  \/ branches[b].city \notin DOMAIN cities
  \/ branches[b].suburb # None /\ branches[b].suburb \notin DOMAIN suburbs

(* A leaf of the tree is a branch with the nodes it hangs under.                  *)
Leaf(b) == [customer |-> branches[b].customer, city |-> branches[b].city,
            suburb |-> branches[b].suburb, branch |-> b]

Grouped_WithSuburb(loaded) == {Leaf(b) : b \in {x \in loaded : branches[x].suburb # None}}
Grouped(loaded) == {Leaf(b) : b \in loaded}

Fails(loaded) == \E b \in loaded : Unresolved(b)

AnswerTree ==
  /\ explorer # None
  /\ explorer.next = "answer"
  /\ explorer' = None
  /\ UNCHANGED <<schema, customers, tables, request>>

Next ==
  \/ Upgrade
  \/ Downgrade
  \/ \E c \in Customers : CreateCustomer(c)
  \/ \E r \in Requests :
       \/ \E name \in Names, region \in Regions : AskCity(r, name, region)
       \/ InsertCity(r)
       \/ \E city \in CityIds, name \in Names : AskSuburb(r, city, name)
       \/ InsertSuburb(r)
  \/ \E c \in Customers, city \in CityIds, s \in SuburbIds \cup {None, NoSuburb} :
       CreateBranch(c, city, s)
  \/ LoadCustomers
  \/ LoadBranches
  \/ AnswerTree

Spec == Init /\ [][Next]_vars

--------------------------------------------------------------------------------
TypeOK ==
  /\ schema \in {"perCustomer", "shared"}
  /\ customers \in SUBSET Customers
  /\ DOMAIN cities \subseteq CityIds
  /\ cities \in [DOMAIN cities -> City]
  /\ DOMAIN suburbs \subseteq SuburbIds
  /\ suburbs \in [DOMAIN suburbs -> Suburb]
  /\ DOMAIN branches \subseteq BranchIds
  /\ branches \in [DOMAIN branches -> Branch]
  /\ request \in [Requests -> CityRequests \cup SuburbRequests \cup {None}]
  /\ explorer \in Runs \cup {None}

(* Although no foreign key is checked, every branch has its customer and its city *)
(* and every suburb its city, through migrations and whatever requests run at     *)
(* once (inventory.py:76-146, 8610f8c7c2c6:193-218).                              *)
ReferencesResolve ==
  /\ \A s \in DOMAIN suburbs : suburbs[s].city \in DOMAIN cities
  /\ \A b \in DOMAIN branches :
       /\ branches[b].customer \in customers
       /\ branches[b].city \in DOMAIN cities
       /\ branches[b].suburb \in DOMAIN suburbs \cup {None, NoSuburb}

(* A branch and its suburb are in the same city: the API refuses any other suburb *)
(* and the migration moves both to the same row (inventory.py:135-140).           *)
SuburbIsInTheCity ==
  \A b \in DOMAIN branches :
    branches[b].suburb \in DOMAIN suburbs => suburbs[branches[b].suburb].city = branches[b].city

(* The migration moves no branch to another place: it stays with its customer, in *)
(* the city and the suburb of the same names (8610f8c7c2c6:170-218).              *)
SamePlace(b) ==
  /\ branches'[b].customer = branches[b].customer
  /\ branches'[b].city \in DOMAIN cities'
  /\ Norm[cities'[branches'[b].city].name] = Norm[cities[branches[b].city].name]
  /\ IF branches[b].suburb \in DOMAIN suburbs
     THEN /\ branches'[b].suburb \in DOMAIN suburbs'
          /\ Norm[suburbs'[branches'[b].suburb].name] = Norm[suburbs[branches[b].suburb].name]
     ELSE branches'[b].suburb = branches[b].suburb

UpgradeKeepsPlaces ==
  [][Upgrade => /\ DOMAIN branches' = DOMAIN branches
                /\ \A b \in DOMAIN branches : SamePlace(b)]_vars

(* The migration leaves one city of each key, one suburb of each name in a city,  *)
(* and every locality of the dataset: the new constraints can be created, and no  *)
(* place is there twice (8610f8c7c2c6:170-258).                                   *)
NoTwinCities(table) ==
  \A c, d \in DOMAIN table :
    table[c].region = table[d].region /\ Norm[table[c].name] = Norm[table[d].name] => c = d

NoTwinSuburbs(table) ==
  \A s, t \in DOMAIN table :
    table[s].city = table[t].city /\ Norm[table[s].name] = Norm[table[t].name] => s = t

HasLocalities(table) ==
  \A l \in Localities : \E c \in DOMAIN table :
    table[c].region = l.region /\ Norm[table[c].name] = Norm[l.name]

UpgradeLeavesNoTwins ==
  [][Upgrade => NoTwinCities(cities') /\ NoTwinSuburbs(suburbs') /\ HasLocalities(cities')]_vars

(* Unless a branch was stored with suburb_id 0, the Explorer answers, and has     *)
(* every branch that was there when it was asked, once, under its own customer,   *)
(* and a suburb under its own city only (inventory.py:163-221).                   *)
ExplorerShowsEveryBranch ==
  explorer # None /\ (\A b \in DOMAIN branches : branches[b].suburb # NoSuburb) =>
    (explorer.next = "answer" =>
       /\ ~Fails(explorer.loaded)
       /\ \A b \in explorer.before :
            \E leaf \in Grouped(explorer.loaded) :
              /\ leaf.branch = b
              /\ leaf.customer = branches[b].customer
              /\ leaf.suburb # None => suburbs[leaf.suburb].city = leaf.city
              /\ \A other \in Grouped(explorer.loaded) : other.branch = b => other = leaf)
================================================================================
