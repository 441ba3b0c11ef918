-------------------------------- MODULE Discovery --------------------------------
(* SNMP interface discovery for one link id: the endpoint that walks the device's *)
(* tables column by column, merges them and stores the interfaces, the engineer's *)
(* selection among the stored ones, and the deletion of the link meanwhile        *)
(* (app/monitoring/snmp_client.py, app/api/wan_links.py).                         *)
(*                                                                                *)
(* A walk waits for the device, and the device may be changed between two walks.  *)
(* What follows the last walk runs on the event loop without a pause, so two      *)
(* discoveries never mix there.  Selections and deletions run on other threads:   *)
(* each reads in transactions of its own and commits later, by row id, and SQLite *)
(* gives the id of the last row that was deleted to the next one.                 *)
EXTENDS Integers, Sequences, FiniteSets

CONSTANTS
  None,
  Indices,          \* the values an ifIndex may take
  Ports,            \* what an interface may be: ifDescr, and ifName where there is one
  Addresses,        \* the IPv4 addresses the device may have
  Devices,          \* the states a device may be in
  Requests,         \* discoveries that may be under way at once; bounds Discover
  Sessions          \* selections and deletions that may be; bounds both

(* A device: the port at each ifIndex, the ports with an ifXTable row, and the    *)
(* rows of its ipAddrTable in the order of the walk.  A row whose suffix is no    *)
(* address, or whose value is no integer, has None there; two suffixes may stand  *)
(* for one address, as some firmware appends a number to it.                      *)
AddressRow   == [address : Addresses \cup {None}, index : Indices \cup {None}]
AddressRows  == Seq(AddressRow)
Columns      == [Indices -> Ports \cup {None}]
DeviceStates == [port : Columns, extended : SUBSET Ports, rows : AddressRows]

NoRows == [i \in Indices |-> None]

ASSUME DiscoveryAssumption ==
  /\ Indices \subseteq Nat
  /\ None \notin Indices \cup Ports \cup Addresses
  /\ Devices \subseteq DeviceStates

Interfaces == [description : Ports, name : Ports \cup {None}, ip : Addresses \cup {None}]

(* What a request holds: the walks it has made, the next one in "next".  The rest *)
(* is history: whether the device has stayed as it was and every walk has         *)
(* answered, and whether the link is still the one it was asked for.              *)
Walks == {"descr", "names", "addresses", "store"}
Discoveries ==
  [next : Walks, descr : Columns, names : Columns, rows : AddressRows,
   steady : BOOLEAN, mine : BOOLEAN]

(* What a selection has done so far: the link is loaded, the interface's row      *)
(* found.  A deletion has read the rows of the cascade.  "mine" is history: the   *)
(* rows read are still those of the link that has the id.                         *)
Selections == [kind : {"select"}, index : Indices, found : BOOLEAN, mine : BOOLEAN]
Deletions  == [kind : {"delete"}, doomed : SUBSET Indices, mine : BOOLEAN]

ASSUME NoneIsNoRecord == None \notin Interfaces \cup Discoveries \cup Selections \cup Deletions

VARIABLES
  exists,           \* the wan_links row exists
  interfaces,       \* interfaces[i]: the snmp_interfaces row of ifIndex i, or None
  selected,         \* wan_links.selected_if_index, or None
  session,          \* session[s]: a selection or deletion under way, or None
  request,          \* request[r]: a discovery under way, or None
  device,           \* the device (environment)
  returned,         \* indices discoveries have returned for this link (history)
  foreign           \* indices an earlier link of this id has left to it (history)

link    == <<exists, selected>>
history == <<returned, foreign>>
vars    == <<link, session, interfaces, request, device, history>>

--------------------------------------------------------------------------------
(* parse_ip_index_map: the rows that make sense, the last one of an address       *)
(* deciding its ifIndex.  The mutant keeps every row of an address.               *)
Valid(rows)   == {n \in DOMAIN rows : rows[n].address # None /\ rows[n].index # None}
RowsOf(rows, a) == {n \in Valid(rows) : rows[n].address = a}

Deciding_Every(rows, a) == RowsOf(rows, a)
Deciding(rows, a) ==
  {n \in RowsOf(rows, a) : \A m \in RowsOf(rows, a) : m <= n}

(* _discover_sync: of the addresses of one ifIndex, the one walked first, where   *)
(* an address keeps the place of its first row.  The mutant swaps the map's key   *)
(* and value.                                                                    *)
MappedTo(rows, i) ==
  {a \in Addresses : \E n \in Deciding(rows, a) : rows[n].index = i}

WalkedFirst(rows, a, b) ==
  \E n \in RowsOf(rows, a) : \A m \in RowsOf(rows, b) : n <= m

IpOf_Swapped(rows, i) == IF MappedTo(rows, i) = {} THEN None ELSE i
IpOf(rows, i) ==
  IF MappedTo(rows, i) = {} THEN None
  ELSE CHOOSE a \in MappedTo(rows, i) : \A b \in MappedTo(rows, i) : WalkedFirst(rows, a, b)

(* build_interfaces: one record for each ifIndex of the ifDescr walk.  The mutant *)
(* takes those of the ifXTable.                                                   *)
Listed_Extended(d) == {i \in Indices : d.names[i] # None}
Listed(d) == {i \in Indices : d.descr[i] # None}

Built(d) ==
  [i \in Indices |->
     IF i \in Listed(d)
     THEN [description |-> d.descr[i], name |-> d.names[i], ip |-> IpOf(d.rows, i)]
     ELSE None]

--------------------------------------------------------------------------------
Init ==
  /\ exists = FALSE
  /\ interfaces = NoRows
  /\ selected = None
  /\ session = [s \in Sessions |-> None]
  /\ request = [r \in Requests |-> None]
  /\ device \in Devices
  /\ returned = {}
  /\ foreign = {}

(* The device is reconfigured or reboots: interfaces come, go and are renumbered. *)
DeviceChanges(d) ==
  /\ device' = d
  /\ d # device
  /\ request' = [r \in Requests |->
                   IF request[r] = None THEN None ELSE [request[r] EXCEPT !.steady = FALSE]]
  /\ UNCHANGED <<link, session, interfaces, history>>

--------------------------------------------------------------------------------
(* discover_interfaces, up to its await.                                          *)
Discover(r) ==
  /\ exists
  /\ request[r] = None
  /\ request' = [request EXCEPT ![r] =
                   [next |-> "descr", descr |-> NoRows, names |-> NoRows, rows |-> <<>>,
                    steady |-> TRUE, mine |-> TRUE]]
  /\ UNCHANGED <<link, session, interfaces, device, history>>

At(r, walk) == request[r] # None /\ request[r].next = walk

(* The ifDescr walk, which must find an interface, and with it the columns of the *)
(* ifTable that follow.                                                           *)
WalkDescr(r) ==
  /\ At(r, "descr")
  /\ device.port # NoRows
  /\ request' = [request EXCEPT ![r].next = "names", ![r].descr = device.port]
  /\ UNCHANGED <<link, session, interfaces, device, history>>

(* The ifXTable: a device without one, or a walk that is not answered in time,    *)
(* leaves the columns empty.                                                      *)
Extended == [i \in Indices |-> IF device.port[i] \in device.extended THEN device.port[i] ELSE None]

WalkNames(r) ==
  /\ At(r, "names")
  /\ \/ request' = [request EXCEPT ![r].next = "addresses", ![r].names = Extended]
     \/ request' = [request EXCEPT ![r].next = "addresses", ![r].steady = FALSE]
  /\ UNCHANGED <<link, session, interfaces, device, history>>

(* The ipAddrTable, likewise optional.                                            *)
WalkAddresses(r) ==
  /\ At(r, "addresses")
  /\ \/ request' = [request EXCEPT ![r].next = "store", ![r].rows = device.rows]
     \/ request' = [request EXCEPT ![r].next = "store", ![r].steady = FALSE]
  /\ UNCHANGED <<link, session, interfaces, device, history>>

(* An ifTable walk is not answered, or finds nothing: the request fails.          *)
WalkFails(r) ==
  /\ At(r, "descr") \/ At(r, "names")
  /\ request' = [request EXCEPT ![r] = None]
  /\ UNCHANGED <<link, session, interfaces, device, history>>

(* The interfaces found are inserted or updated, the others stay, under the id    *)
(* the discovery was asked for, whatever has become of the link.  A deletion that *)
(* commits between the query for the stored rows and this commit either removes a *)
(* row that is updated here, which raises, or might as well have come before the  *)
(* query.  The mutant removes the rows of interfaces that were not found.         *)
Stored_Replaced(found) == found
Stored(found) ==
  [i \in Indices |-> IF found[i] = None THEN interfaces[i] ELSE found[i]]

Store(r) ==
  /\ At(r, "store")
  /\ interfaces' = Stored(Built(request[r]))
  /\ request' = [request EXCEPT ![r] = None]
  /\ returned' = IF request[r].mine THEN returned \cup Listed(request[r]) ELSE returned
  /\ foreign' = IF exists /\ ~request[r].mine THEN foreign \cup Listed(request[r]) ELSE foreign
  /\ UNCHANGED <<link, session, device>>

(* The commit raises, for one because a deletion has removed a row it updates.    *)
StoreFails(r) ==
  /\ At(r, "store")
  /\ request' = [request EXCEPT ![r] = None]
  /\ UNCHANGED <<link, session, interfaces, device, history>>

--------------------------------------------------------------------------------
(* select_interface loads the link.  Choosing the interface that is selected      *)
(* changes nothing: the session writes the columns that differ from those read.   *)
LoadLink(s, i) ==
  /\ exists
  /\ selected # i
  /\ session[s] = None
  /\ session' = [session EXCEPT ![s] =
                   [kind |-> "select", index |-> i, found |-> FALSE, mine |-> FALSE]]
  /\ UNCHANGED <<link, interfaces, request, device, history>>

Is(s, kind) == session[s] # None /\ session[s].kind = kind

(* It looks for the interface, one that is stored, whenever it was found; its     *)
(* name and address are copied to the link.  The mutant does not look it up.      *)
Selectable_Any(i) == TRUE
Selectable(i) == interfaces[i] # None

FindInterface(s) ==
  /\ Is(s, "select")
  /\ ~session[s].found
  /\ Selectable(session[s].index)
  /\ session' = [session EXCEPT ![s].found = TRUE, ![s].mine = TRUE]
  /\ UNCHANGED <<link, interfaces, request, device, history>>

(* The update of wan_links goes to the row that has the id at the commit.         *)
CommitSelection(s) ==
  /\ Is(s, "select")
  /\ session[s].found
  /\ exists
  /\ selected' = session[s].index
  /\ foreign' = IF session[s].mine THEN foreign ELSE foreign \cup {session[s].index}
  /\ session' = [session EXCEPT ![s] = None]
  /\ UNCHANGED <<exists, interfaces, request, device, returned>>

(* create_wan_link; a new row gets the id of the last one that was deleted.       *)
CreateLink ==
  /\ ~exists
  /\ exists' = TRUE
  /\ foreign' = {i \in Indices : interfaces[i] # None}
  /\ UNCHANGED <<selected, session, interfaces, request, device, returned>>

(* delete_wan_link reads the rows of the cascade, then removes them and the link. *)
(* Several deletions may overlap.                                                 *)
BeginDelete(s) ==
  /\ exists
  /\ session[s] = None
  /\ session' = [session EXCEPT ![s] =
                   [kind |-> "delete", doomed |-> {i \in Indices : interfaces[i] # None},
                    mine |-> TRUE]]
  /\ UNCHANGED <<link, interfaces, request, device, history>>

(* The rows with the ids that were read: once another deletion has committed they *)
(* are gone, which is no error, or other rows of the link that has got the id.    *)
Hits(deletion) ==
  IF deletion.mine THEN {deletion.doomed}
  ELSE {hit \in SUBSET Indices : Cardinality(hit) <= Cardinality(deletion.doomed)}

CommitDelete(s) ==
  /\ Is(s, "delete")
  /\ exists' = FALSE
  /\ selected' = None
  /\ \E hit \in Hits(session[s]) :
       interfaces' = [i \in Indices |-> IF i \in hit THEN None ELSE interfaces[i]]
  /\ session' = [t \in Sessions |->
                   IF t = s \/ session[t] = None THEN None
                   ELSE [session[t] EXCEPT !.mine = FALSE]]
  /\ request' = [r \in Requests |->
                   IF request[r] = None THEN None ELSE [request[r] EXCEPT !.mine = FALSE]]
  /\ returned' = {}
  /\ foreign' = {}
  /\ UNCHANGED device

(* The interface is not found, or the commit raises: one that updates a row that  *)
(* is gone, or does not get the database's write lock in time.                    *)
SessionFails(s) ==
  /\ session[s] # None
  /\ session' = [session EXCEPT ![s] = None]
  /\ UNCHANGED <<link, interfaces, request, device, history>>

Next ==
  \/ \E d \in Devices : DeviceChanges(d)
  \/ \E r \in Requests :
       \/ Discover(r)
       \/ WalkDescr(r)
       \/ WalkNames(r)
       \/ WalkAddresses(r)
       \/ WalkFails(r)
       \/ Store(r)
       \/ StoreFails(r)
  \/ \E s \in Sessions :
       \/ \E i \in Indices : LoadLink(s, i)
       \/ FindInterface(s)
       \/ CommitSelection(s)
       \/ BeginDelete(s)
       \/ CommitDelete(s)
       \/ SessionFails(s)
  \/ CreateLink

Spec == Init /\ [][Next]_vars

--------------------------------------------------------------------------------
TypeOK ==
  /\ exists \in BOOLEAN
  /\ interfaces \in [Indices -> Interfaces \cup {None}]
  /\ selected \in Indices \cup {None}
  /\ session \in [Sessions -> Selections \cup Deletions \cup {None}]
  /\ request \in [Requests -> Discoveries \cup {None}]
  /\ device \in Devices
  /\ returned \in SUBSET Indices
  /\ foreign \in SUBSET Indices

(* A discovery whose walks all found the device the same returns exactly its      *)
(* interfaces, with an address the device maps to the interface if it maps one to *)
(* it and to no other (snmp_client.py:178-268).                                   *)
Carries(rows, i, a)  == \E n \in DOMAIN rows : rows[n] = [address |-> a, index |-> i]
CarriesAlone(rows, i, a) ==
  Carries(rows, i, a) /\ \A j \in Indices \ {i} : ~Carries(rows, j, a)

Describes(found, d) ==
  \A i \in Indices :
    IF d.port[i] = None THEN found[i] = None
    ELSE /\ found[i] # None
         /\ found[i].description = d.port[i]
         /\ found[i].name = IF d.port[i] \in d.extended THEN d.port[i] ELSE None
         /\ found[i].ip # None => Carries(d.rows, i, found[i].ip)
         /\ (\E a \in Addresses : CarriesAlone(d.rows, i, a)) => found[i].ip # None

SteadyDiscoveryIsExact ==
  \A r \in Requests :
    At(r, "store") /\ request[r].steady => Describes(Built(request[r]), device)

(* One address is never shown at two interfaces, whatever the device did during   *)
(* the walks: at most one of them is suggested for it (wan_links.py:160-194).     *)
OneInterfacePerAddress ==
  \A r \in Requests : At(r, "store") =>
    LET found == Built(request[r])
    IN  \A i, j \in Listed(request[r]) :
          i # j /\ found[i].ip # None => found[i].ip # found[j].ip

(* An interface that a discovery has returned for the link can be selected until  *)
(* the link is deleted, without another discovery (wan_links.py:162-163).         *)
ReturnedCanBeSelected == \A i \in returned : Selectable(i)

(* The interface selected for a link is one that a discovery of this very link    *)
(* has returned, or one that an earlier link of its id has left to it: in a row   *)
(* that a late discovery stored, or in a selection that was committed after the   *)
(* link it was made for had gone (wan_links.py:201-229).                          *)
SelectedWasReturned == selected # None => selected \in returned \cup foreign
==================================================================================
