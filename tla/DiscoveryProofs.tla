----------------------------- MODULE DiscoveryProofs -----------------------------
(* Proofs about Discovery, for every device and every number of requests.         *)
EXTENDS Discovery, TLAPS, WellFoundedInduction

--------------------------------------------------------------------------------
(* A set of numbers has a least, a set of positions of a sequence a last element.   *)
LEMMA LeastNatural ==
  ASSUME NEW T \in SUBSET Nat, T # {}
  PROVE  \E n \in T : \A m \in T : n <= m
  <1>1. PICK n \in T : \A m \in T : ~(<<m, n>> \in OpToRel(<, Nat))
    BY NatLessThanWellFounded, WFMin
  <1>2. ASSUME NEW m \in T
        PROVE  n <= m
    <2>1. m \in Nat /\ n \in Nat
      OBVIOUS
    <2>2. m < n => <<m, n>> \in OpToRel(<, Nat)
      BY <2>1 DEF OpToRel
    <2>3. ~(m < n)
      BY <1>1, <2>2
    <2>. QED
      BY <2>1, <2>3
  <1>. QED
    BY <1>2

LEMMA LargestPosition ==
  ASSUME NEW bound \in Nat, NEW T \in SUBSET (1..bound), T # {}
  PROVE  \E n \in T : \A m \in T : m <= n
  <1>. PICK Mirrored : Mirrored = {k \in Nat : bound - k \in T}
    OBVIOUS
  <1>1. Mirrored # {}
    <2>1. PICK n \in T : TRUE
      OBVIOUS
    <2>2. bound - n \in Nat /\ bound - (bound - n) = n
      BY <2>1
    <2>. QED
      BY <2>1, <2>2
  <1>2. PICK k \in Mirrored : \A l \in Mirrored : k <= l
    <2>1. Mirrored \in SUBSET Nat
      OBVIOUS
    <2>. QED
      BY <1>1, <2>1, LeastNatural
  <1>3. ASSUME NEW m \in T
        PROVE  m <= bound - k
    <2>1. bound - m \in Nat /\ bound - (bound - m) = m
      OBVIOUS
    <2>2. k <= bound - m
      BY <1>2, <2>1
    <2>. QED
      BY <2>1, <2>2
  <1>. QED
    BY <1>2, <1>3

--------------------------------------------------------------------------------
(* The merge of the address table.                                                *)
LEMMA RowType ==
  ASSUME NEW rows \in AddressRows, NEW n \in DOMAIN rows
  PROVE  rows[n] \in AddressRow
  BY DEF AddressRows

LEMMA PositionsAreNaturals ==
  ASSUME NEW rows \in AddressRows, NEW a
  PROVE  /\ Len(rows) \in Nat
         /\ DOMAIN rows = 1..Len(rows)
         /\ RowsOf(rows, a) \in SUBSET (1..Len(rows))
         /\ Deciding(rows, a) \subseteq RowsOf(rows, a)
  BY DEF AddressRows, RowsOf, Valid, Deciding

(* An address is decided by one row.                                              *)
LEMMA OneRowDecides ==
  ASSUME NEW rows \in AddressRows, NEW a,
         NEW n \in Deciding(rows, a), NEW m \in Deciding(rows, a)
  PROVE  n = m
  <1>1. n \in Nat /\ m \in Nat
    BY PositionsAreNaturals
  <1>. QED
    BY <1>1 DEF Deciding

LEMMA OneInterfaceIsMapped ==
  ASSUME NEW rows \in AddressRows, NEW i \in Indices, NEW j \in Indices,
         NEW a \in MappedTo(rows, i), a \in MappedTo(rows, j)
  PROVE  i = j
  <1>1. PICK n \in Deciding(rows, a) : rows[n].index = i
    BY DEF MappedTo
  <1>2. PICK m \in Deciding(rows, a) : rows[m].index = j
    BY DEF MappedTo
  <1>. QED
    BY <1>1, <1>2, OneRowDecides

(* There is an address that was walked first, so IpOf chooses one.                *)
LEMMA FirstWalkedExists ==
  ASSUME NEW rows \in AddressRows, NEW i \in Indices, MappedTo(rows, i) # {}
  PROVE  \E a \in MappedTo(rows, i) : \A b \in MappedTo(rows, i) : WalkedFirst(rows, a, b)
  <1>. PICK Mapping : Mapping = {n \in Nat : \E a \in MappedTo(rows, i) : n \in RowsOf(rows, a)}
    OBVIOUS
  <1>1. ASSUME NEW a \in MappedTo(rows, i)
        PROVE  \E n \in Nat : n \in RowsOf(rows, a)
    <2>1. PICK n \in Deciding(rows, a) : TRUE
      BY <1>1 DEF MappedTo
    <2>. QED
      BY <2>1, PositionsAreNaturals
  <1>2. Mapping # {}
    BY <1>1
  <1>3. PICK n \in Mapping : \A m \in Mapping : n <= m
    <2>1. Mapping \in SUBSET Nat
      OBVIOUS
    <2>. QED
      BY <1>2, <2>1, LeastNatural
  <1>4. PICK a \in MappedTo(rows, i) : n \in RowsOf(rows, a)
    BY <1>3
  <1>5. ASSUME NEW b \in MappedTo(rows, i)
        PROVE  WalkedFirst(rows, a, b)
    <2>1. \A m \in RowsOf(rows, b) : m \in Mapping
      BY <1>5, PositionsAreNaturals
    <2>. QED
      BY <1>3, <1>4, <2>1 DEF WalkedFirst
  <1>. QED
    BY <1>4, <1>5

(* The address of an interface is one that is mapped to it, and there is one if   *)
(* any is.                                                                        *)
LEMMA IpIsMapped ==
  ASSUME NEW rows \in AddressRows, NEW i \in Indices
  PROVE  /\ IpOf(rows, i) \in Addresses \cup {None}
         /\ IpOf(rows, i) # None => IpOf(rows, i) \in MappedTo(rows, i)
         /\ MappedTo(rows, i) # {} => IpOf(rows, i) # None
  <1>1. None \notin Addresses
    BY DiscoveryAssumption
  <1>2. MappedTo(rows, i) \subseteq Addresses
    BY DEF MappedTo
  <1>3. CASE MappedTo(rows, i) = {}
    BY <1>3 DEF IpOf
  <1>4. CASE MappedTo(rows, i) # {}
    <2>1. IpOf(rows, i) \in MappedTo(rows, i)
      BY <1>4, FirstWalkedExists DEF IpOf
    <2>. QED
      BY <1>1, <1>2, <1>4, <2>1
  <1>. QED
    BY <1>3, <1>4

(* An address that the device maps to one interface alone is mapped to it.        *)
LEMMA LoneAddressIsMapped ==
  ASSUME NEW rows \in AddressRows, NEW i \in Indices, NEW a \in Addresses,
         CarriesAlone(rows, i, a)
  PROVE  a \in MappedTo(rows, i)
  <1>1. PICK n \in DOMAIN rows : rows[n] = [address |-> a, index |-> i]
    BY DEF CarriesAlone, Carries
  <1>2. n \in RowsOf(rows, a)
    BY <1>1, DiscoveryAssumption DEF RowsOf, Valid
  <1>3. PICK last \in RowsOf(rows, a) : \A m \in RowsOf(rows, a) : m <= last
    BY <1>2, PositionsAreNaturals, LargestPosition
  <1>4. last \in Deciding(rows, a)
    BY <1>3 DEF Deciding
  <1>5. /\ last \in DOMAIN rows
        /\ rows[last].address = a /\ rows[last].index # None
    BY <1>3 DEF RowsOf, Valid
  <1>6. rows[last] \in AddressRow
    BY <1>5, RowType
  <1>7. rows[last] = [address |-> a, index |-> rows[last].index] /\ rows[last].index \in Indices
    BY <1>5, <1>6 DEF AddressRow
  <1>8. Carries(rows, rows[last].index, a)
    BY <1>5, <1>7 DEF Carries
  <1>9. rows[last].index = i
    BY <1>7, <1>8 DEF CarriesAlone
  <1>. QED
    BY <1>4, <1>9 DEF MappedTo

(* What is mapped to an interface, the device maps to it.                         *)
LEMMA MappedIsCarried ==
  ASSUME NEW rows \in AddressRows, NEW i \in Indices, NEW a \in MappedTo(rows, i)
  PROVE  Carries(rows, i, a)
  <1>1. PICK n \in Deciding(rows, a) : rows[n].index = i
    BY DEF MappedTo
  <1>2. n \in DOMAIN rows /\ rows[n].address = a
    BY <1>1, PositionsAreNaturals DEF RowsOf, Valid
  <1>3. rows[n] \in AddressRow
    BY <1>2, RowType
  <1>4. rows[n] = [address |-> a, index |-> i]
    BY <1>1, <1>2, <1>3 DEF AddressRow
  <1>. QED
    BY <1>2, <1>4 DEF Carries

--------------------------------------------------------------------------------
(* Type correctness.                                                              *)
LEMMA DeviceType ==
  ASSUME TypeOK
  PROVE  /\ device.port \in Columns
         /\ device.extended \in SUBSET Ports
         /\ device.rows \in AddressRows
         /\ Extended \in Columns
  <1>1. device \in DeviceStates
    BY DiscoveryAssumption DEF TypeOK
  <1>2. /\ device.port \in Columns /\ device.extended \in SUBSET Ports
        /\ device.rows \in AddressRows
    BY <1>1 DEF DeviceStates
  <1>. QED
    BY <1>2 DEF Extended, Columns

LEMMA RequestType ==
  ASSUME TypeOK, NEW r \in Requests, request[r] # None
  PROVE  /\ request[r] \in Discoveries
         /\ request[r].next \in Walks
         /\ request[r].descr \in Columns /\ request[r].names \in Columns
         /\ request[r].rows \in AddressRows
         /\ request[r].steady \in BOOLEAN /\ request[r].mine \in BOOLEAN
  <1>1. request[r] \in Discoveries
    BY DEF TypeOK
  <1>. QED
    BY <1>1 DEF Discoveries

LEMMA SessionType ==
  ASSUME TypeOK, NEW s \in Sessions, session[s] # None
  PROVE  /\ session[s] \in Selections \cup Deletions
         /\ session[s].kind = "select" => session[s] \in Selections
         /\ session[s].kind = "delete" => session[s] \in Deletions
         /\ [session[s] EXCEPT !.mine = FALSE] \in Selections \cup Deletions
  <1>1. session[s] \in Selections \cup Deletions
    BY DEF TypeOK
  <1>2. CASE session[s] \in Selections
    BY <1>2 DEF Selections
  <1>3. CASE session[s] \in Deletions
    BY <1>3 DEF Deletions
  <1>. QED
    BY <1>1, <1>2, <1>3

LEMMA BuiltType ==
  ASSUME NEW d \in Discoveries
  PROVE  /\ Built(d) \in [Indices -> Interfaces \cup {None}]
         /\ \A i \in Indices : Built(d)[i] # None <=> i \in Listed(d)
         /\ \A i \in Listed(d) :
              Built(d)[i] = [description |-> d.descr[i], name |-> d.names[i], ip |-> IpOf(d.rows, i)]
  <1>1. d.descr \in Columns /\ d.names \in Columns /\ d.rows \in AddressRows
    BY DEF Discoveries
  <1>2. ASSUME NEW i \in Listed(d)
        PROVE  [description |-> d.descr[i], name |-> d.names[i], ip |-> IpOf(d.rows, i)]
                 \in Interfaces
    <2>1. i \in Indices /\ d.descr[i] \in Ports /\ d.names[i] \in Ports \cup {None}
      BY <1>1, <1>2 DEF Listed, Columns
    <2>2. IpOf(d.rows, i) \in Addresses \cup {None}
      BY <1>1, <2>1, IpIsMapped
    <2>. QED
      BY <2>1, <2>2 DEF Interfaces
  <1>3. None \notin Interfaces
    BY NoneIsNoRecord
  <1>. QED
    BY <1>2, <1>3 DEF Built, Listed

(* A step of a request that replaces its record by another one, or ends it.       *)
LEMMA RequestStepType ==
  ASSUME TypeOK, NEW r \in Requests, NEW next \in Discoveries \cup {None},
         request' = [request EXCEPT ![r] = next]
  PROVE  request' \in [Requests -> Discoveries \cup {None}]
  BY DEF TypeOK

LEMMA SessionStepType ==
  ASSUME TypeOK, NEW s \in Sessions, NEW next \in Selections \cup Deletions \cup {None},
         session' = [session EXCEPT ![s] = next]
  PROVE  session' \in [Sessions -> Selections \cup Deletions \cup {None}]
  BY DEF TypeOK

LEMMA InitialRequestType ==
  ASSUME NEW steady \in BOOLEAN
  PROVE  [next |-> "descr", descr |-> NoRows, names |-> NoRows, rows |-> <<>>,
          steady |-> steady, mine |-> TRUE] \in Discoveries
  <1>1. NoRows \in Columns
    BY DEF NoRows, Columns
  <1>2. <<>> \in AddressRows
    BY DEF AddressRows
  <1>. QED
    BY <1>1, <1>2 DEF Discoveries, Walks

(* The system never leaves its types: in particular every row it stores is one of *)
(* an interface (snmp_client.py:178-230, wan_links.py:164-197).                   *)
THEOREM TypeCorrect == Spec => []TypeOK
  <1>1. Init => TypeOK
    BY DEF Init, TypeOK, NoRows
  <1>2. TypeOK /\ [Next]_vars => TypeOK'
    <2>. SUFFICES ASSUME TypeOK, [Next]_vars PROVE TypeOK'
      OBVIOUS
    <2>. USE DEF link, history
    <2>1. ASSUME NEW d \in Devices, DeviceChanges(d) PROVE TypeOK'
      <3>1. request' \in [Requests -> Discoveries \cup {None}]
        <4>1. ASSUME NEW r \in Requests, request[r] # None
              PROVE  [request[r] EXCEPT !.steady = FALSE] \in Discoveries
          BY <4>1, RequestType DEF Discoveries
        <4>. QED
          BY <2>1, <4>1 DEF DeviceChanges
      <3>. QED
        BY <2>1, <3>1 DEF DeviceChanges, TypeOK
    <2>2. ASSUME NEW r \in Requests, Discover(r) PROVE TypeOK'
      BY <2>2, RequestStepType, InitialRequestType DEF Discover, TypeOK
    <2>3. ASSUME NEW r \in Requests, WalkDescr(r) PROVE TypeOK'
      <3>1. request[r] # None
        BY <2>3 DEF WalkDescr, At
      <3>2. [request[r] EXCEPT !.next = "names", !.descr = device.port] \in Discoveries
        BY <3>1, RequestType, DeviceType DEF Discoveries, Walks
      <3>3. request' = [request EXCEPT ![r] =
                          [request[r] EXCEPT !.next = "names", !.descr = device.port]]
        BY <2>3, RequestType DEF WalkDescr, TypeOK
      <3>. QED
        BY <2>3, <3>2, <3>3, RequestStepType DEF WalkDescr, TypeOK
    <2>4. ASSUME NEW r \in Requests, WalkNames(r) PROVE TypeOK'
      <3>1. request[r] # None
        BY <2>4 DEF WalkNames, At
      <3>2. /\ [request[r] EXCEPT !.next = "addresses", !.names = Extended] \in Discoveries
            /\ [request[r] EXCEPT !.next = "addresses", !.steady = FALSE] \in Discoveries
        BY <3>1, RequestType, DeviceType DEF Discoveries, Walks
      <3>3. \/ request' = [request EXCEPT ![r] =
                             [request[r] EXCEPT !.next = "addresses", !.names = Extended]]
            \/ request' = [request EXCEPT ![r] =
                             [request[r] EXCEPT !.next = "addresses", !.steady = FALSE]]
        BY <2>4 DEF WalkNames, TypeOK
      <3>. QED
        BY <2>4, <3>2, <3>3, RequestStepType DEF WalkNames, TypeOK
    <2>5. ASSUME NEW r \in Requests, WalkAddresses(r) PROVE TypeOK'
      <3>1. request[r] # None
        BY <2>5 DEF WalkAddresses, At
      <3>2. /\ [request[r] EXCEPT !.next = "store", !.rows = device.rows] \in Discoveries
            /\ [request[r] EXCEPT !.next = "store", !.steady = FALSE] \in Discoveries
        BY <3>1, RequestType, DeviceType DEF Discoveries, Walks
      <3>3. \/ request' = [request EXCEPT ![r] =
                             [request[r] EXCEPT !.next = "store", !.rows = device.rows]]
            \/ request' = [request EXCEPT ![r] =
                             [request[r] EXCEPT !.next = "store", !.steady = FALSE]]
        BY <2>5 DEF WalkAddresses, TypeOK
      <3>. QED
        BY <2>5, <3>2, <3>3, RequestStepType DEF WalkAddresses, TypeOK
    <2>6. ASSUME NEW r \in Requests, WalkFails(r) PROVE TypeOK'
      BY <2>6, RequestStepType DEF WalkFails, TypeOK
    <2>7. ASSUME NEW r \in Requests, Store(r) PROVE TypeOK'
      <3>1. request[r] # None
        BY <2>7 DEF Store, At
      <3>2. /\ Built(request[r]) \in [Indices -> Interfaces \cup {None}]
            /\ Listed(request[r]) \subseteq Indices
        BY <3>1, RequestType, BuiltType DEF Listed
      <3>3. interfaces' \in [Indices -> Interfaces \cup {None}]
        BY <2>7, <3>2 DEF Store, Stored, TypeOK
      <3>4. request' \in [Requests -> Discoveries \cup {None}]
        BY <2>7, RequestStepType DEF Store
      <3>5. returned' \in SUBSET Indices /\ foreign' \in SUBSET Indices
        BY <2>7, <3>1, <3>2, RequestType DEF Store, TypeOK
      <3>. QED
        BY <2>7, <3>3, <3>4, <3>5 DEF Store, TypeOK
    <2>8. ASSUME NEW r \in Requests, StoreFails(r) PROVE TypeOK'
      BY <2>8, RequestStepType DEF StoreFails, TypeOK
    <2>9. ASSUME NEW s \in Sessions, NEW i \in Indices, LoadLink(s, i) PROVE TypeOK'
      <3>1. [kind |-> "select", index |-> i, found |-> FALSE, mine |-> FALSE] \in Selections
        BY DEF Selections
      <3>. QED
        BY <2>9, <3>1, SessionStepType DEF LoadLink, TypeOK
    <2>10. ASSUME NEW s \in Sessions, FindInterface(s) PROVE TypeOK'
      <3>1. session[s] # None /\ session[s] \in Selections
        BY <2>10, SessionType DEF FindInterface, Is
      <3>2. [session[s] EXCEPT !.found = TRUE, !.mine = TRUE] \in Selections
        BY <3>1 DEF Selections
      <3>3. session' = [session EXCEPT ![s] = [session[s] EXCEPT !.found = TRUE, !.mine = TRUE]]
        BY <2>10 DEF FindInterface, TypeOK
      <3>. QED
        BY <2>10, <3>2, <3>3, SessionStepType DEF FindInterface, TypeOK
    <2>11. ASSUME NEW s \in Sessions, CommitSelection(s) PROVE TypeOK'
      <3>1. session[s].index \in Indices
        BY <2>11, SessionType DEF CommitSelection, Is, Selections
      <3>2. session' \in [Sessions -> Selections \cup Deletions \cup {None}]
        BY <2>11, SessionStepType DEF CommitSelection
      <3>. QED
        BY <2>11, <3>1, <3>2 DEF CommitSelection, TypeOK
    <2>12. ASSUME NEW s \in Sessions, BeginDelete(s) PROVE TypeOK'
      <3>1. [kind |-> "delete", doomed |-> {i \in Indices : interfaces[i] # None},
             mine |-> TRUE] \in Deletions
        BY DEF Deletions
      <3>. QED
        BY <2>12, <3>1, SessionStepType DEF BeginDelete, TypeOK
    <2>13. ASSUME NEW s \in Sessions, CommitDelete(s) PROVE TypeOK'
      <3>1. request' \in [Requests -> Discoveries \cup {None}]
        <4>1. ASSUME NEW r \in Requests, request[r] # None
              PROVE  [request[r] EXCEPT !.mine = FALSE] \in Discoveries
          BY <4>1, RequestType DEF Discoveries
        <4>. QED
          BY <2>13, <4>1 DEF CommitDelete
      <3>2. session' \in [Sessions -> Selections \cup Deletions \cup {None}]
        BY <2>13, SessionType DEF CommitDelete
      <3>3. interfaces' \in [Indices -> Interfaces \cup {None}]
        BY <2>13 DEF CommitDelete, TypeOK
      <3>. QED
        BY <2>13, <3>1, <3>2, <3>3 DEF CommitDelete, TypeOK
    <2>14. ASSUME NEW s \in Sessions, SessionFails(s) PROVE TypeOK'
      BY <2>14, SessionStepType DEF SessionFails, TypeOK
    <2>15. CASE CreateLink
      BY <2>15 DEF CreateLink, TypeOK
    <2>16. CASE UNCHANGED vars
      BY <2>16 DEF TypeOK, vars
    <2>. QED
      BY <2>1, <2>2, <2>3, <2>4, <2>5, <2>6, <2>7, <2>8, <2>9, <2>10, <2>11, <2>12, <2>13,
         <2>14, <2>15, <2>16 DEF Next
  <1>. QED
    BY <1>1, <1>2, PTL DEF Spec

--------------------------------------------------------------------------------
(* One address is never shown at two interfaces: every address has one deciding   *)
(* row (snmp_client.py:160-169 and 260-268).                                      *)
THEOREM AddressesAreNotShared == Spec => []OneInterfacePerAddress
  <1>1. TypeOK => OneInterfacePerAddress
    <2>. SUFFICES ASSUME TypeOK, NEW r \in Requests, At(r, "store"),
                         NEW i \in Listed(request[r]), NEW j \in Listed(request[r]),
                         i # j, Built(request[r])[i].ip # None,
                         Built(request[r])[i].ip = Built(request[r])[j].ip
                  PROVE  FALSE
      BY DEF OneInterfacePerAddress
    <2>1. request[r] # None /\ request[r] \in Discoveries /\ request[r].rows \in AddressRows
      BY RequestType DEF At
    <2>2. i \in Indices /\ j \in Indices
      BY DEF Listed
    <2>3. ASSUME NEW k \in Listed(request[r])
          PROVE  Built(request[r])[k].ip = IpOf(request[r].rows, k)
      BY <2>3 DEF Built, Listed
    <2>4. /\ IpOf(request[r].rows, i) # None
          /\ IpOf(request[r].rows, i) = IpOf(request[r].rows, j)
      BY <2>3
    <2>5. IpOf(request[r].rows, i) \in MappedTo(request[r].rows, i)
      BY <2>1, <2>2, <2>4, IpIsMapped
    <2>6. IpOf(request[r].rows, j) \in MappedTo(request[r].rows, j)
      BY <2>1, <2>2, <2>4, IpIsMapped
    <2>. QED
      BY <2>1, <2>2, <2>4, <2>5, <2>6, OneInterfaceIsMapped
  <1>. QED
    BY <1>1, TypeCorrect, PTL

--------------------------------------------------------------------------------
(* While the device stays as it was, what a discovery has read is what the device *)
(* has.                                                                           *)
ReadIsCurrent(d) ==
  d.steady =>
    /\ d.next \in {"names", "addresses", "store"} => d.descr = device.port
    /\ d.next \in {"addresses", "store"} => d.names = Extended
    /\ d.next = "store" => d.rows = device.rows

SteadyInv == \A r \in Requests : request[r] # None => ReadIsCurrent(request[r])

LEMMA SteadyStep ==
  TypeOK /\ SteadyInv /\ [Next]_vars => SteadyInv'
  <1>. SUFFICES ASSUME TypeOK, SteadyInv, [Next]_vars,
                       NEW q \in Requests, (request[q] # None)'
                PROVE  ReadIsCurrent(request[q])'
    BY DEF SteadyInv
  <1>. DEFINE Untouched == request'[q] = request[q] /\ UNCHANGED device
  <1>1. ASSUME Untouched PROVE ReadIsCurrent(request[q])'
    BY <1>1 DEF SteadyInv, ReadIsCurrent, Extended
  <1>2. ASSUME NEW d \in Devices, DeviceChanges(d) PROVE ReadIsCurrent(request[q])'
    <2>1. request[q] # None /\ request'[q] = [request[q] EXCEPT !.steady = FALSE]
      BY <1>2 DEF DeviceChanges
    <2>2. ~request'[q].steady
      BY <2>1, RequestType DEF Discoveries
    <2>. QED
      BY <2>2 DEF ReadIsCurrent
  <1>3. ASSUME NEW r \in Requests, Discover(r) PROVE ReadIsCurrent(request[q])'
    <2>1. CASE q # r
      BY <1>1, <1>3, <2>1 DEF Discover, TypeOK
    <2>2. CASE q = r
      <3>1. request'[q].next = "descr"
        BY <1>3, <2>2 DEF Discover, TypeOK
      <3>. QED
        BY <3>1 DEF ReadIsCurrent
    <2>. QED
      BY <2>1, <2>2
  <1>4. ASSUME NEW r \in Requests, WalkDescr(r) PROVE ReadIsCurrent(request[q])'
    <2>1. CASE q # r
      BY <1>1, <1>4, <2>1 DEF WalkDescr, TypeOK
    <2>2. CASE q = r
      <3>1. request[q] # None /\ request[q] \in Discoveries
        BY <1>4, <2>2, RequestType DEF WalkDescr, At
      <3>2. request'[q].next = "names" /\ request'[q].descr = device.port /\ device' = device
        BY <1>4, <2>2, <3>1 DEF WalkDescr, TypeOK, Discoveries
      <3>. QED
        BY <3>2 DEF ReadIsCurrent
    <2>. QED
      BY <2>1, <2>2
  <1>5. ASSUME NEW r \in Requests, WalkNames(r) PROVE ReadIsCurrent(request[q])'
    <2>1. CASE q # r
      BY <1>1, <1>5, <2>1 DEF WalkNames, TypeOK
    <2>2. CASE q = r
      <3>1. /\ request[q] # None /\ request[q] \in Discoveries /\ request[q].next = "names"
            /\ device' = device
        BY <1>5, <2>2, RequestType DEF WalkNames, At
      <3>2. \/ request'[q] = [request[q] EXCEPT !.next = "addresses", !.names = Extended]
            \/ request'[q] = [request[q] EXCEPT !.next = "addresses", !.steady = FALSE]
        BY <1>5, <2>2 DEF WalkNames, TypeOK
      <3>3. ReadIsCurrent(request[q])
        BY <3>1 DEF SteadyInv
      <3>4. CASE request'[q] = [request[q] EXCEPT !.next = "addresses", !.names = Extended]
        <4>1. /\ request'[q].next = "addresses"
              /\ request'[q].steady = request[q].steady
              /\ request'[q].descr = request[q].descr
              /\ request'[q].names = Extended
          BY <3>1, <3>4 DEF Discoveries
        <4>2. Extended' = Extended
          BY <3>1 DEF Extended
        <4>. QED
          BY <3>1, <3>3, <4>1, <4>2 DEF ReadIsCurrent
      <3>5. CASE request'[q] = [request[q] EXCEPT !.next = "addresses", !.steady = FALSE]
        <4>1. ~request'[q].steady
          BY <3>1, <3>5 DEF Discoveries
        <4>. QED
          BY <4>1 DEF ReadIsCurrent
      <3>. QED
        BY <3>2, <3>4, <3>5
    <2>. QED
      BY <2>1, <2>2
  <1>6. ASSUME NEW r \in Requests, WalkAddresses(r) PROVE ReadIsCurrent(request[q])'
    <2>1. CASE q # r
      BY <1>1, <1>6, <2>1 DEF WalkAddresses, TypeOK
    <2>2. CASE q = r
      <3>1. /\ request[q] # None /\ request[q] \in Discoveries /\ request[q].next = "addresses"
            /\ device' = device
        BY <1>6, <2>2, RequestType DEF WalkAddresses, At
      <3>2. \/ request'[q] = [request[q] EXCEPT !.next = "store", !.rows = device.rows]
            \/ request'[q] = [request[q] EXCEPT !.next = "store", !.steady = FALSE]
        BY <1>6, <2>2 DEF WalkAddresses, TypeOK
      <3>3. ReadIsCurrent(request[q])
        BY <3>1 DEF SteadyInv
      <3>4. CASE request'[q] = [request[q] EXCEPT !.next = "store", !.rows = device.rows]
        <4>1. /\ request'[q].steady = request[q].steady
              /\ request'[q].descr = request[q].descr
              /\ request'[q].names = request[q].names
              /\ request'[q].rows = device.rows
          BY <3>1, <3>4 DEF Discoveries
        <4>. QED
          BY <3>1, <3>3, <4>1 DEF ReadIsCurrent, Extended
      <3>5. CASE request'[q] = [request[q] EXCEPT !.next = "store", !.steady = FALSE]
        <4>1. ~request'[q].steady
          BY <3>1, <3>5 DEF Discoveries
        <4>. QED
          BY <4>1 DEF ReadIsCurrent
      <3>. QED
        BY <3>2, <3>4, <3>5
    <2>. QED
      BY <2>1, <2>2
  <1>7. ASSUME NEW r \in Requests, WalkFails(r) \/ Store(r) \/ StoreFails(r)
        PROVE  ReadIsCurrent(request[q])'
    <2>1. request' = [request EXCEPT ![r] = None] /\ UNCHANGED device
      BY <1>7 DEF WalkFails, Store, StoreFails
    <2>2. q # r
      BY <2>1 DEF TypeOK
    <2>. QED
      BY <1>1, <2>1, <2>2 DEF TypeOK
  <1>8. CASE \/ \E s \in Sessions :
                 \/ \E i \in Indices : LoadLink(s, i)
                 \/ FindInterface(s) \/ CommitSelection(s) \/ BeginDelete(s) \/ SessionFails(s)
             \/ CreateLink \/ UNCHANGED vars
    BY <1>1, <1>8
       DEF LoadLink, FindInterface, CommitSelection, BeginDelete, SessionFails, CreateLink, vars
  <1>9. ASSUME NEW s \in Sessions, CommitDelete(s) PROVE ReadIsCurrent(request[q])'
    <2>1. /\ request[q] # None /\ request'[q] = [request[q] EXCEPT !.mine = FALSE]
          /\ device' = device
      BY <1>9 DEF CommitDelete
    <2>2. ReadIsCurrent(request[q]) /\ request[q] \in Discoveries
      BY <2>1, RequestType DEF SteadyInv
    <2>. QED
      BY <2>1, <2>2 DEF ReadIsCurrent, Discoveries, Extended
  <1>. QED
    BY <1>2, <1>3, <1>4, <1>5, <1>6, <1>7, <1>8, <1>9 DEF Next

(* A discovery during which the device stayed the same returns exactly its        *)
(* interfaces, with their names and addresses (snmp_client.py:178-268).           *)
THEOREM SteadyDiscoveriesAreExact == Spec => []SteadyDiscoveryIsExact
  <1>1. Init => SteadyInv
    BY DEF Init, SteadyInv
  <1>2. TypeOK /\ SteadyInv => SteadyDiscoveryIsExact
    <2>. SUFFICES ASSUME TypeOK, SteadyInv, NEW r \in Requests, At(r, "store"),
                         request[r].steady, NEW i \in Indices
                  PROVE  LET found == Built(request[r])
                         IN  IF device.port[i] = None THEN found[i] = None
                             ELSE /\ found[i] # None
                                  /\ found[i].description = device.port[i]
                                  /\ found[i].name = IF device.port[i] \in device.extended
                                                     THEN device.port[i] ELSE None
                                  /\ found[i].ip # None => Carries(device.rows, i, found[i].ip)
                                  /\ (\E a \in Addresses : CarriesAlone(device.rows, i, a))
                                       => found[i].ip # None
      BY DEF SteadyDiscoveryIsExact, Describes
    <2>. DEFINE d == request[r]
    <2>1. d \in Discoveries /\ d.rows \in AddressRows
      BY RequestType DEF At
    <2>2. d.descr = device.port /\ d.names = Extended /\ d.rows = device.rows
      BY DEF At, SteadyInv, ReadIsCurrent
    <2>3. /\ IpOf(d.rows, i) # None => Carries(d.rows, i, IpOf(d.rows, i))
          /\ (\E a \in Addresses : CarriesAlone(d.rows, i, a)) => IpOf(d.rows, i) # None
      BY <2>1, IpIsMapped, LoneAddressIsMapped, MappedIsCarried
    <2>4. CASE device.port[i] = None
      <3>1. i \notin Listed(d)
        BY <2>2, <2>4 DEF Listed
      <3>. QED
        BY <2>1, <2>4, <3>1, BuiltType
    <2>5. CASE device.port[i] # None
      <3>1. i \in Listed(d)
        BY <2>2, <2>5 DEF Listed
      <3>2. Built(d)[i] = [description |-> d.descr[i], name |-> d.names[i], ip |-> IpOf(d.rows, i)]
            /\ Built(d)[i] # None
        BY <2>1, <3>1, BuiltType
      <3>3. d.names[i] = IF device.port[i] \in device.extended THEN device.port[i] ELSE None
        BY <2>2 DEF Extended
      <3>. QED
        BY <2>2, <2>3, <2>5, <3>2, <3>3
    <2>. QED
      BY <2>4, <2>5
  <1>. QED
    BY <1>1, <1>2, SteadyStep, TypeCorrect, PTL DEF Spec

--------------------------------------------------------------------------------
(* What a discovery has returned stays stored until the link is deleted           *)
(* (wan_links.py:162-197).                                                        *)
THEOREM ReturnedStaysSelectable == Spec => []ReturnedCanBeSelected
  <1>1. Init => ReturnedCanBeSelected
    BY DEF Init, ReturnedCanBeSelected
  <1>2. TypeOK /\ ReturnedCanBeSelected /\ [Next]_vars => ReturnedCanBeSelected'
    <2>. SUFFICES ASSUME TypeOK, ReturnedCanBeSelected, [Next]_vars
                  PROVE  ReturnedCanBeSelected'
      OBVIOUS
    <2>. USE DEF ReturnedCanBeSelected, Selectable
    <2>1. ASSUME NEW r \in Requests, Store(r) PROVE ReturnedCanBeSelected'
      <3>1. request[r] # None /\ request[r] \in Discoveries
        BY <2>1, RequestType DEF Store, At
      <3>2. /\ interfaces' = Stored(Built(request[r]))
            /\ returned' \subseteq returned \cup Listed(request[r])
        BY <2>1 DEF Store
      <3>3. ASSUME NEW i \in returned' PROVE interfaces'[i] # None
        <4>1. i \in Indices
          BY <3>2 DEF TypeOK, Listed
        <4>2. interfaces[i] # None \/ Built(request[r])[i] # None
          BY <3>1, <3>2, <4>1, BuiltType
        <4>. QED
          BY <3>2, <4>1, <4>2 DEF Stored
      <3>. QED
        BY <3>3
    <2>2. ASSUME NEW s \in Sessions, CommitDelete(s) PROVE ReturnedCanBeSelected'
      BY <2>2 DEF CommitDelete
    <2>3. CASE UNCHANGED <<interfaces, returned>>
      BY <2>3
    <2>. QED
      BY <2>1, <2>2, <2>3
         DEF Next, vars, link, history, DeviceChanges, Discover, WalkDescr, WalkNames,
             WalkAddresses, WalkFails, StoreFails, LoadLink, FindInterface, CommitSelection,
             BeginDelete, SessionFails, CreateLink
  <1>. QED
    BY <1>1, <1>2, TypeCorrect, PTL DEF Spec

(* A link that does not exist has nothing selected; the rows of one that does are *)
(* those its discoveries returned and those left to it; and what a selection has  *)
(* found of the link that has the id is still stored.                             *)
OriginInv ==
  /\ ~exists => selected = None
  /\ exists => \A i \in Indices : interfaces[i] # None => i \in returned \cup foreign
  /\ \A s \in Sessions :
       Is(s, "select") /\ session[s].found /\ session[s].mine => Selectable(session[s].index)

(* The interface selected for a link was returned by a discovery of this link, or *)
(* left to it by an earlier link of its id: in a row, or in a selection that was  *)
(* read before that link was deleted and committed after (wan_links.py:201-229).  *)
THEOREM SelectionIsDiscovered == Spec => []SelectedWasReturned
  <1>1. Init => OriginInv /\ SelectedWasReturned
    BY DEF Init, OriginInv, SelectedWasReturned, Is
  <1>2. TypeOK /\ OriginInv /\ SelectedWasReturned /\ [Next]_vars
          => OriginInv' /\ SelectedWasReturned'
    <2>. SUFFICES ASSUME TypeOK, OriginInv, SelectedWasReturned, [Next]_vars
                  PROVE  OriginInv' /\ SelectedWasReturned'
      OBVIOUS
    <2>. USE DEF OriginInv, SelectedWasReturned
    <2>1. ASSUME NEW r \in Requests, Store(r) PROVE OriginInv' /\ SelectedWasReturned'
      <3>1. request[r] # None /\ request[r] \in Discoveries
        BY <2>1, RequestType DEF Store, At
      <3>2. /\ interfaces' = Stored(Built(request[r]))
            /\ returned' = IF request[r].mine THEN returned \cup Listed(request[r])
                           ELSE returned
            /\ foreign' = IF exists /\ ~request[r].mine THEN foreign \cup Listed(request[r])
                          ELSE foreign
            /\ UNCHANGED <<exists, selected, session>>
        BY <2>1 DEF Store, link
      <3>3. returned \cup foreign \subseteq returned' \cup foreign'
        BY <3>2
      <3>4. ASSUME exists, NEW i \in Indices, interfaces'[i] # None
            PROVE  i \in returned' \cup foreign'
        <4>1. interfaces[i] # None \/ Built(request[r])[i] # None
          BY <3>2, <3>4 DEF Stored
        <4>2. Built(request[r])[i] # None => i \in Listed(request[r])
          BY <3>1, BuiltType
        <4>. QED
          BY <3>2, <3>3, <3>4, <4>1, <4>2
      <3>5. ASSUME NEW i \in Indices, Selectable(i) PROVE Selectable(i)'
        BY <3>2, <3>5 DEF Stored, Selectable
      <3>6. ASSUME NEW s \in Sessions, Is(s, "select"), session[s].found, session[s].mine
            PROVE  Selectable(session[s].index)'
        <4>1. session[s].index \in Indices
          BY <3>6, SessionType DEF Is, Selections
        <4>. QED
          BY <3>2, <3>5, <3>6, <4>1 DEF Selectable
      <3>. QED
        BY <3>2, <3>3, <3>4, <3>6 DEF Is
    <2>2. ASSUME NEW s \in Sessions, NEW i \in Indices, LoadLink(s, i)
          PROVE  OriginInv' /\ SelectedWasReturned'
      BY <2>2 DEF LoadLink, TypeOK, Is, Selectable, link, history
    <2>3. ASSUME NEW s \in Sessions, FindInterface(s) PROVE OriginInv' /\ SelectedWasReturned'
      <3>1. session[s] # None /\ session[s] \in Selections
        BY <2>3, SessionType DEF FindInterface, Is
      <3>2. /\ session'[s].index = session[s].index
            /\ \A t \in Sessions \ {s} : session'[t] = session[t]
            /\ UNCHANGED <<link, interfaces, history>>
        BY <2>3, <3>1 DEF FindInterface, TypeOK, Selections
      <3>3. ASSUME NEW t \in Sessions, Is(t, "select")', session'[t].found, session'[t].mine
            PROVE  Selectable(session[t].index)
        <4>1. CASE t = s
          BY <2>3, <4>1 DEF FindInterface
        <4>2. CASE t # s
          BY <3>2, <3>3, <4>2 DEF Is
        <4>. QED
          BY <4>1, <4>2
      <3>4. \A t \in Sessions : session'[t].index = session[t].index
        BY <3>2
      <3>. QED
        BY <3>2, <3>3, <3>4 DEF Selectable, link, history
    <2>4. ASSUME NEW s \in Sessions, CommitSelection(s) PROVE OriginInv' /\ SelectedWasReturned'
      <3>1. session[s].index \in Indices
        BY <2>4, SessionType DEF CommitSelection, Is, Selections
      <3>2. session[s].index \in returned' \cup foreign'
        BY <2>4, <3>1 DEF CommitSelection, Selectable
      <3>3. \A t \in Sessions : session'[t] = IF t = s THEN None ELSE session[t]
        BY <2>4 DEF CommitSelection, TypeOK
      <3>. QED
        BY <2>4, <3>2, <3>3 DEF CommitSelection, Is, Selectable
    <2>5. ASSUME NEW s \in Sessions, BeginDelete(s) \/ SessionFails(s)
          PROVE  OriginInv' /\ SelectedWasReturned'
      <3>1. /\ \A t \in Sessions \ {s} : session'[t] = session[t]
            /\ session'[s] = None \/ session'[s].kind = "delete"
            /\ UNCHANGED <<link, interfaces, history>>
        BY <2>5 DEF BeginDelete, SessionFails, TypeOK
      <3>. QED
        BY <3>1 DEF Is, Selectable, link, history
    <2>6. CASE CreateLink
      BY <2>6 DEF CreateLink, Is, Selectable
    <2>7. ASSUME NEW s \in Sessions, CommitDelete(s) PROVE OriginInv' /\ SelectedWasReturned'
      <3>1. ASSUME NEW t \in Sessions, session'[t] # None PROVE ~session'[t].mine
        <4>1. session[t] # None /\ session'[t] = [session[t] EXCEPT !.mine = FALSE]
          BY <2>7, <3>1 DEF CommitDelete
        <4>2. session[t] \in Selections \cup Deletions
          BY <4>1, SessionType
        <4>. QED
          BY <4>1, <4>2 DEF Selections, Deletions
      <3>2. ~exists' /\ selected' = None
        BY <2>7 DEF CommitDelete
      <3>. QED
        BY <3>1, <3>2 DEF Is
    <2>8. CASE UNCHANGED <<link, session, interfaces, history>>
      BY <2>8 DEF link, history, Is, Selectable
    <2>. QED
      BY <2>1, <2>2, <2>3, <2>4, <2>5, <2>6, <2>7, <2>8
         DEF Next, vars, DeviceChanges, Discover, WalkDescr, WalkNames,
             WalkAddresses, WalkFails, StoreFails
  <1>. QED
    BY <1>1, <1>2, TypeCorrect, PTL DEF Spec
==================================================================================
