--------------------------- MODULE LinkRecordsProofs ---------------------------
(* Machine-checked proofs of the safety properties of LinkRecords, for every    *)
(* number of threads, ids and requests.                                         *)
EXTENDS LinkRecords, TLAPS

(* What a pending request is made of: an update changes the columns it assigns   *)
(* and no others, and a selection is one of the choices.                        *)
RequestOK(r) ==
  /\ r.kind = "update" =>
       /\ r.read \in RowsOf(r.table) /\ r.wanted \in RowsOf(r.table)
       /\ \A c \in Columns[r.table] : c \notin r.sets => r.wanted[c] = r.read[c]
       /\ r.table = "links" =>
            IF "index" \in r.sets THEN Selection(r.wanted) \in Choices
            ELSE Selection(r.wanted) = Selection(r.read)
  /\ r.kind = "insert" =>
       /\ r.row \in RowsOf(r.table)
       /\ r.table = "links" => r.row = NewLink

(* A deletion's link is there, and so are the rows it has read.                  *)
Mine(r) ==
  /\ Exists("links", r.id)
  /\ \A t \in Children : \A i \in r.rows[t] : Exists(t, i) /\ rows[t][i]["link"] = r.id

(* The lock is held by a bootstrap only, and there is no settings row until it   *)
(* is committed.                                                                *)
RequestsInv ==
  /\ \A s \in Sessions : request[s] # None => RequestOK(request[s])
  /\ writer # None =>
       /\ request[writer] # None /\ request[writer].kind = "bootstrap"
       /\ ~Exists("settings", 1)

(* A step that asks, and what is asked.                                         *)
Asks ==
  \E s \in Sessions, r \in Requests :
    /\ Ask(s, r)
    /\ RequestOK(r)
    /\ r.kind = "delete" => Mine(r)

LEMMA NoneIsNothing ==
  /\ \A s \in Sessions : s # None
  /\ \A r \in Requests : r # None
  /\ \A t \in Tables : \A row \in RowsOf(t) : row # None
  BY RecordsAssumption DEF AnyRow, Tables

LEMMA RowsAreRows == \A t \in Tables : RowsOf(t) \subseteq AnyRow
  BY DEF Tables, AnyRow

LEMMA NewLinkType == NewLink \in RowsOf("links")
  BY DEF NewLink, RowsOf, Columns, Values

(* A row is loaded and columns of it are assigned.                              *)
LEMMA UpdateIsRequest ==
  ASSUME TypeOK, NEW t \in {"links", "alerts", "settings"}, NEW i \in Ids, Exists(t, i),
         NEW D \in SUBSET {"index", "ip", "icmp", "snmp", "ended", "acked"},
         NEW assigned \in [D -> Values]
  PROVE  LET r == Update(t, i, assigned)
         IN  /\ r \in Requests
             /\ r.kind = "update" /\ r.table = t /\ r.sets = D
             /\ r.read \in RowsOf(t) /\ r.wanted \in RowsOf(t)
             /\ \A c \in Columns[t] :
                  r.wanted[c] = IF c \in D THEN assigned[c] ELSE r.read[c]
  <1> DEFINE r == Update(t, i, assigned)
  <1>1. t \in Tables
    BY DEF Tables
  <1>2. rows[t][i] \in RowsOf(t)
    BY <1>1 DEF TypeOK
  <1>3. DOMAIN assigned = D
    OBVIOUS
  <1>4. r.wanted = [c \in Columns[t] |-> IF c \in D THEN assigned[c] ELSE rows[t][i][c]]
    BY <1>3 DEF Update
  <1>5. r.wanted \in RowsOf(t)
    BY <1>2, <1>4 DEF RowsOf
  <1>6. r.read = rows[t][i] /\ r.kind = "update" /\ r.table = t /\ r.sets = D /\ r.id = i
    BY <1>3 DEF Update
  <1>7. r \in Updates
    <2>1. r.read \in AnyRow /\ r.wanted \in AnyRow
      BY <1>1, <1>2, <1>5, <1>6, RowsAreRows
    <2>. QED
      BY <1>3, <2>1 DEF Update, Updates
  <1>. QED
    BY <1>2, <1>4, <1>5, <1>6, <1>7 DEF Requests

LEMMA SelectAsks ==
  ASSUME TypeOK, NEW s \in Threads, NEW l \in Ids, NEW choice \in Choices,
         SelectInterface(s, l, choice)
  PROVE  Asks
  <1> DEFINE r == Update("links", l, choice)
  <1>1. choice \in [{"index", "ip"} -> Values]
    BY RecordsAssumption
  <1>2. Exists("links", l) /\ Ask(s, r)
    BY DEF SelectInterface, Chosen
  <1>3. /\ r \in Requests
        /\ r.kind = "update" /\ r.table = "links" /\ r.sets = {"index", "ip"}
        /\ r.read \in RowsOf("links") /\ r.wanted \in RowsOf("links")
        /\ \A c \in Columns["links"] :
             r.wanted[c] = IF c \in {"index", "ip"} THEN choice[c] ELSE r.read[c]
    BY <1>1, <1>2, UpdateIsRequest
  <1>4. Selection(r.wanted) = choice
    BY <1>1, <1>3 DEF Selection, Columns
  <1>5. RequestOK(r)
    BY <1>3, <1>4 DEF RequestOK
  <1>. QED
    BY <1>2, <1>3, <1>5 DEF Asks, Sessions

LEMMA IntervalsAsk ==
  ASSUME TypeOK, NEW s \in Threads, NEW t \in {"links", "settings"}, NEW i \in Ids,
         NEW payload \in Payloads, Exists(t, i), Ask(s, Update(t, i, payload))
  PROVE  Asks
  <1> DEFINE r == Update(t, i, payload)
  <1>1. payload \in [{"icmp", "snmp"} -> Values]
    BY RecordsAssumption
  <1>2. /\ r \in Requests
        /\ r.kind = "update" /\ r.table = t /\ r.sets = {"icmp", "snmp"}
        /\ r.read \in RowsOf(t) /\ r.wanted \in RowsOf(t)
        /\ \A c \in Columns[t] :
             r.wanted[c] = IF c \in {"icmp", "snmp"} THEN payload[c] ELSE r.read[c]
    BY <1>1, UpdateIsRequest
  <1>3. t = "links" => Selection(r.wanted) = Selection(r.read)
    BY <1>2 DEF Selection, Columns
  <1>4. RequestOK(r)
    BY <1>2, <1>3 DEF RequestOK
  <1>. QED
    BY <1>2, <1>4 DEF Asks, Sessions

LEMMA AlertUpdateAsks ==
  ASSUME TypeOK, NEW s \in Sessions, NEW a \in Ids, NEW c \in {"ended", "acked"},
         NEW v \in Values, Exists("alerts", a), Ask(s, Update("alerts", a, [d \in {c} |-> v]))
  PROVE  Asks
  <1> DEFINE assigned == [d \in {c} |-> v]
  <1> DEFINE r == Update("alerts", a, assigned)
  <1>1. assigned \in [{c} -> Values]
    OBVIOUS
  <1>2. /\ r \in Requests
        /\ r.kind = "update" /\ r.table = "alerts" /\ r.sets = {c}
        /\ r.read \in RowsOf("alerts") /\ r.wanted \in RowsOf("alerts")
        /\ \A d \in Columns["alerts"] :
             r.wanted[d] = IF d \in {c} THEN assigned[d] ELSE r.read[d]
    <2>1. {c} \in SUBSET {"index", "ip", "icmp", "snmp", "ended", "acked"}
      OBVIOUS
    <2> HIDE DEF assigned
    <2>. QED
      BY <1>1, <2>1, UpdateIsRequest
  <1>3. RequestOK(r)
    BY <1>2 DEF RequestOK
  <1>. QED
    BY <1>2, <1>3 DEF Asks

LEMMA InsertAsks ==
  ASSUME NEW s \in Sessions, NEW t \in {"links", "alerts", "notes"}, NEW row \in RowsOf(t),
         t = "links" => row = NewLink, Ask(s, Insert(t, row))
  PROVE  Asks
  <1>1. t \in Tables
    BY DEF Tables
  <1>2. row \in AnyRow
    BY <1>1, RowsAreRows
  <1>3. Insert(t, row) \in Requests
    BY <1>2 DEF Insert, Inserts, Requests
  <1>4. RequestOK(Insert(t, row)) /\ Insert(t, row).kind # "delete"
    BY DEF Insert, RequestOK
  <1>. QED
    BY <1>3, <1>4 DEF Asks

LEMMA DeleteAsks ==
  ASSUME NEW s \in Threads, NEW l \in Ids, DeleteWanLink(s, l)
  PROVE  Asks
  <1> DEFINE r == [kind |-> "delete", id |-> l, rows |-> [t \in Children |-> ChildrenOf(t, l)]]
  <1>1. [t \in Children |-> ChildrenOf(t, l)] \in [Children -> SUBSET Ids]
    BY DEF ChildrenOf
  <1>2. r \in Requests
    BY <1>1 DEF Deletions, Requests
  <1>3. RequestOK(r)
    BY DEF RequestOK
  <1>4. Mine(r)
    BY DEF DeleteWanLink, Mine, ChildrenOf
  <1>. QED
    BY <1>2, <1>3, <1>4 DEF DeleteWanLink, Asks, Sessions

LEMMA BootstrapAsks ==
  ASSUME NEW s \in Sessions, NEW row \in Payloads, NEW kept \in BOOLEAN,
         Bootstrap(s, row, kept)
  PROVE  Asks
  <1> DEFINE r == [kind |-> "bootstrap", row |-> row, kept |-> kept]
  <1>1. row \in RowsOf("settings")
    BY RecordsAssumption DEF RowsOf, Columns
  <1>2. r \in Requests /\ RequestOK(r)
    BY <1>1 DEF Bootstraps, Requests, RequestOK
  <1>. QED
    BY <1>2 DEF Bootstrap, Asks

(* Every endpoint, the tick and the alerts of a poll ask; the other steps end    *)
(* what was asked.                                                              *)
LEMMA NextCases ==
  ASSUME TypeOK, [Next]_vars
  PROVE  \/ Asks
         \/ \E s \in Sessions :
              \/ CommitUpdate(s) \/ CommitInsert(s) \/ CommitDelete(s)
              \/ Flush(s) \/ EndBootstrap(s) \/ Fails(s)
         \/ Restart
         \/ UNCHANGED vars
  <1>1. ASSUME NEW s \in Threads, CreateWanLink(s) PROVE Asks
    BY <1>1, InsertAsks, NewLinkType DEF CreateWanLink, Sessions
  <1>2. ASSUME NEW s \in Threads, ReadSettings(s) PROVE Asks
    BY <1>2, BootstrapAsks, RecordsAssumption DEF ReadSettings, Sessions
  <1>3. ASSUME NEW s \in Threads, NEW payload \in Payloads, UpdateSettings(s, payload)
        PROVE  Asks
    <2>1. 1 \in Ids
      BY RecordsAssumption DEF Ids
    <2>. QED
      BY <1>3, <2>1, BootstrapAsks, IntervalsAsk DEF UpdateSettings, Sessions
  <1>4. ASSUME NEW s \in Threads, NEW l \in Ids, NEW choice \in Choices,
               SelectInterface(s, l, choice)
        PROVE  Asks
    BY <1>4, SelectAsks
  <1>5. ASSUME NEW s \in Threads, NEW l \in Ids, NEW payload \in Payloads,
               UpdatePollingIntervals(s, l, payload)
        PROVE  Asks
    BY <1>5, IntervalsAsk DEF UpdatePollingIntervals
  <1>6. ASSUME NEW s \in Threads, NEW l \in Ids, NEW a \in Ids, NEW user \in Users,
               AcknowledgeAlert(s, l, a, user)
        PROVE  Asks
    BY <1>6, AlertUpdateAsks, RecordsAssumption DEF AcknowledgeAlert, Sessions, Values
  <1>7. ASSUME NEW s \in Threads, NEW l \in Ids, AddNote(s, l) PROVE Asks
    <2>1. [c \in {"link"} |-> l] \in RowsOf("notes")
      BY DEF RowsOf, Columns, Values, Ids
    <2>. QED
      BY <1>7, <2>1, InsertAsks DEF AddNote, Sessions
  <1>8. ASSUME NEW s \in Threads, NEW l \in Ids, DeleteWanLink(s, l) PROVE Asks
    BY <1>8, DeleteAsks
  <1>9. ASSUME TickBootstraps PROVE Asks
    BY <1>9, BootstrapAsks, RecordsAssumption DEF TickBootstraps, Sessions
  <1>10. ASSUME NEW l \in Ids, OpenAlert(l) PROVE Asks
    <2>1. [c \in Columns["alerts"] |-> IF c = "link" THEN l ELSE None] \in RowsOf("alerts")
      BY DEF RowsOf, Values, Ids
    <2>. QED
      BY <1>10, <2>1, InsertAsks DEF OpenAlert, Sessions
  <1>11. ASSUME NEW l \in Ids, CloseAlert(l) PROVE Asks
    <2>1. PICK a \in ChildrenOf("alerts", l) :
            Ask(Worker, Update("alerts", a, [c \in {"ended"} |-> Then]))
      BY <1>11 DEF CloseAlert
    <2>2. a \in Ids /\ Exists("alerts", a) /\ Then \in Values
      BY <2>1 DEF ChildrenOf, Then, Values
    <2>. QED
      BY <2>1, <2>2, AlertUpdateAsks DEF Sessions
  <1>. QED
    BY <1>1, <1>2, <1>3, <1>4, <1>5, <1>6, <1>7, <1>8, <1>9, <1>10, <1>11 DEF Next

--------------------------------------------------------------------------------
(* The row a commit of an update leaves.                                        *)
LEMMA WrittenRow ==
  ASSUME NEW t \in Tables, NEW current \in RowsOf(t), NEW r, r.wanted \in RowsOf(t)
  PROVE  /\ Written(current, r) \in RowsOf(t)
         /\ \A c \in Columns[t] :
              Written(current, r)[c] = IF r.wanted[c] # r.read[c] THEN r.wanted[c]
                                       ELSE current[c]
  BY DEF Written, RowsOf

(* A commit of an update changes one row, if it is still there.                 *)
LEMMA CommitUpdateStep ==
  ASSUME TypeOK, RequestsInv, NEW s \in Sessions, CommitUpdate(s)
  PROVE  /\ request[s] \in Updates /\ RequestOK(request[s])
         /\ \A t \in Tables, i \in Ids :
              IF t = request[s].table /\ i = request[s].id /\ Exists(t, i)
              THEN rows'[t][i] = Written(rows[t][i], request[s]) /\ rows'[t][i] \in RowsOf(t)
              ELSE rows'[t][i] = rows[t][i]
         /\ rows' \in [Tables -> [Ids -> AnyRow \cup {None}]]
  <1> DEFINE r == request[s]
  <1>1. r # None /\ r.kind = "update" /\ r \in Requests
    BY DEF CommitUpdate, TypeOK
  <1>2. r \in Updates
    BY <1>1 DEF Requests, Updates, Inserts, Deletions, Bootstraps
  <1>3. RequestOK(r)
    BY <1>1 DEF RequestsInv
  <1>4. r.table \in Tables /\ r.id \in Ids
    BY <1>2 DEF Updates, Tables
  <1>5. CASE Exists(r.table, r.id)
    <2>1. rows' = [rows EXCEPT ![r.table][r.id] = Written(rows[r.table][r.id], r)]
      BY <1>5 DEF CommitUpdate
    <2>2. Written(rows[r.table][r.id], r) \in RowsOf(r.table)
      BY <1>1, <1>3, <1>4, <1>5, WrittenRow DEF RequestOK, TypeOK
    <2>3. Written(rows[r.table][r.id], r) \in AnyRow
      BY <1>4, <2>2, RowsAreRows
    <2>4. rows \in [Tables -> [Ids -> AnyRow \cup {None}]]
      BY DEF TypeOK
    <2>5. rows' \in [Tables -> [Ids -> AnyRow \cup {None}]]
      BY <1>4, <2>1, <2>3, <2>4
    <2>6. ASSUME NEW t \in Tables, NEW i \in Ids
          PROVE  IF t = r.table /\ i = r.id THEN rows'[t][i] = Written(rows[t][i], r)
                 ELSE rows'[t][i] = rows[t][i]
      <3> HIDE DEF r
      <3>. QED
        BY <1>4, <2>1, <2>4
    <2>. QED
      BY <1>2, <1>3, <1>4, <1>5, <2>2, <2>5, <2>6
  <1>6. CASE ~Exists(r.table, r.id)
    <2>1. rows' = rows
      BY <1>6 DEF CommitUpdate
    <2>. QED
      BY <1>2, <1>3, <1>6, <2>1 DEF TypeOK, Exists
  <1>. QED
    BY <1>5, <1>6

LEMMA CommitInsertStep ==
  ASSUME TypeOK, RequestsInv, NEW s \in Sessions, CommitInsert(s)
  PROVE  \E t \in {"links", "alerts", "notes"}, i \in Ids : \E row \in RowsOf(t) :
           /\ ~Exists(t, i)
           /\ rows' = [rows EXCEPT ![t][i] = row]
           /\ rows' \in [Tables -> [Ids -> AnyRow \cup {None}]]
           /\ t = "links" => row = NewLink /\ mixed' = [mixed EXCEPT ![i] = FALSE]
           /\ t # "links" => mixed' = mixed
  <1> DEFINE r == request[s]
  <1>1. r # None /\ r.kind = "insert" /\ r \in Requests
    BY DEF CommitInsert, TypeOK
  <1>2. r \in Inserts
    BY <1>1 DEF Requests, Updates, Inserts, Deletions, Bootstraps
  <1>3. RequestOK(r)
    BY <1>1 DEF RequestsInv
  <1>4. PICK i \in Ids :
          /\ IsNextId(r.table, i)
          /\ rows' = [rows EXCEPT ![r.table][i] = r.row]
          /\ mixed' = IF r.table = "links" THEN [mixed EXCEPT ![i] = FALSE] ELSE mixed
    BY DEF CommitInsert
  <1>5. ~Exists(r.table, i)
    <2>1. ~(i < i)
      BY DEF Ids
    <2>. QED
      BY <1>4, <2>1 DEF IsNextId
  <1>6. /\ r.table \in {"links", "alerts", "notes"} /\ r.row \in RowsOf(r.table)
        /\ r.row \in AnyRow /\ r.table \in Tables
    BY <1>1, <1>2, <1>3 DEF Inserts, RequestOK, Tables
  <1>7. rows' \in [Tables -> [Ids -> AnyRow \cup {None}]]
    BY <1>4, <1>6 DEF TypeOK
  <1>. QED
    BY <1>1, <1>3, <1>4, <1>5, <1>6, <1>7 DEF RequestOK

LEMMA CommitDeleteStep ==
  ASSUME TypeOK, NEW s \in Sessions, CommitDelete(s)
  PROVE  /\ request[s] \in Deletions
         /\ \A t \in Tables, i \in Ids :
              rows'[t][i] = IF i \in Removed(t, request[s]) THEN None ELSE rows[t][i]
         /\ rows' \in [Tables -> [Ids -> AnyRow \cup {None}]]
  <1>1. request[s] # None /\ request[s].kind = "delete" /\ request[s] \in Requests
    BY DEF CommitDelete, TypeOK
  <1>2. request[s] \in Deletions
    BY <1>1 DEF Requests, Updates, Inserts, Deletions, Bootstraps
  <1>3. rows' = [t \in Tables |-> [i \in Ids |->
                   IF i \in Removed(t, request[s]) THEN None ELSE rows[t][i]]]
    BY DEF CommitDelete
  <1>. QED
    BY <1>2, <1>3 DEF TypeOK

LEMMA EndBootstrapStep ==
  ASSUME TypeOK, RequestsInv, NEW s \in Sessions, EndBootstrap(s)
  PROVE  /\ ~Exists("settings", 1)
         /\ \A t \in Tables, i \in Ids :
              t # "settings" \/ i # 1 => rows'[t][i] = rows[t][i]
         /\ rows'["settings"][1] # None => rows'["settings"][1] \in RowsOf("settings")
         /\ rows' \in [Tables -> [Ids -> AnyRow \cup {None}]]
  <1>1. request[s] # None /\ request[s].kind = "bootstrap" /\ request[s] \in Requests
    BY DEF EndBootstrap, TypeOK
  <1>2. request[s] \in Bootstraps
    BY <1>1 DEF Requests, Updates, Inserts, Deletions, Bootstraps
  <1>3. request[s].row \in RowsOf("settings") /\ request[s].row \in AnyRow
    BY <1>2 DEF Bootstraps, AnyRow
  <1>4. 1 \in Ids /\ "settings" \in Tables
    BY RecordsAssumption DEF Ids, Tables
  <1>5. ~Exists("settings", 1)
    BY NoneIsNothing DEF EndBootstrap, RequestsInv
  <1>6. \/ rows' = rows
        \/ rows' = [rows EXCEPT !["settings"][1] = request[s].row]
    BY DEF EndBootstrap
  <1>. QED
    BY <1>3, <1>4, <1>5, <1>6 DEF TypeOK, Exists

--------------------------------------------------------------------------------
(* Finishing a request leaves the others as they are.                           *)
LEMMA FinishKeeps ==
  ASSUME TypeOK, RequestsInv, NEW s \in Sessions, Finish(s)
  PROVE  /\ request' \in [Sessions -> Requests \cup {None}]
         /\ asked' \in 0..MaxRequests
         /\ request'[s] = None
         /\ \A q \in Sessions : q # s => request'[q] = request[q]
         /\ \A q \in Sessions : request'[q] # None => RequestOK(request'[q])
  BY DEF TypeOK, Finish, RequestsInv

(* The lock is free before and after a commit.                                  *)
LEMMA Unlocked ==
  ASSUME RequestsInv, \A q \in Sessions : request'[q] # None => RequestOK(request'[q]),
         writer' = None
  PROVE  RequestsInv'
  BY DEF RequestsInv, RequestOK

IInv == TypeOK /\ RequestsInv

LEMMA AsksKeeps == ASSUME IInv, Asks PROVE IInv'
  <1>1. PICK s \in Sessions, r \in Requests : Ask(s, r) /\ RequestOK(r)
    BY DEF Asks
  <1>2. request' = [request EXCEPT ![s] = r] /\ UNCHANGED <<rows, writer, mixed, collided>>
    BY <1>1 DEF Ask
  <1>3. request' \in [Sessions -> Requests \cup {None}]
    BY <1>2 DEF IInv, TypeOK
  <1>4. asked' \in 0..MaxRequests
    BY <1>1, RecordsAssumption DEF IInv, TypeOK, Ask
  <1>5. TypeOK'
    BY <1>2, <1>3, <1>4 DEF IInv, TypeOK, Exists
  <1>6. \A q \in Sessions : request'[q] # None => RequestOK(request'[q])
    BY <1>1, <1>2 DEF IInv, TypeOK, RequestsInv
  <1>7. writer # None => request'[writer] = request[writer]
    BY <1>1, <1>2 DEF Ask, IInv, TypeOK, RequestsInv
  <1>8. RequestsInv'
    BY <1>2, <1>6, <1>7 DEF IInv, RequestsInv, RequestOK, Exists
  <1>. QED
    BY <1>5, <1>8 DEF IInv

LEMMA CommitsKeep ==
  ASSUME IInv, NEW s \in Sessions, CommitUpdate(s) \/ CommitInsert(s) \/ CommitDelete(s)
  PROVE  IInv'
  <1> USE DEF IInv
  <1>1. Finish(s) /\ writer = None /\ writer' = None
    BY DEF CommitUpdate, CommitInsert, CommitDelete
  <1>2. RequestsInv'
    BY <1>1, FinishKeeps, Unlocked
  <1>3. mixed' \in [Ids -> BOOLEAN] /\ collided' \in BOOLEAN
    <2>1. CASE CommitUpdate(s)
      BY <2>1 DEF CommitUpdate, TypeOK
    <2>2. CASE CommitInsert(s)
      BY <2>2, CommitInsertStep DEF TypeOK, CommitInsert
    <2>3. CASE CommitDelete(s)
      BY <2>3 DEF CommitDelete, TypeOK
    <2>. QED
      BY <2>1, <2>2, <2>3
  <1>4. /\ rows' \in [Tables -> [Ids -> AnyRow \cup {None}]]
        /\ \A t \in Tables, i \in Ids : rows'[t][i] # None => rows'[t][i] \in RowsOf(t)
    <2>1. CASE CommitUpdate(s)
      BY <2>1, CommitUpdateStep DEF TypeOK, Exists
    <2>2. CASE CommitInsert(s)
      <3>1. PICK t \in {"links", "alerts", "notes"}, i \in Ids : \E row \in RowsOf(t) :
              /\ rows' = [rows EXCEPT ![t][i] = row]
              /\ rows' \in [Tables -> [Ids -> AnyRow \cup {None}]]
        BY <2>2, CommitInsertStep
      <3>. QED
        BY <3>1 DEF TypeOK, Exists, Tables
    <2>3. CASE CommitDelete(s)
      BY <2>3, CommitDeleteStep DEF TypeOK, Exists
    <2>. QED
      BY <2>1, <2>2, <2>3
  <1>5. TypeOK'
    BY <1>1, <1>3, <1>4, FinishKeeps DEF TypeOK, Exists
  <1>. QED
    BY <1>2, <1>5

LEMMA BootstrapKeeps ==
  ASSUME IInv, NEW s \in Sessions, Flush(s) \/ EndBootstrap(s) \/ Fails(s)
  PROVE  IInv'
  <1> USE DEF IInv
  <1>1. CASE Flush(s) /\ Exists("settings", 1)
    <2>1. Finish(s) /\ UNCHANGED <<rows, writer, mixed, collided>> /\ writer = None
      BY <1>1 DEF Flush
    <2>. QED
      BY <2>1, FinishKeeps, Unlocked DEF TypeOK, Exists
  <1>2. CASE Flush(s) /\ ~Exists("settings", 1)
    <2>1. /\ writer' = s /\ UNCHANGED <<rows, request, asked, mixed, collided>>
          /\ request[s] # None /\ request[s].kind = "bootstrap"
      BY <1>2 DEF Flush
    <2>. QED
      BY <1>2, <2>1 DEF TypeOK, Exists, RequestsInv, RequestOK
  <1>3. CASE EndBootstrap(s)
    <2>1. Finish(s) /\ writer' = None /\ UNCHANGED <<mixed, collided>>
      BY <1>3 DEF EndBootstrap
    <2>2. RequestsInv'
      BY <2>1, FinishKeeps, Unlocked
    <2>3. ASSUME NEW t \in Tables, NEW i \in Ids, rows'[t][i] # None
          PROVE  rows'[t][i] \in RowsOf(t)
      <3>1. CASE t = "settings" /\ i = 1
        BY <1>3, <2>3, <3>1, EndBootstrapStep
      <3>2. CASE ~(t = "settings" /\ i = 1)
        BY <1>3, <2>3, <3>2, EndBootstrapStep DEF TypeOK, Exists
      <3>. QED
        BY <3>1, <3>2
    <2>4. TypeOK'
      BY <1>3, <2>1, <2>3, FinishKeeps, EndBootstrapStep DEF TypeOK, Exists
    <2>. QED
      BY <2>2, <2>4
  <1>4. CASE Fails(s)
    <2>1. Finish(s) /\ UNCHANGED <<rows, mixed, collided>>
          /\ writer' = IF writer = s THEN None ELSE writer
      BY <1>4 DEF Fails
    <2>2. TypeOK'
      BY <2>1, FinishKeeps DEF TypeOK, Exists
    <2>3. writer' # None => writer' = writer /\ request'[writer] = request[writer]
      BY <2>1, FinishKeeps DEF TypeOK
    <2>4. RequestsInv'
      BY <2>1, <2>3, FinishKeeps DEF RequestsInv, RequestOK, Exists
    <2>. QED
      BY <2>2, <2>4
  <1>. QED
    BY <1>1, <1>2, <1>3, <1>4

LEMMA IInvInductive == IInv /\ [Next]_vars => IInv'
  <1> SUFFICES ASSUME IInv, [Next]_vars PROVE IInv'
    OBVIOUS
  <1>1. CASE Restart
    BY <1>1 DEF Restart, IInv, TypeOK, RequestsInv, Exists
  <1>2. CASE UNCHANGED vars
    BY <1>2 DEF vars, IInv, TypeOK, RequestsInv, RequestOK, Exists
  <1>. QED
    BY <1>1, <1>2, NextCases, AsksKeeps, CommitsKeep, BootstrapKeeps DEF IInv

LEMMA Invariant == Spec => []IInv
  <1>1. Init => IInv
    <2> SUFFICES ASSUME Init PROVE IInv
      OBVIOUS
    <2>1. PICK n \in 0..MaxId :
            rows = [t \in Tables |-> [i \in Ids |->
                      IF t = "links" /\ i <= n THEN NewLink ELSE None]]
      BY DEF Init
    <2>2. NewLink \in AnyRow /\ NewLink \in RowsOf("links")
      BY NewLinkType, RowsAreRows DEF Tables
    <2>3. rows \in [Tables -> [Ids -> AnyRow \cup {None}]]
      BY <2>1, <2>2
    <2>4. \A t \in Tables, i \in Ids : Exists(t, i) => rows[t][i] \in RowsOf(t)
      BY <2>1, <2>2 DEF Exists
    <2>5. asked \in 0..MaxRequests
      BY RecordsAssumption DEF Init
    <2>. QED
      BY <2>3, <2>4, <2>5 DEF Init, IInv, TypeOK, RequestsInv
  <1>. QED
    BY <1>1, IInvInductive, PTL DEF Spec

(* Every table keeps the columns of its rows, and every request its kind.       *)
THEOREM TypeCorrect == Spec => []TypeOK
  BY Invariant, PTL DEF IInv

--------------------------------------------------------------------------------
(* A column changes only when a request that assigns it is committed: no commit  *)
(* undoes another one's (wan_links.py:206-249 and 294-303, worker.py:89-97,      *)
(* settings_store.py:12-22).                                                    *)
THEOREM NothingIsUndone == Spec => NoCommitIsUndone
  <1> DEFINE Kept ==
        \A t \in Tables, i \in Ids :
          Exists(t, i) /\ rows'[t][i] # None =>
            \A c \in Columns[t] :
              rows'[t][i][c] # rows[t][i][c] => \E s \in Sessions : AssignedBy(s, t, i, c)
  <1>1. ASSUME rows' = rows PROVE Kept
    BY <1>1
  <1>2. ASSUME IInv, NEW s \in Sessions, CommitUpdate(s) PROVE Kept
    <2> SUFFICES ASSUME NEW t \in Tables, NEW i \in Ids, NEW c \in Columns[t],
                        Exists(t, i), rows'[t][i][c] # rows[t][i][c]
                 PROVE  AssignedBy(s, t, i, c)
      OBVIOUS
    <2> DEFINE r == request[s]
    <2>1. TypeOK /\ RequestsInv
      BY <1>2 DEF IInv
    <2>2. /\ r \in Updates /\ RequestOK(r)
          /\ t = r.table /\ i = r.id
          /\ rows'[t][i] = Written(rows[t][i], r)
      BY <1>2, <2>1, CommitUpdateStep
    <2>3. rows[t][i] \in RowsOf(t)
      BY <2>1 DEF TypeOK
    <2>4. r # None /\ r.kind = "update"
      BY <1>2 DEF CommitUpdate
    <2>5. r.read \in RowsOf(t) /\ r.wanted \in RowsOf(t)
          /\ (c \notin r.sets => r.wanted[c] = r.read[c])
      BY <2>2, <2>4 DEF RequestOK
    <2>6. rows'[t][i][c] = IF r.wanted[c] # r.read[c] THEN r.wanted[c] ELSE rows[t][i][c]
      BY <2>2, <2>3, <2>5, WrittenRow
    <2>7. request'[s] = None
      BY <1>2, <2>1, FinishKeeps DEF CommitUpdate
    <2>. QED
      BY <2>2, <2>4, <2>5, <2>6, <2>7 DEF AssignedBy
  <1>3. ASSUME IInv, NEW s \in Sessions, CommitInsert(s) PROVE Kept
    <2>1. PICK t \in {"links", "alerts", "notes"}, i \in Ids : \E row \in RowsOf(t) :
            ~Exists(t, i) /\ rows' = [rows EXCEPT ![t][i] = row]
      BY <1>3, CommitInsertStep DEF IInv
    <2>. QED
      BY <1>3, <2>1 DEF IInv, TypeOK, Exists
  <1>4. ASSUME IInv, NEW s \in Sessions, CommitDelete(s) PROVE Kept
    BY <1>4, CommitDeleteStep DEF IInv
  <1>5. ASSUME IInv, NEW s \in Sessions, EndBootstrap(s) PROVE Kept
    BY <1>5, EndBootstrapStep DEF IInv
  <1>6. Asks \/ Restart \/ UNCHANGED vars => rows' = rows
    BY DEF Asks, Ask, Restart, vars
  <1>7. \A s \in Sessions : Flush(s) \/ Fails(s) => rows' = rows
    BY DEF Flush, Fails
  <1>8. IInv /\ [Next]_vars => [Kept]_vars
    BY <1>1, <1>2, <1>3, <1>4, <1>5, <1>6, <1>7, NextCases DEF IInv
  <1>. QED
    BY <1>8, Invariant, PTL DEF Spec, NoCommitIsUndone

--------------------------------------------------------------------------------
Whole == Choices \cup {Selection(NewLink)}

LEMMA SelectionInductive == IInv /\ SelectionIsWhole /\ [Next]_vars => SelectionIsWhole'
  <1> SUFFICES ASSUME IInv, SelectionIsWhole, [Next]_vars PROVE SelectionIsWhole'
    OBVIOUS
  <1> DEFINE Inv(l) == Exists("links", l) /\ ~mixed[l] => Selection(rows["links"][l]) \in Whole
  <1>0. /\ \A l \in Ids : Inv(l)
        /\ "links" \in Tables
    BY DEF SelectionIsWhole, Whole, Tables
  <1>1. ASSUME UNCHANGED <<rows, mixed>> PROVE SelectionIsWhole'
    BY <1>1 DEF SelectionIsWhole, Exists
  <1>2. ASSUME NEW s \in Sessions, CommitUpdate(s) PROVE SelectionIsWhole'
    <2> SUFFICES ASSUME NEW l \in Ids, Exists("links", l)', ~mixed'[l]
                 PROVE  Selection(rows'["links"][l]) \in Whole
      BY DEF SelectionIsWhole, Whole
    <2> DEFINE r == request[s]
    <2>1. /\ r \in Updates /\ RequestOK(r)
          /\ IF r.table = "links" /\ l = r.id /\ Exists("links", l)
             THEN rows'["links"][l] = Written(rows["links"][l], r)
             ELSE rows'["links"][l] = rows["links"][l]
      BY <1>0, <1>2, CommitUpdateStep DEF IInv
    <2>2. CASE r.table = "links" /\ l = r.id /\ Exists("links", l)
      <3>1. rows["links"][l] \in RowsOf("links")
        BY <1>0, <2>2 DEF IInv, TypeOK
      <3>2. /\ r.read \in RowsOf("links") /\ r.wanted \in RowsOf("links")
            /\ IF "index" \in r.sets THEN Selection(r.wanted) \in Choices
               ELSE Selection(r.wanted) = Selection(r.read)
        BY <1>2, <2>1, <2>2 DEF RequestOK, CommitUpdate
      <3>3. \A c \in {"index", "ip"} :
              rows'["links"][l][c] = IF r.wanted[c] # r.read[c] THEN r.wanted[c]
                                     ELSE rows["links"][l][c]
        BY <1>0, <2>1, <2>2, <3>1, <3>2, WrittenRow DEF Columns
      <3>4. CASE "index" \in r.sets
        <4>1. Selection(rows["links"][l]) = Selection(r.read)
          BY <1>2, <2>2, <3>4 DEF CommitUpdate, IInv, TypeOK
        <4>2. \A c \in {"index", "ip"} : rows["links"][l][c] = r.read[c]
          BY <4>1 DEF Selection
        <4>3. Selection(rows'["links"][l]) = Selection(r.wanted)
          BY <3>3, <4>2 DEF Selection
        <4>. QED
          BY <3>2, <3>4, <4>3 DEF Whole
      <3>5. CASE "index" \notin r.sets
        <4>1. \A c \in {"index", "ip"} : r.wanted[c] = r.read[c]
          BY <3>2, <3>5 DEF Selection
        <4>2. Selection(rows'["links"][l]) = Selection(rows["links"][l])
          BY <3>3, <4>1 DEF Selection
        <4>3. mixed' = mixed
          BY <1>2, <3>5 DEF CommitUpdate
        <4>. QED
          BY <1>0, <2>2, <4>2, <4>3
      <3>. QED
        BY <3>4, <3>5
    <2>3. CASE ~(r.table = "links" /\ l = r.id /\ Exists("links", l))
      <3>1. rows'["links"][l] = rows["links"][l] /\ Exists("links", l)
        BY <2>1, <2>3 DEF Exists
      <3>2. mixed'[l] = mixed[l]
        BY <1>2, <2>3, <3>1 DEF CommitUpdate, IInv, TypeOK
      <3>. QED
        BY <1>0, <3>1, <3>2
    <2>. QED
      BY <2>2, <2>3
  <1>3. ASSUME NEW s \in Sessions, CommitInsert(s) PROVE SelectionIsWhole'
    <2>1. PICK t \in {"links", "alerts", "notes"}, i \in Ids : \E row \in RowsOf(t) :
            /\ rows' = [rows EXCEPT ![t][i] = row]
            /\ t = "links" => row = NewLink /\ mixed' = [mixed EXCEPT ![i] = FALSE]
            /\ t # "links" => mixed' = mixed
      BY <1>3, CommitInsertStep DEF IInv
    <2>2. ASSUME NEW l \in Ids PROVE Inv(l)'
      <3>1. CASE t = "links" /\ l = i
        BY <1>0, <2>1, <3>1 DEF IInv, TypeOK, Whole
      <3>2. CASE ~(t = "links" /\ l = i)
        <4>1. rows'["links"][l] = rows["links"][l] /\ mixed'[l] = mixed[l]
          BY <1>0, <2>1, <3>2 DEF IInv, TypeOK
        <4>. QED
          BY <1>0, <4>1 DEF Exists
      <3>. QED
        BY <3>1, <3>2
    <2>. QED
      BY <2>2 DEF SelectionIsWhole, Whole
  <1>4. ASSUME NEW s \in Sessions, CommitDelete(s) PROVE SelectionIsWhole'
    BY <1>0, <1>4, CommitDeleteStep DEF IInv, SelectionIsWhole, Exists, CommitDelete
  <1>5. ASSUME NEW s \in Sessions, EndBootstrap(s) PROVE SelectionIsWhole'
    BY <1>0, <1>5, EndBootstrapStep DEF IInv, SelectionIsWhole, Exists, EndBootstrap
  <1>6. Asks \/ Restart \/ UNCHANGED vars => UNCHANGED <<rows, mixed>>
    BY DEF Asks, Ask, Restart, vars
  <1>7. \A s \in Sessions : Flush(s) \/ Fails(s) => UNCHANGED <<rows, mixed>>
    BY DEF Flush, Fails
  <1>. QED
    BY <1>1, <1>2, <1>3, <1>4, <1>5, <1>6, <1>7, NextCases DEF IInv

(* A link's selection is one interface's, unless selections of it overlapped     *)
(* (wan_links.py:222-227).                                                      *)
THEOREM SelectionsAreWhole == Spec => []SelectionIsWhole
  <1>1. Init => SelectionIsWhole
    <2> SUFFICES ASSUME Init, NEW l \in Ids, Exists("links", l)
                 PROVE  Selection(rows["links"][l]) = Selection(NewLink)
      BY DEF SelectionIsWhole
    <2>. QED
      BY DEF Init, Exists, Tables
  <1>. QED
    BY <1>1, SelectionInductive, Invariant, PTL DEF Spec

--------------------------------------------------------------------------------
(* A row that is still there belongs to the link it belonged to.                *)
LEMMA OwnersLast ==
  ASSUME IInv, [Next]_vars, NEW t \in Children, NEW i \in Ids, Exists(t, i),
         rows'[t][i] # None
  PROVE  rows'[t][i]["link"] = rows[t][i]["link"]
  <1>0. t \in Tables /\ "link" \in Columns[t] /\ t # "settings"
    BY DEF Children, Tables, Columns
  <1>1. ASSUME NEW s \in Sessions, CommitUpdate(s)
        PROVE  rows'[t][i]["link"] = rows[t][i]["link"]
    <2> DEFINE r == request[s]
    <2>1. /\ r \in Updates /\ RequestOK(r) /\ r.kind = "update"
          /\ IF t = r.table /\ i = r.id
             THEN rows'[t][i] = Written(rows[t][i], r)
             ELSE rows'[t][i] = rows[t][i]
      BY <1>0, <1>1, CommitUpdateStep DEF IInv, CommitUpdate
    <2>2. CASE t = r.table /\ i = r.id
      <3>1. "link" \notin r.sets
        BY <2>1 DEF Updates
      <3>2. r.wanted \in RowsOf(t) /\ r.wanted["link"] = r.read["link"]
        BY <1>0, <2>1, <2>2, <3>1 DEF RequestOK
      <3>3. rows[t][i] \in RowsOf(t)
        BY <1>0 DEF IInv, TypeOK
      <3>. QED
        BY <1>0, <2>1, <2>2, <3>2, <3>3, WrittenRow
    <2>. QED
      BY <2>1, <2>2
  <1>2. ASSUME NEW s \in Sessions, CommitInsert(s)
        PROVE  rows'[t][i]["link"] = rows[t][i]["link"]
    <2>1. PICK u \in {"links", "alerts", "notes"}, j \in Ids : \E row \in RowsOf(u) :
            ~Exists(u, j) /\ rows' = [rows EXCEPT ![u][j] = row]
      BY <1>2, CommitInsertStep DEF IInv
    <2>. QED
      BY <1>0, <2>1 DEF IInv, TypeOK, Exists
  <1>3. ASSUME NEW s \in Sessions, CommitDelete(s) \/ EndBootstrap(s)
        PROVE  rows'[t][i]["link"] = rows[t][i]["link"]
    BY <1>0, <1>3, CommitDeleteStep, EndBootstrapStep DEF IInv
  <1>4. Asks \/ Restart \/ UNCHANGED vars => rows' = rows
    BY DEF Asks, Ask, Restart, vars
  <1>5. \A s \in Sessions : Flush(s) \/ Fails(s) => rows' = rows
    BY DEF Flush, Fails
  <1>. QED
    BY <1>1, <1>2, <1>3, <1>4, <1>5, NextCases DEF IInv

(* Only the commit of a deletion removes rows.                                  *)
LEMMA RowsLast ==
  ASSUME IInv, [Next]_vars, NEW t \in Tables, NEW i \in Ids, Exists(t, i),
         rows'[t][i] = None
  PROVE  \E s \in Sessions : CommitDelete(s) /\ i \in Removed(t, request[s])
  <1>1. rows[t][i] \in RowsOf(t) /\ rows[t][i] # None
    BY DEF IInv, TypeOK, Exists
  <1>2. ASSUME NEW s \in Sessions, CommitUpdate(s) PROVE FALSE
    BY <1>1, <1>2, CommitUpdateStep, NoneIsNothing DEF IInv
  <1>3. ASSUME NEW s \in Sessions, CommitInsert(s) PROVE FALSE
    <2>1. PICK u \in {"links", "alerts", "notes"}, j \in Ids : \E row \in RowsOf(u) :
            ~Exists(u, j) /\ rows' = [rows EXCEPT ![u][j] = row]
      BY <1>3, CommitInsertStep DEF IInv
    <2>. QED
      BY <1>1, <2>1 DEF IInv, TypeOK, Exists
  <1>4. ASSUME NEW s \in Sessions, EndBootstrap(s) PROVE FALSE
    BY <1>1, <1>4, EndBootstrapStep DEF IInv, Exists
  <1>5. Asks \/ Restart \/ UNCHANGED vars => rows' = rows
    BY DEF Asks, Ask, Restart, vars
  <1>6. \A s \in Sessions : Flush(s) \/ Fails(s) => rows' = rows
    BY DEF Flush, Fails
  <1>7. PICK s \in Sessions : CommitDelete(s)
    BY <1>1, <1>2, <1>3, <1>4, <1>5, <1>6, NextCases DEF IInv
  <1>. QED
    BY <1>1, <1>7, CommitDeleteStep DEF IInv

(* A deletion that waits was asked for in this step, or waited before it.        *)
LEMMA WaitingDeletion ==
  ASSUME IInv, [Next]_vars, NEW s \in Sessions, request'[s] # None,
         request'[s].kind = "delete"
  PROVE  \/ request'[s] = request[s]
         \/ Mine(request'[s]) /\ rows' = rows
  <1>1. CASE Asks
    <2>1. PICK q \in Sessions, r \in Requests :
            Ask(q, r) /\ (r.kind = "delete" => Mine(r))
      BY <1>1 DEF Asks
    <2>. QED
      BY <2>1 DEF Ask, IInv, TypeOK
  <1>2. ASSUME NEW q \in Sessions, Finish(q) PROVE request'[s] = request[s]
    BY <1>2, FinishKeeps DEF IInv
  <1>3. \A q \in Sessions :
          \/ CommitUpdate(q) \/ CommitInsert(q) \/ CommitDelete(q)
          \/ Flush(q) \/ EndBootstrap(q) \/ Fails(q)
          => Finish(q) \/ request' = request
    BY DEF CommitUpdate, CommitInsert, CommitDelete, Flush, EndBootstrap, Fails
  <1>4. ~Restart
    BY DEF Restart
  <1>5. UNCHANGED vars => request' = request
    BY DEF vars
  <1>. QED
    BY <1>1, <1>2, <1>3, <1>4, <1>5, NextCases DEF IInv

LEMMA DoomedInductive == IInv /\ DoomedRowsAreMine /\ [Next]_vars => DoomedRowsAreMine'
  <1> SUFFICES ASSUME IInv, DoomedRowsAreMine, [Next]_vars, ~collided',
                      NEW s \in Sessions, request'[s] # None, request'[s].kind = "delete"
               PROVE  /\ rows'["links"][request'[s].id] # None
                      /\ \A t \in Children : \A i \in request'[s].rows[t] :
                           rows'[t][i] # None /\ rows'[t][i]["link"] = request'[s].id
    BY DEF DoomedRowsAreMine, Exists
  <1> DEFINE r == request'[s]
  <1>1. CASE Mine(r) /\ rows' = rows
    BY <1>1 DEF Mine, Exists
  <1>2. CASE r = request[s]
    <2>1. ~collided
      <3>1. collided' = collided \/ \E q \in Sessions : CommitDelete(q)
        BY NextCases DEF IInv, Asks, Ask, Restart, vars, CommitUpdate, CommitInsert, Flush,
                         EndBootstrap, Fails
      <3>. QED
        BY <3>1 DEF CommitDelete
    <2>2. Mine(r)
      BY <1>2, <2>1 DEF DoomedRowsAreMine, Mine
    <2>3. r \in Deletions
      <3>1. r \in Requests
        BY <1>2 DEF IInv, TypeOK
      <3>. QED
        BY <3>1 DEF Requests, Updates, Inserts, Deletions, Bootstraps
    <2>4. r.id \in Ids /\ \A t \in Children : r.rows[t] \subseteq Ids
      BY <2>3 DEF Deletions
    <2>5. ASSUME NEW q \in Sessions, CommitDelete(q)
          PROVE  request[q].id # r.id /\ request[q] \in Deletions /\ Mine(request[q])
      <3>1. q # s /\ request[q] # None /\ request[q].kind = "delete"
        BY <2>5, FinishKeeps DEF IInv, CommitDelete
      <3>2. request[q].id # r.id
        BY <1>2, <2>5, <3>1 DEF CommitDelete
      <3>3. Mine(request[q])
        BY <2>1, <3>1 DEF DoomedRowsAreMine, Mine
      <3>. QED
        BY <2>5, <3>2, <3>3, CommitDeleteStep DEF IInv
    <2>6. rows'["links"][r.id] # None
      <3>1. SUFFICES ASSUME rows'["links"][r.id] = None PROVE FALSE
        OBVIOUS
      <3>2. PICK q \in Sessions : CommitDelete(q) /\ r.id \in Removed("links", request[q])
        BY <2>2, <2>4, <3>1, RowsLast DEF Mine, Tables
      <3>. QED
        BY <2>5, <3>2 DEF Removed
    <2>7. ASSUME NEW t \in Children, NEW i \in r.rows[t]
          PROVE  rows'[t][i] # None /\ rows'[t][i]["link"] = r.id
      <3>1. i \in Ids /\ Exists(t, i) /\ rows[t][i]["link"] = r.id
        BY <2>2, <2>4 DEF Mine
      <3>2. rows'[t][i] # None
        <4>1. SUFFICES ASSUME rows'[t][i] = None PROVE FALSE
          OBVIOUS
        <4>2. PICK q \in Sessions : CommitDelete(q) /\ i \in Removed(t, request[q])
          BY <3>1, <4>1, RowsLast DEF Children, Tables
        <4>3. i \in request[q].rows[t]
          BY <4>2 DEF Removed, Children
        <4>. QED
          BY <2>5, <3>1, <4>2, <4>3 DEF Mine
      <3>. QED
        BY <3>1, <3>2, OwnersLast
    <2>. QED
      BY <2>6, <2>7
  <1>. QED
    BY <1>1, <1>2, WaitingDeletion

(* A deletion takes its own link and rows and no others, though ids are used     *)
(* again, unless two deletions of one link overlapped (wan_links.py:81-90).      *)
THEOREM DeletionsTakeTheirOwn == Spec => []DoomedRowsAreMine
  <1>1. Init => DoomedRowsAreMine
    BY DEF Init, DoomedRowsAreMine
  <1>. QED
    BY <1>1, DoomedInductive, Invariant, PTL DEF Spec
================================================================================
