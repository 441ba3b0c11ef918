------------------------------ MODULE LinkRecords ------------------------------
(* The rows of links, alerts, notes and settings under concurrent requests and  *)
(* the worker: what the endpoints of app/api/wan_links.py and app/api/admin.py, *)
(* get_or_create_settings and the worker's alerts read in one transaction and   *)
(* commit in another.                                                           *)
(*                                                                              *)
(* A handler loads a row, changes attributes of the object and commits.  The    *)
(* session then writes the columns whose value differs from the one it read,    *)
(* and those alone.  SQLite reads without a lock and lets one session write; a  *)
(* flush takes that lock and a commit or a rollback gives it back.  What the    *)
(* worker does between a ping's return and its commit, and its tick, run on the *)
(* event loop, one at a time: they are one session here.                        *)
EXTENDS AlertEngine

CONSTANTS
  Threads,          \* threads that serve requests
  Worker,           \* the session of the worker
  MaxId,            \* ids of a table are 1..MaxId; bounds the inserts
  Choices,          \* what discovery stored for a link: [index, ip]
  Payloads,         \* the pairs of intervals the two endpoints may be sent
  Users,            \* who acknowledges
  Defaults,         \* the settings of the environment
  MaxRequests       \* requests that are made; bounds Ask

Tables   == {"links", "alerts", "notes", "settings"}
Children == {"alerts", "notes"}
Columns  ==
  [links    |-> {"index", "ip", "icmp", "snmp"},
   alerts   |-> {"link", "ended", "acked"},
   notes    |-> {"link"},
   settings |-> {"icmp", "snmp"}]

Ids       == 1..MaxId
Sessions  == Threads \cup {Worker}
Values    == Nat \cup {None}
RowsOf(t) == [Columns[t] -> Values]
AnyRow    == RowsOf("links") \cup RowsOf("alerts") \cup RowsOf("notes") \cup RowsOf("settings")

(* What a session has read and will commit.                                     *)
Updates    == [kind : {"update"}, table : {"links", "alerts", "settings"}, id : Ids,
               sets : SUBSET {"index", "ip", "icmp", "snmp", "ended", "acked"},
               read : AnyRow, wanted : AnyRow]
Inserts    == [kind : {"insert"}, table : {"links", "alerts", "notes"}, row : AnyRow]
Deletions  == [kind : {"delete"}, id : Ids, rows : [Children -> SUBSET Ids]]
Bootstraps == [kind : {"bootstrap"}, row : RowsOf("settings"), kept : BOOLEAN]
Requests   == Updates \cup Inserts \cup Deletions \cup Bootstraps

ASSUME RecordsAssumption ==
  /\ Worker \notin Threads
  /\ MaxId \in Nat \ {0}
  /\ Choices \subseteq [{"index", "ip"} -> Values]
  /\ Payloads \subseteq [{"icmp", "snmp"} -> Values]
  /\ Users \subseteq Nat
  /\ Defaults \in Payloads
  /\ MaxRequests \in Nat
  /\ None \notin Sessions \cup AnyRow \cup Requests

VARIABLES
  rows,             \* rows[t][i]: the committed row of table t with id i, or None
  request,          \* request[s]: what session s has read and will commit, or None
  writer,           \* the session that holds the write lock over a flush, or None
  asked,            \* requests made so far
  mixed,            \* mixed[l]: a selection was committed over another one (history)
  collided          \* two deletions of one link have overlapped (history)

vars == <<rows, request, writer, asked, mixed, collided>>

Exists(t, i)   == rows[t][i] # None
Selection(row) == [c \in {"index", "ip"} |-> row[c]]

(* A link has no interface and no intervals of its own at first.                *)
NewLink == [c \in Columns["links"] |-> None]

Then           == 0     \* a timestamp: which one makes no difference

--------------------------------------------------------------------------------
Init ==
  /\ \E n \in 0..MaxId :
       rows = [t \in Tables |-> [i \in Ids |->
                 IF t = "links" /\ i <= n THEN NewLink ELSE None]]
  /\ request = [s \in Sessions |-> None]
  /\ writer = None
  /\ asked = 0
  /\ mixed = [l \in Ids |-> FALSE]
  /\ collided = FALSE

(* A session has read what it needs and holds the request until its commit.     *)
Ask(s, r) ==
  /\ request[s] = None
  /\ asked < MaxRequests
  /\ request' = [request EXCEPT ![s] = r]
  /\ asked' = asked + 1
  /\ UNCHANGED <<rows, writer, mixed, collided>>

(* An object was loaded and columns of it were assigned.                        *)
Update(t, i, assigned) ==
  [kind |-> "update", table |-> t, id |-> i, sets |-> DOMAIN assigned,
   read |-> rows[t][i],
   wanted |-> [c \in Columns[t] |-> IF c \in DOMAIN assigned THEN assigned[c]
                                    ELSE rows[t][i][c]]]

Insert(t, row) == [kind |-> "insert", table |-> t, row |-> row]

--------------------------------------------------------------------------------
(* The endpoints.  The mutant of Chosen keeps the stored address when the       *)
(* interface has none.                                                          *)
Chosen_KeepsAddress(l, choice) ==
  IF choice["ip"] = None THEN [c \in {"index"} |-> choice[c]] ELSE choice
Chosen(l, choice) == choice

SelectInterface(s, l, choice) ==
  /\ Exists("links", l)
  /\ Ask(s, Update("links", l, Chosen(l, choice)))

UpdatePollingIntervals(s, l, payload) ==
  /\ Exists("links", l)
  /\ Ask(s, Update("links", l, payload))

AcknowledgeAlert(s, l, a, user) ==
  /\ Exists("alerts", a)
  /\ rows["alerts"][a]["link"] = l
  /\ Ask(s, Update("alerts", a, [c \in {"acked"} |-> user]))

AddNote(s, l) ==
  /\ Exists("links", l)
  /\ Ask(s, Insert("notes", [c \in {"link"} |-> l]))

CreateWanLink(s) == Ask(s, Insert("links", NewLink))

(* delete_wan_link: db.delete reads the rows the cascade will remove.  The      *)
(* mutant reads those of every link.                                            *)
ChildrenOf_Every(t, l) == {i \in Ids : Exists(t, i)}
ChildrenOf(t, l) == {i \in Ids : Exists(t, i) /\ rows[t][i]["link"] = l}

DeleteWanLink(s, l) ==
  /\ Exists("links", l)
  /\ Ask(s, [kind |-> "delete", id |-> l, rows |-> [t \in Children |-> ChildrenOf(t, l)]])

(* get_or_create_settings finds the row, or adds the one of the environment,    *)
(* which the caller changes, commits or drops.                                  *)
Bootstrap(s, row, kept) ==
  /\ ~Exists("settings", 1)
  /\ Ask(s, [kind |-> "bootstrap", row |-> row, kept |-> kept])

ReadSettings(s) == Bootstrap(s, Defaults, FALSE)

UpdateSettings(s, payload) ==
  \/ Bootstrap(s, payload, TRUE)
  \/ Exists("settings", 1) /\ Ask(s, Update("settings", 1, payload))

(* The worker: the tick's bootstrap, and the alerts of a poll, which writes     *)
(* under the id it was started for, whatever has become of the link.            *)
TickBootstraps == Bootstrap(Worker, Defaults, TRUE)

OpenAlert(l) ==
  /\ \A a \in ChildrenOf("alerts", l) : rows["alerts"][a]["ended"] # None
  /\ Ask(Worker, Insert("alerts",
       [c \in Columns["alerts"] |-> IF c = "link" THEN l ELSE None]))

CloseAlert(l) ==
  \E a \in ChildrenOf("alerts", l) :
    /\ rows["alerts"][a]["ended"] = None
    /\ Ask(Worker, Update("alerts", a, [c \in {"ended"} |-> Then]))

--------------------------------------------------------------------------------
(* The session's commit of an update.  The mutant writes the whole row.         *)
Written_WholeRow(current, r) == r.wanted
Written(current, r) ==
  [c \in DOMAIN current |-> IF r.wanted[c] # r.read[c] THEN r.wanted[c] ELSE current[c]]

Finish(s) ==
  /\ request' = [request EXCEPT ![s] = None]
  /\ UNCHANGED asked

(* A row that is gone makes the commit raise, and nothing is written.           *)
CommitUpdate(s) ==
  LET r == request[s]
  IN  /\ r # None /\ r.kind = "update"
      /\ writer = None
      /\ IF Exists(r.table, r.id)
         THEN /\ rows' = [rows EXCEPT ![r.table][r.id] = Written(@, r)]
              /\ mixed' = IF r.table = "links" /\ "index" \in r.sets
                          THEN [mixed EXCEPT ![r.id] =
                                  Selection(rows["links"][r.id]) # Selection(r.read)]
                          ELSE mixed
         ELSE UNCHANGED <<rows, mixed>>
      /\ Finish(s)
      /\ UNCHANGED <<writer, collided>>

(* SQLite gives a new row the id after the largest in use.                      *)
IsNextId(t, i) ==
  /\ \A j \in Ids : Exists(t, j) => j < i
  /\ i > 1 => Exists(t, i - 1)

CommitInsert(s) ==
  LET r == request[s]
  IN  /\ r # None /\ r.kind = "insert"
      /\ writer = None
      /\ \E i \in Ids :
           /\ IsNextId(r.table, i)
           /\ rows' = [rows EXCEPT ![r.table][i] = r.row]
           /\ mixed' = IF r.table = "links" THEN [mixed EXCEPT ![i] = FALSE] ELSE mixed
      /\ Finish(s)
      /\ UNCHANGED <<writer, collided>>

(* The commit of a deletion removes the rows that were read; one that is gone    *)
(* already makes no difference.                                                 *)
Removed(t, r) == IF t = "links" THEN {r.id} ELSE IF t \in Children THEN r.rows[t] ELSE {}

CommitDelete(s) ==
  LET r == request[s]
  IN  /\ r # None /\ r.kind = "delete"
      /\ writer = None
      /\ rows' = [t \in Tables |-> [i \in Ids |->
                    IF i \in Removed(t, r) THEN None ELSE rows[t][i]]]
      /\ collided' = (collided \/ \E q \in Sessions \ {s} :
                        request[q] # None /\ request[q].kind = "delete" /\ request[q].id = r.id)
      /\ Finish(s)
      /\ UNCHANGED <<writer, mixed>>

(* The flush of a new settings row takes the lock; it raises if there is a row   *)
(* by now.                                                                      *)
Flush(s) ==
  /\ request[s] # None /\ request[s].kind = "bootstrap"
  /\ writer = None
  /\ IF Exists("settings", 1) THEN Finish(s) /\ UNCHANGED writer
     ELSE writer' = s /\ UNCHANGED <<request, asked>>
  /\ UNCHANGED <<rows, mixed, collided>>

EndBootstrap(s) ==
  /\ request[s] # None /\ request[s].kind = "bootstrap"
  /\ writer = s
  /\ rows' = IF request[s].kept THEN [rows EXCEPT !["settings"][1] = request[s].row] ELSE rows
  /\ writer' = None
  /\ Finish(s)
  /\ UNCHANGED <<mixed, collided>>

(* A request fails or waits too long for the lock, and is rolled back.           *)
Fails(s) ==
  /\ request[s] # None
  /\ writer' = IF writer = s THEN None ELSE writer
  /\ Finish(s)
  /\ UNCHANGED <<rows, mixed, collided>>

(* The process stops or crashes and starts again.                               *)
Restart ==
  /\ request' = [s \in Sessions |-> None]
  /\ writer' = None
  /\ UNCHANGED <<rows, asked, mixed, collided>>

Next ==
  \/ \E s \in Threads :
       \/ CreateWanLink(s)
       \/ ReadSettings(s)
       \/ \E payload \in Payloads : UpdateSettings(s, payload)
       \/ \E l \in Ids :
            \/ \E choice \in Choices : SelectInterface(s, l, choice)
            \/ \E payload \in Payloads : UpdatePollingIntervals(s, l, payload)
            \/ \E a \in Ids, user \in Users : AcknowledgeAlert(s, l, a, user)
            \/ AddNote(s, l)
            \/ DeleteWanLink(s, l)
  \/ TickBootstraps
  \/ \E l \in Ids : OpenAlert(l) \/ CloseAlert(l)
  \/ \E s \in Sessions :
       \/ CommitUpdate(s)
       \/ CommitInsert(s)
       \/ CommitDelete(s)
       \/ Flush(s)
       \/ EndBootstrap(s)
       \/ Fails(s)
  \/ Restart

Spec == Init /\ [][Next]_vars

--------------------------------------------------------------------------------
TypeOK ==
  /\ rows \in [Tables -> [Ids -> AnyRow \cup {None}]]
  /\ \A t \in Tables, i \in Ids : Exists(t, i) => rows[t][i] \in RowsOf(t)
  /\ request \in [Sessions -> Requests \cup {None}]
  /\ writer \in Sessions \cup {None}
  /\ asked \in 0..MaxRequests
  /\ mixed \in [Ids -> BOOLEAN]
  /\ collided \in BOOLEAN

(* No commit undoes another one's: a column of a row changes only when a request *)
(* that assigns it is committed, and to the value it assigns.  An end survives   *)
(* an acknowledgement read before it, an administrator's settings survive a      *)
(* bootstrap, a link's selection survives a change of its intervals              *)
(* (wan_links.py:206-249 and 294-303, worker.py:89-97, settings_store.py:12-22). *)
AssignedBy(s, t, i, c) ==
  LET r == request[s]
  IN  /\ r # None /\ r.kind = "update"
      /\ r.table = t /\ r.id = i /\ c \in r.sets
      /\ rows'[t][i][c] = r.wanted[c]
      /\ request'[s] = None

NoCommitIsUndone ==
  [][\A t \in Tables, i \in Ids :
       Exists(t, i) /\ rows'[t][i] # None =>
         \A c \in Columns[t] :
           rows'[t][i][c] # rows[t][i][c] => \E s \in Sessions : AssignedBy(s, t, i, c)]_vars

(* The selected interface of a link is one interface: its columns come from one  *)
(* choice, unless two selections of it have overlapped (wan_links.py:222-227).   *)
SelectionIsWhole ==
  \A l \in Ids : Exists("links", l) /\ ~mixed[l] =>
    Selection(rows["links"][l]) \in Choices \cup {Selection(NewLink)}

(* Whatever is committed between the two halves of a deletion, its link is still *)
(* there and what it will remove is of that link, though ids are used again: a   *)
(* deletion never takes a row of another link, unless two deletions of one link  *)
(* have overlapped (wan_links.py:81-90).                                        *)
DoomedRowsAreMine ==
  ~collided =>
    \A s \in Sessions : request[s] # None /\ request[s].kind = "delete" =>
      /\ Exists("links", request[s].id)
      /\ \A t \in Children : \A i \in request[s].rows[t] :
           Exists(t, i) /\ rows[t][i]["link"] = request[s].id
================================================================================
