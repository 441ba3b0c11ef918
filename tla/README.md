# A verification project for Frampol NOC

Frampol NOC is a FastAPI application that keeps an inventory of customers' WAN
links and monitors them: it pings their targets (ICMP), reads the octet counters
of one interface of their router (SNMP), stores measurements, and opens and
closes alerts. This directory holds TLA+ models of its monitoring and of the health
it shows, of the discovery of interfaces, of the records that requests and the worker
share, of the geographic inventory with its migration and of the onboarding page, TLC
configurations that check them on small instances, and TLAPS proofs about them for
every instance. Line numbers refer to the source as it is in this repository;
`worker.py` stands for `src/app/monitoring/worker.py`, and so on.

## 1. The system

### How it runs

One process. One asyncio event loop runs the worker's tick, the poll coroutines
and the endpoints written as `async def` (discover, ping-now, poll-now): code
between two awaits is atomic with respect to the other coroutines. Endpoints
written as plain `def` (all others) run in a thread pool and really run at the
same time as everything else; they meet the loop only in the database. The
database is SQLite by default: foreign keys are not enforced, a session reads
committed rows without a snapshot that outlives the statement, sessions do not
flush by themselves (`autoflush=False`), a commit writes the columns whose value
differs from the one that was read, one session at a time may write, and a deleted
row's id is given out again when it was the largest. The pages are scripts in a
browser: a handler runs to its next await, and the answers of the server come in
any order.

### Components

| component | state | operations | what makes it correct |
|---|---|---|---|
| Alert engine (`alert_engine.py`), scheduling (`scheduling.py`) | none | one decision per alert type; the effective interval | an alert opens and closes on transitions only |
| ICMP client (`icmp_client.py`) | one child process per ping | run ping, read its output, kill it when it overruns | reachable exactly if something answered; latency and jitter come from replies |
| ICMP worker (`worker.py` 126-204, 318-382) | `_locks`, `_background_tasks`, `poll_states`, `measurements`, `alerts` | tick, poll, start, stop | one poll per target at a time; at most one open alert per type; alerts, health flag and newest result agree; outages are raised and cleared |
| SNMP worker (`worker.py` 207-315, `calculations.py`) | the same tables; the counter baseline and the breach start in `poll_states` | tick, poll, record a failed attempt | a rate is the traffic between two samples over the time between them; the sustained alert is earned; the cadence holds for failing devices |
| SNMP client (`snmp_client.py`) | none | poll counters, discover interfaces | one kind of counter per answer |
| WAN link API (`wan_links.py`) | `wan_links` and all that hangs on it | create, delete, discover, select interface, set intervals, ping-now, poll-now, acknowledge, notes | nothing of a deleted link is left; a selected interface is one that was discovered |
| Settings (`settings_store.py`, `admin.py`) | the row `system_settings` 1 | read or bootstrap, update | exactly one row |
| Health, dashboard (`health.py`, `dashboard.py`) | none | compute health, newest metrics, summary | health follows from flag, alerts and measurements |
| Geographic inventory (`inventory.py`) | countries, cities, suburbs, branches, customers, ISPs | create, list, tree | references resolve without foreign keys; a place exists once; the tree shows every branch |
| Migrations (`alembic/`) | the schema and its data | upgrade, downgrade | no place or branch is lost or merged wrongly |
| Onboarding wizard (`onboarding.html`) | the page's step, choices and lists; requests in flight | choose and create customer, place and branch; next, back, discover, select, finish | the link is made once, under a branch of the place chosen, and the page shows what the server polls |
| Authentication, pages, application shell | session cookie, configuration | login, display, start and stop | - |

### How they interact

The tick reads `wan_links`, `poll_states` and the settings, and spawns a task for
every poll that is due. A poll takes a lock named after kind and id, reads the
link, waits for the device, and then writes its measurement, the poll state and
the alerts in one commit. Ping Now and Poll SNMP Now await the same coroutines.
The API threads change and delete the rows these coroutines work on, between
their awaits; the health computation and the pages read what they wrote. A discovery
walks the device's tables on the loop and stores interfaces, of which the engineer
selects one; the SNMP polls then read that one. Links hang under branches, which the
inventory's requests insert without a lock between their checks and their inserts.
The onboarding page asks the inventory for places and branches, and then for the link,
its discovery and its selection, one request for each click.

### What is hard about it

* A poll reads its link, waits for seconds, and writes under the link's id,
  whatever became of the link meanwhile: deletion, reuse of the id, another
  selected interface.
* A deletion reads the rows it will remove, and removes these and no others.
* One timestamp and two counters make up the baseline of the rates; failures,
  partial answers, reboots, wraps, restarts and other counter widths all
  have to leave the three in step.
* The alert rows, `poll_states.is_down` and the breach start are three records of
  one history.
* Polls may fail, hang or raise, and the process may restart at any await; the
  schedule must neither stop nor overrun.
* A discovery reads a device column by column, in several walks, while the device is
  reconfigured and the link is deleted.
* The migration merges cities, and thereby suburbs, that were told apart by customer
  before, while branches refer to both and the database checks no foreign key.
* Names are compared by Python's `lower`, by SQLite's and by constraints that compare
  exactly, and a request checks and inserts in two transactions.
* Requests and the worker read a row, and commit it later over what others committed
  meanwhile; a health is read in three queries, between which polls commit.
* The onboarding page can be clicked, gone back over and changed while its questions are
  unanswered; requests fail, are refused or are served without an answer.

The list of hazards, each at its line and with the properties that cover it, is
in `PROJECT.json`.

## 2. The modules

    AlertEngine ──┬── IcmpMonitor ──┬── Health ──── MCHealth, HealthProofs
                  │        │        └── MCIcmpMonitor, IcmpMonitorProofs
                  │        └─ implements OutageLog
                  ├── SnmpMonitor ──── MCSnmpMonitor, SnmpMonitorProofs
    Counters ─────│────────┘
                  └── LinkRecords ──── MCLinkRecords, LinkRecordsProofs
    IcmpClient ──── MCIcmpClient, IcmpClientProofs
    Discovery ───── MCDiscovery, DiscoveryProofs
    GeoMigration ── Geography ──── MCGeography, GeographyProofs
    BranchPicker ── Onboarding ─── MCOnboarding, OnboardingProofs

| module | models | how |
|---|---|---|
| `AlertEngine` | `alert_engine.py`, `scheduling.py` | one operator per function; messages left out |
| `Counters` | `calculations.py` | one operator per function; the counter widths are constants; rates rounded down |
| `IcmpClient` | `icmp_client.py` | one run of ping: an action per echo request, then the end of the process; the text is reduced to what the two regular expressions distinguish |
| `IcmpMonitor` | ICMP half of `worker.py`, and of `wan_links.py` the operations that meet it; the settings update | see below |
| `OutageLog` | what the outage alerts promise | abstract: outages alternate with recovery records, and are forgotten by deletion only |
| `SnmpMonitor` | SNMP half of `worker.py`, `_poll_sync` of `snmp_client.py`, select-interface, poll-now | see below |
| `Discovery` | the walks and `build_interfaces` of `snmp_client.py`; discover, select-interface and delete of `wan_links.py` | see below |
| `GeoMigration` | the data migration `8610f8c7c2c6` | its six steps as operators on tables, which are functions from ids to rows |
| `Geography` | `inventory.py` over the tables that the migration leaves, and the migration as actions | see below |
| `Health` | `compute_health` and the pages and endpoints that answer it, beside `IcmpMonitor` | see below |
| `LinkRecords` | the endpoints of `wan_links.py` and `admin.py`, the settings row and the worker's alerts as sessions: what is read, and what is committed later | see below |
| `BranchPicker`, `Onboarding` | `onboarding.html` with the endpoints it calls: step 1; and with it the steps to the review | see below |
| `...Proofs` | theorems | |
| `MC...` | bounds for TLC | |

### IcmpMonitor

Ages instead of timestamps: `pollState[l].age` counts the ticks since
`last_icmp_poll_at`, up to the longest interval, beyond which nothing depends on
it. Only alert rows with `ended_at` NULL are counted (`openRows`), and whether
there is a `wan_recovered` row; of the measurements only the newest ICMP row is
kept. Actions and code:

| action | code |
|---|---|
| `Tick` | `_tick`, one task for each due link; runs at any moment, so nothing depends on the five seconds |
| `RunTask`, `PingNow` with `BeginPoll` | a poll up to `await icmp_client.ping` |
| `PollCompletes` with `RecordResult` | from the return of ping to the commit |
| `PollFails` | ping raises, or the commit raises because a deletion removed the poll state |
| `CreateLink`, `UpdatePollingInterval`, `UpdateSettings` | the endpoints |
| `BeginDelete`, `ReadCascade`, `CommitDelete` | `db.delete` reads the rows of the cascade, one table after the other in the order of `Cascade` (measurements, alerts, poll state); the commit removes what was read (`Doomed`). Rows a poll inserts after their table was read are not doomed, rows it updates are |
| `Restart` | the process ends, in any way, and starts again |
| `Elapse`, `DeviceChanges` | time; the network |

`inherited` is a history variable: the id of this link came with rows of a link
that was deleted. Of one link at most one deletion runs at a time in this module;
deletions of one link that overlap are in `LinkRecords` and `Discovery`.

### SnmpMonitor

One link, as SNMP polls of different links share nothing but the loop (the ICMP
model has several). The device is part of the model: it carries `load`, counts it
in 64-bit counters (of which the 32-bit ones are the low part), reboots, answers
always, sometimes or never. An answer has the 64-bit counters of some directions and
the 32-bit counters of some (`Answers`), so the kind of counter changes from poll to poll,
and counters may be left out. History variables say what the stored octets stand for: `sample[d]` holds the
interface they were read from, their age, what the interface really carried
since, and whether the device rebooted since.

| action | code |
|---|---|
| `Tick`, `RunTask`, `PollNow` with `BeginPoll` | the tick's SNMP half; a poll up to its await, where an unusable credential is recorded as a failed attempt |
| `PollAnswers` with `RecordRate`, `RecordBaseline` | from the answer to the commit: the rate if both directions have a stored and a new value, the baseline, the sustained-utilisation alert; nothing at all if a value does not fit its column |
| `PollFails` with `RecordFailedAttempt` | the client raises |
| `SelectInterface` | the endpoint |
| `Restart` | as above; the encryption key may differ afterwards |
| `Elapse`, `DeviceChanges`, `LoadChanges`, `DeviceReboots` | time, network and device |

Time is counted in ticks of a length that is left open, with the convention that a
tick lies between the last recorded attempt and an answer; the code computes no
rate otherwise (`elapsed > 0`). Steps of the wall clock backwards are not modelled.

### Discovery

One link id, with discoveries on the event loop, and selections and deletions on other
threads, all at once. What follows the last walk of a discovery is one step, as the loop
does nothing else meanwhile. A selection is three, since it loads the link, looks for the
interface and commits in transactions that nothing holds together; a deletion is two, and
deletions may overlap. The device is a record of what it has at each
`ifIndex`, which of its ports have a row in the ifXTable, and its address table in the
order of the walk, where a malformed row has `None`. A discovery is a record of the
columns it has read, `session` the selections and deletions under way. `returned` (indices
that discoveries have returned for this link), `foreign` (indices an earlier link of the id
has left to this one), `steady` (no change of the device and no unanswered walk since the
discovery began) and `mine` (the link is still the one that was asked for, or that was read)
are history.

| action | code |
|---|---|
| `Discover` | `discover_interfaces` up to its await (`wan_links.py` 148) |
| `WalkDescr`, `WalkNames`, `WalkAddresses` | the walks of `_discover_sync`; each waits for the device. The last two are optional and go on without rows |
| `WalkFails` | a walk of the ifTable is not answered, or finds nothing |
| `Store` with `Built`, `IpOf`, `Stored` | from the last walk to the commit: merge by `ifIndex`, insert or update each interface, keep the others |
| `StoreFails` | the commit raises |
| `LoadLink`, `FindInterface`, `CommitSelection` | `select_interface`: the link is loaded (210), the interface looked up (214), the row with the id updated (227), whichever link has it by then |
| `BeginDelete`, `CommitDelete` with `Hits` | `delete_wan_link`: the rows are read, and what has their ids at the commit is removed |
| `SessionFails` | the interface is not found, or the commit raises |
| `CreateLink` | `create_wan_link`; the id is used again |
| `DeviceChanges` | interfaces are renumbered, added or removed |

### Health

`IcmpMonitor` with one request that reads meanwhile. `request` holds the query that
`compute_health` is at, and the extremes of the link's health since the request began
(history), where a link's health is what the three queries would give if nothing were
committed between them.

| action | code |
|---|---|
| every action of `IcmpMonitor`, with `Observe` | the monitoring goes on; the history takes note |
| `Ask` | a page, the dashboard or Ping Now asks for the health of a link |
| `Read` with `Reply` | the next query: the flag, the open alerts, the newest measurement; the first that decides is the answer |

### LinkRecords

A request is a session: `Ask` puts into `request[s]` what it has read and what it wants,
and a later action commits it. An update holds the row as it was read, and `Written` changes
the columns whose value was changed, and those alone. What the worker does between a
ping's return and its commit, and what its tick does, runs on the event loop, one at a time,
so it is one more session. `writer` is SQLite's write lock where it is held over more than
a step: the flush of a new settings row takes it.

| action | code |
|---|---|
| `CreateWanLink`, `DeleteWanLink`, `SelectInterface`, `UpdatePollingIntervals`, `AcknowledgeAlert`, `AddNote` | the endpoints of `wan_links.py`, up to the commit |
| `ReadSettings`, `UpdateSettings`, `TickBootstraps` with `Flush`, `EndBootstrap` | `get_or_create_settings` and its callers: the row is found, or flushed and then kept or dropped |
| `OpenAlert`, `CloseAlert` | the alerts of a poll, up to its commit |
| `CommitUpdate`, `CommitInsert`, `CommitDelete` | the commits |
| `Fails`, `Restart` | an exception, the lock's timeout, the end of the process |

`mixed` and `collided` are history: a selection was committed over another one that it had
not read; two deletions of one link overlapped.

### BranchPicker and Onboarding

The variables are the page's `state` object, what its lists hold and show, the questions
and requests in flight, and the rows at the server. `BranchPicker` is step 1; its questions
(`question`) are served and answered in one step, in any order. `Onboarding` extends
it with the steps 2 to 5; there, a request is sent, served and answered in three steps
(`asked`), since it changes the link, and both the order of serving and that of the answers
matter. `review` is what the text of step 5 names, written once when the step is entered. The link's form and its credential are abstracted to whether SNMP is chosen.
To create a customer, a city or a suburb ends in the change event of the list the new one
is put into, so it is that event. Finish leaves the page and is no action.

| action | code |
|---|---|
| `SelectCustomer`, `SelectCity`, `SelectSuburb`, `SelectBranch`, `NewBranch` | the change events and the button, each up to its first await |
| `AnswerSuburbs`, `AnswerBranches`, `AnswerCreate` with `RefreshBranches` | what the handlers do with the answers |
| `Step1Next` ... `Step5Back` | the buttons; `Step3Next` asks for the link unless the page has one |
| `Discover`, `SelectInterface` | the buttons of step 4 |
| `ServeCreation`, `ServeDiscovery`, `ServeSelection` | the endpoints |
| `AnswerCreation`, `AnswerDiscovery`, `AnswerSelection` | what the page does with the answers |
| `Lost`, `Fails` | a refusal, or an answer that does not come, of a request that was served or not |

Three history variables name the users the properties do not speak of. `hasty`: the page was
used, or a question lost, before the lists had their answers, since the last change of the
city. `repeated`: a creation was asked for while another one was unanswered, or the answer to
one that was made was lost. `muddled`: the same of selections.

### Geography

The initial state is any database of the old schema, in which each customer had cities
of its own and a city no region. Names are model values with the three ways to fold
them (`Norm`, `PyLower`, `DbLower`); a region is a pair of country and province.

| action | code |
|---|---|
| `Upgrade` | the migration: `Backfilled` (regions from the dataset), merge of cities, of their suburbs, branches repointed, dataset preloaded |
| `Downgrade` | the regions are dropped, nothing that was merged comes back; it always succeeds (section 5) |
| `CreateCustomer` | `create_customer` |
| `AskCity`/`InsertCity`, `AskSuburb`/`InsertSuburb` | the check of `create_city` and `create_suburb`, then the insert, which the unique constraint may refuse |
| `CreateBranch` | `create_branch`. Its check and insert are one step, as the API neither deletes nor changes what it checks |
| `LoadCustomers`, `LoadBranches`, `AnswerTree` | the queries of `explorer_tree`, with writers in between |

The server is stopped during a migration (`Upgrade` and `Downgrade` are enabled only
then): `src/README.md` 77 migrates before the server is started. Two assumptions about the
old database are made in `Init`: the names of one customer's cities differ, as the old
constraint demanded, and a branch is in a suburb of its own city.

## 3. What the runs check

| run | question | result |
|---|---|---|
| `icmp_client` | do the results of ping follow from the replies? | holds |
| `icmp_client_linux` | is a target that lost every packet unreachable? | **violated**: the run time in a Linux summary is taken for a reply |
| `icmp_monitor` | no overlapping polls, one open alert per type, flag and alerts and newest result agree, the outage log is implemented, a page's health is one the link had | holds |
| `icmp_monitor_live` | are outages raised and cleared, although every ping of another target hangs? | holds |
| `icmp_monitor_delete` | does a deletion leave nothing behind? | **violated** by a poll in flight |
| `snmp_monitor` | are the rates right, the sustained alert earned and the cadence kept, and does measuring go on? | holds |
| `snmp_reselect` | does a newly selected interface start from a new baseline? | **violated** |
| `discovery` | does a discovery report what the device has, and does what it returned stay selectable? | holds |
| `geography` | do references resolve, does the migration keep every place and leave no twins, does the Explorer show every branch? | holds |
| `link_records` | does no commit undo another one's, is a selection whole, does a deletion take its own rows only? | holds |
| `onboarding` | is the branch of the chosen place, is one link made, and does the page show what the server polls? | holds |
| `onboarding_branch` | is the branch a link is made under the one the page shows? | **violated** by a change of the suburb |

The violated properties each quote a comment, message or document of the
repository; they are listed under "findings" in `PROJECT.json`. Of each, a theorem
names the one cause ("only" theorems of section 4). The passing SNMP run is one
in which the condition of the finding is switched off by a constant: there is one
interface. Its answers have all counters or the 32-bit ones only, in any order.

Some properties have a hypothesis where the code does not promise more, and the comment above
each says which: `DeltaIsTraffic` speaks of two samples of one counter, `AttemptsAreRecorded`
and `MeasurementsKeepComing` of counters that fit their columns, `SelectionIsWhole` and
`DoomedRowsAreMine` of selections and deletions of one link that do not overlap one another,
and those of the onboarding page of users who are not hasty, do not repeat and do not muddle.
`SelectedWasReturned` excepts the indices in `foreign`, each by name.
Without the hypothesis each is violated, in the ways listed next.

### What the models show beyond the runs

Behaviour the models have that no document promises otherwise, so that there is no run:

* After a change of the counter kind, the stored octets are of the other width, and one
  delta is negative or wrong (`calculations.py` 36).
* An answer that lacks a counter keeps that direction's octets and renews the timestamp
  (`worker.py` 287), so the next rate divides by the time since another sample. With such
  answers in `Answers`, `ElapsedIsHonest` is violated.
* A counter of 2^63 or more does not fit its column: the commit raises and the poll leaves
  no trace, not even its time, so it is due again at every tick (`Storable`).
* A breach of the threshold is counted on through polls that fail (`worker.py` 100).
* A link that is polled by SNMP alone shows healthy once it has a measurement, although its
  device has stopped answering; two rows with one timestamp (of one second) have no order, so
  either may be the newest (`health.py` 34). `Health` has ICMP links and the order of the commits.
* An interface of any earlier discovery can be selected; the refusal at `wan_links.py` 217
  speaks of the most recent one, the comment at 162 wants the rows kept.
* Two selections of one link that overlap each write what differs from the row they read, and
  may leave the index of one beside the address of the other (`wan_links.py` 222; `mixed`). In
  the same way two changes of the intervals mix, and two acknowledgements their user and time.
* A discovery that was begun for a link that is deleted meanwhile stores its interfaces under the
  id, whoever has it then (`wan_links.py` 148-197). A selection that has found its interface
  updates the row that has the id at its commit (`wan_links.py` 210-227): if the link was deleted
  and the id used again in between, the new link polls an interface that no discovery of it has
  returned, with no row of that interface stored. Both are `foreign` in `Discovery`.
* Two deletions of one link that overlap: the id may be used again between them, and the later
  one then takes rows of the new link (`collided`). A note or an alert that is committed after
  the deletion stays behind without its link; an acknowledgement may reach an alert that has
  the id of the one it was meant for.
* Ping Now and Poll SNMP Now of a link that is deleted meanwhile fail in the refresh.
* A `suburb_id` of 0 is taken for none by the check (`inventory.py` 135) and stored; the
  Explorer then fails at line 203. `ExplorerShowsEveryBranch` excepts it by name.
* Two requests that create one city in two spellings at once both insert it, as the constraint
  of the table compares exactly (`inventory.py` 56).
* Names that differ in surrounding blanks only are different to the API, which does not strip
  them (`inventory.py` 52, 83), and one to the migration, which does (`8610f8c7c2c6` 118). They
  get in one after the other, and the next upgrade merges them.
* SQLite's `lower` folds ASCII letters only, Python's folds all. `PyLower` and `DbLower` are
  separate constants; the theorems hold for any two, the runs have them equal.
* Onboarding: who goes back after the link was made and changes its monitoring or its branch
  changes nothing of it. A link made without SNMP then refuses the discovery, and step 4 cannot
  be left forwards; a link stays under its first branch, while Finish opens the other one's page.
* Onboarding: a list may be used while it is out of date. A branch of the earlier city can be
  picked, an answer to New branch sets the branch after the place was changed, and an answer to
  an earlier question replaces the list of a later one (`hasty`).
* Onboarding: a second Next of step 3 makes a second link, beside which the page shows what was
  selected for the first (`repeated`). The answer to a creation turns the page forwards from
  whichever step it shows by then, even from step 1 with no branch chosen; Finish then opens
  the page of no branch.
* Onboarding: the review is a text written when step 5 is entered (`onboarding.html` 586). The
  answer to a second Select that comes after Next changes what the server polls and what the
  page holds, and leaves the text at the earlier interface. It is one of the link's interfaces,
  as `ReviewNamesTheInterface` says, but no longer the selected one.

### Bounds

* `MCIcmpClient`: four requests, as deployed; three reply times, one of them
  instant and one above the threshold. Every order of replies, losses and refusals, and output
  that ends before its summary after any number of them.
* `MCIcmpMonitor`, `MCHealth`: one link id, as what links share is only the tick (two links in
  `icmp_monitor_live`) and the id sequence, which one id already reuses; ages to 2,
  intervals 1 and 2, overrides 0 (accepted by the create endpoint, ignored) and 1;
  two spawned tasks in `MCIcmpMonitor`, one in `MCHealth`, so that tasks meet each other and
  Ping Now at the lock; ping results on either side of every threshold, and the unreachable result with no loss
  that a refusing router gives on Windows.
* `MCSnmpMonitor`: 32-bit counters wrap at 3, columns end at 3, 64-bit counters at 5,
  so that wraps, double wraps, overflows and resets occur within a few ticks; a load
  of nothing or of 80% of the capacity, mixtures of which lie on both sides of the
  50% threshold; ages to 2, which is the duration of a breach.
* `MCHealth` adds one request; requests only read, so several show nothing that one does not.
* `MaxSpawned` bounds the tasks of a link not yet run; the code has no such bound,
  but the tasks only queue for a lock that skips them.
* `MCDiscovery`: one discovery, which two selections or deletions may overlap: a deletion lets
  the id be used again, and the other session was begun before it. Discoveries mix with each other
  nowhere, as each stores in one step of the loop; the theorems are about any number of both.
  Two indices, ports and addresses, and two states of the device, between which one port moves to the other's index, the names disappear and
  the address table has a malformed row and one address twice. What is stored and
  deleted is kept by index, so a third index adds no interaction.
* `MCGeography`: three city ids, two suburb ids, a branch, a customer, two requests;
  three names, two of which fold to one, a dataset of one locality. Two old cities may be
  twins in two spellings, with a twin suburb each; twins spelled alike, which two customers
  have, come about here in two regions and meet after a downgrade. The third id is for the
  locality or for a request. Rows of
  the initial tables are numbered from 1. `FreshIds(...) # {}` and `DOMAIN t # Ids` are the
  bounds of the tables; the proofs have any number of ids.

* `MCLinkRecords`: two threads and the worker; two ids in every table, the second of
  which is freed and used again; five requests (`MaxRequests`), which is a creation or a
  deletion with two overlapping requests before and after it. Two interfaces, one without an
  address, and two pairs of intervals.
* `MCOnboarding`: a customer, two cities, a suburb of the first, two indices, two links, two
  questions and two requests in flight. `MCFollowed` follows step 1 from an empty page with
  any branches, and the later steps from one step 1 that has all its answers: the states of the
  two parts add up and do not multiply. Going back to step 1 is followed until a link is asked
  for. The proofs have no such bound.

### Fairness

`Elapse` and `Tick` are weakly fair: the worker loop catches every exception of a tick
(`worker.py` 359-368) and sleeps at most the tick time. `RunTask` is strongly fair:
the event loop runs every task, but a restart may discard them. The end of a poll
(`PollCompletes`, `PollAnswers`) is strongly fair: ping is killed when it overruns, the
SNMP client has timeout and retries; this is `FairSpec` of both monitors. A poll may still raise or be cut off by a restart,
but not each time for ever. `icmp_monitor_live` drops this for the second of its two links
(`HangSpec`), whose pings never end: the first link's outages are raised and cleared all the same.
Nothing is assumed of users, devices or the network; each property states under
which lasting condition it promises something.

## 4. What is proved

`tlapm` checks every proof, for all values of the constants that satisfy the named
assumptions (`NoneAssumption`: `None` is no integer; `CountersAssumption`, `IcmpClientAssumption`, `IcmpAssumption`,
`SnmpAssumption`, `DiscoveryAssumption`, `MigrationAssumption`, `HealthAssumption`,
`RecordsAssumption`, `PickerAssumption`, `OnboardingAssumption`: the types and the order of the
parameters, and that `None` is none of the values it stands beside; `NamesAssumption`: names that Python folds alike are alike to the migration;
`NoneIsNoRecord`, `NoneIsNothing`: `None` is none of the records it stands in for).

`IcmpMonitorProofs`:

* `TypeCorrect`: the type invariant is inductive as it stands.
* `PollsNeverOverlap`: from `LockInv`, the lock is held exactly while one poll waits.
* `AlertsAreUnique`: recording a result opens a row only if none is open.
* `DownFlagIsBacked`: the flag implies an open outage alert. A deletion could remove the
  one and not the other, so `FlagInv` adds: if a running deletion has read the alert
  that set the flag, it has read the flag's row as well.
* `ImplementsOutageLog`: every step is a step of `OutageLog` or stutters. A committed
  deletion must not turn an outage into a recovery, so `DeleteInv` says that a deletion
  that has read an open outage alert has read every earlier recovery record.
* `AlertsAgree`: alerts and flag follow from the newest result.
* `OnlyStrayResultsSurvive`: a deletion leaves nothing behind, and no link finds rows under
  its id, if no poll commits once the deletion of its link has read the rows (`NoStrayResult`).
  `CleanInv`: a running deletion has read every row there is. So the stray result is the only
  cause of what `icmp_monitor_delete` finds; restarts and other overlaps do no harm.

`SnmpMonitorProofs`:

* `SingleWrapIsExact`, `WideDeltaIsBounded`, `NarrowDeltaIsBounded`: what `counter_delta`
  returns, for every counter width.
* `TypeCorrect`.
* `AlertIsEarned`: from `BreachIsYounger`, a breach is never older than the last
  measurement within the threshold; without it the age of the breach says nothing of
  what was measured.
* `AlertFollowsRecord`: alert and breach follow from the newest utilisation.
* `RatesAreTimedRight`: if answers are complete, a rate's elapsed time is the age of the
  samples compared. From `BaselineInv`: the stored octets are present together and as old
  as the last recorded attempt. The hypothesis is needed (see "beyond the runs").
* `DeltasAreTraffic`: from `TrafficInv`, which says of each stored sample that the device's counter
  is the stored value plus what was carried since, up to a turn of the 64-bit counter, or to any
  number of turns of a 32-bit one. Reading a 32-bit counter takes the rest of a division, so
  the lemmas are about such rests; `Paired` says that octets are stored with what they stand for.
* `AttemptsKeepTheCadence`: an attempt that is recorded sets the age to 0, which is below every
  interval.
* `OnlyTheExchangeMixesInterfaces`: a rate is of one interface, if none is exchanged for another
  while octets are stored or a poll is running (`SelectsWhenClear`). A program
  that clears the octets under the poll's lock before it stores the selection meets the condition;
  to clear them without the lock is not enough, as a poll in flight stores octets afterwards.

`DiscoveryProofs`:

* `TypeCorrect`.
* `AddressesAreNotShared`: from the merge alone: of the rows of one address the last decides,
  so an address is mapped to one index only, whatever columns the request has read.
* `SteadyDiscoveriesAreExact`: from the invariant that while a discovery is `steady` the
  columns it has read are the device's own; then the merge of those is compared with the device.
* `ReturnedStaysSelectable`: what was returned is stored, and storing removes nothing; a
  deletion empties `returned` in the step that removes the rows.
* `SelectionIsDiscovered`: what is selected was returned by a discovery of this link, or left to
  it by an earlier link of the id (`foreign`): in a row that a late discovery stored, or in a
  selection that was committed after its link had gone. `OriginInv`: so is every stored row, and
  what a selection has found of the link that has the id is stored until that link is deleted.
  So the two late commits are the only ways to a selection that was not returned.

`GeographyProofs`, each through any number of migrations and requests:

* `TypeCorrect`; `ReferencesAlwaysResolve`; `SuburbsAreInTheCity`. The invariant relates the
  three tables; for it to be inductive, the cities that pending requests have checked must be
  there still (`PendingResolve`), and no request or Explorer may be under way in the old schema
  (`Stopped`), since the migration removes cities. The lemmas show of each operator of
  `GeoMigration` that it keeps references: the row that stays of a set of twins is kept, is
  one of them, and has their key.
* `UpgradesKeepPlaces`, `UpgradesLeaveNoTwins`: from these lemmas, and because rows with one
  key have one canonical row.
* `ExplorerIsComplete`: from `RunIsComplete`, what was there when the run began is among the
  branches it loads, although customers and branches are added between its queries.
* `OnlyRivalsMakeTwins`: no place of the shared reference is there twice, if no two requests for
  one place are past their checks at once (`NoRivals`) and Python and SQLite fold names alike
  (`FoldingsAgree`). Names are compared as the API compares them, with their blanks; the
  migration's comparison identifies more (`NamesAssumption`). `ChecksHold`: what a request's check has found is still so when it inserts.
  Requests for different places may overlap as they like. Without either condition it is false
  (see "beyond the runs"). No run has this property, as the code does not promise it.

`HealthProofs`:

* `HealthTypeCorrect`.
* `PagesShowTheHealth`: what the queries so far did not find is weighed against what the
  link's health was when each of them ran. The invariant says that a request past a query has
  seen a moment at which the link's health was at most what that query left possible; polls
  change the flag, the alerts and the newest row in one commit, which `AlertsMatchNewest` and
  `DownFlagHasAlert` make usable.

`LinkRecordsProofs`:

* `TypeCorrect`.
* `NothingIsUndone`: only `CommitUpdate` changes a row that is there before and after; since the
  wanted row differs from the one that was read in assigned columns only, so does what it writes.
* `SelectionsAreWhole`: over the selection that it read, a session leaves the one that it wants,
  since a column it does not write has the wanted value already.
* `DeletionsTakeTheirOwn`: while deletions of one link do not overlap, only its own deletion
  removes the link, so its id and the ids of its rows are not free to be used again.

`OnboardingProofs`, from an invariant in two parts: `PickerInv` of step 1, and `WizardInv`
(`LinksInv`, `OnceInv`, `StoredInv`, `SelectionInv`) of the link:

* `TypeCorrect`: no request is sent for a link the page does not have.
* `BranchesAreOfTheChoice`, `PagesShowTheChoice`: while the user is not hasty at most one question
  is in flight, it is about the place that is chosen, and what it does not ask for again is
  already right.
* `OneLink`: either the page has the link, or one request for it is in flight, or there is none.
* `SelectionsAreStored`: with one selection in flight, the server has the page's selection, or
  that of the request once it is served.
* `ReviewsNameInterfaces`: the text names what was selected when step 5 was entered, which was
  stored then; discoveries only add to what is stored.
* `OnlyTheSuburbHidesTheBranch`: step 1 is left with a branch that the page shows, if a change of
  the suburb gives up the branch (`SuburbGivesUpBranch`), as changes of customer and city do.
  `ShownInv` adds what each question in flight will leave shown. As the property does, it speaks
  of users who are not hasty.

`IcmpClientProofs`, for any number of requests, any times, losses and orders of replies:

* `TypeCorrect`, on every platform: a result has a loss between 0 and 100, a latency exactly if
  it is reachable, and a jitter only beside a latency.
* `LatencyIsMeasured`, `ReachableIsMeasured`, `JitterIsMeasured`: what the parser makes of the
  samples, compared with the replies. Their hypothesis is that the Linux summary does not occur
  (`"linux" \notin Platforms`): there the run time is one more sample, and what `icmp_client_linux`
  finds makes each of the three false.
* `OnlyTheLinuxSummaryMisleads`: with the same hypothesis a result that lost every packet is
  unreachable; so the summary is the only cause of what that run finds.

The samples are collected and summed by recursive functions. The library's induction theorems
take an operator, so `InductionUpTo` is stated with a set instead: a set of numbers that has 0 and
with each number below the bound also the next one has all of them, as the least exception,
which exists because `<` is well-founded on the naturals, leads to a contradiction. From it
follow `IterationExists`, by which the recursive functions unfold, and `MeanIsBetween`, by
which a mean of samples lies between the least and the greatest. The invariant `RunInv` says
where each line of the output and each part of the result comes from (`ResultOrigin`).

Only model-checked: the liveness properties `OutageRaisedDespiteHang`, `OutageClearedDespiteHang`
and `MeasurementsKeepComing`, since fairness is about which actions are enabled, and the prover
does not reason about that. Every other property of a run is a theorem here; those of the four
runs that expect a violation under the condition that excludes the cause.

## 5. What is not modelled

Not modelled by intent: authentication and secrets (sequential), credentials (inserted and
never changed; a secret that cannot be decrypted is `credentialOk` of `SnmpMonitor`), names of
links, response shapes and the pages that only display (wording), configuration and the seed
script (run once), migrations that only change columns.

Partly modelled:

* The upgrade is one step, although SQLite commits its added columns by themselves; an upgrade
  that stops there cannot be repeated, as the columns are there already.
* The list of ISPs, with a unique name and nothing else, is left out.
* The newest values that the dashboard shows beside the health are left out.
* Request validation: the bounds on intervals are guards, the rest is shape.
* The onboarding page: the form of step 2 is not validated, and Finish is not an action.
* Steps of the wall clock are not modelled; ages grow.
* The downgrade adds a foreign key without a name in batch mode (`8610f8c7c2c6` 267), which
  SQLite's batch mode may refuse; in `Geography` it always succeeds.
* `Discovery` has one link id, so rows of another link never take the row ids that a deletion
  overtaken by another one has read. `IcmpMonitor` has no overlapping deletions of one link.

What remains to be done: the upgrade in the steps that SQLite commits.
