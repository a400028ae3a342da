# TagWatcher in TLA+

TagWatcher watches the container images of Docker and Kubernetes hosts, compares
them with their registries and alerts when a newer image exists.  It is a
FastAPI program run by several gunicorn worker processes over one PostgreSQL
database.  The processes share nothing else: each has its own APScheduler, its
own connection pool and its own dictionaries of queues and progress.  Most of
what is hard about it comes from there, and from sessions that keep a copy of a
row over every `await`.

These modules model the decisions, sessions, checks and jobs at the core of the
program, the agent API, the search for a newer tag and the steps that apply it,
the accounts and the start of the site.  TLC checks them on small instances, and
TLAPS proves the main properties for every value of the constants.

## Inventory

Paths are under `src/app/`.

| part | state | operations | what makes it correct |
|---|---|---|---|
| update decision (`services/checker_service.py`, `registry_service.py`) | columns of a container row | `check_container`, `_detect_has_update`, `find_latest_version` | an alert names a real change; an outdated container is reported; a snooze silences |
| container row (`models/container.py`, `database.py`) | the row; every session's copy of it | sync, check, reload, update, acknowledge | a stale copy undoes nobody's change; columns that belong together stay together |
| host check (`checker_service.py`) | `_check_progress` of each worker | `check_host`, `get_check_progress` | every container is checked and alerted about; progress is true |
| scheduler (`services/scheduler.py`, `main.py`) | jobs of each worker; one advisory lock per host | `register_host_job`, `unregister_host_job`, `_run_check_host` | one worker at a time checks a host on schedule; the schedule is the last one saved |
| registry client (`services/registry_service.py`) | – | parse, strategies, tokens, tag lists, digests | the newest tag that the strategy admits is offered, never an older one or one off the line |
| runtime client (`services/docker_service.py`) | thread pool; the runtime's containers | list, sync, recreate, compose update, logs | a failed update loses no container untold; a recreate keeps the configuration |
| agent API (`routers/agent_api.py`) | pending updates, errors, log requests and subscribers of each worker; registration token and secret of the host | register, sync, log-data | an update the user asked for is delivered once; a secret stays valid |
| container routes (`routers/containers.py`) | notification logs, snooze | check, reload, update, acknowledge, logs over WebSocket | an acknowledgement silences; an update settles the logs |
| host routes (`routers/docker_hosts.py`) | host rows | add, edit, remove, sync, check, check all | jobs follow the rows |
| notifications (`services/notification_service.py`, `routers/channels.py`) | channels, their links to spaces | send, aggregate, link, unlink, test | each linked channel is told |
| users, groups, spaces (`routers/admin.py`, `spaces.py`, `deps.py`) | users, groups, memberships, access | create, edit, delete, grant, OIDC sync | there is always an administrator; what is deleted takes all access along |
| authentication (`routers/auth.py`, `security.py`) | signed cookies, rate limiter of each worker | login, OIDC, logout | – |
| setup and start-up (`main.py`, `database.py`, `config_file.py`) | engine and session maker of each worker, configuration file, schema | wizard, lifespan, guard | a configured system runs its jobs in every worker; the wizard makes the first administrator only |
| settings, audit, pages, migrations, packaging | – | – | – |

Interaction: a job or a user's request opens a session, loads the host (and with
it its containers, `lazy="selectin"`), then waits for runtimes, registries and
channels while other sessions commit to the same rows; agents push reports
through the same upsert; an update on an agent host is a queue entry handed over
with the next report.  What is hard: stale copies, checks that overlap in one
worker or in several, locks that belong to connections rather than sessions,
jobs in every worker, crashes between two steps, alerts that race an
acknowledgement.

## Modules

| module | models |
|---|---|
| `UpdateRules` | the pure decisions: is a container outdated, must a check alert, what a sync or reload changes, what a commit writes |
| `UpdateCheck` | one container row and all the sessions that touch it |
| `UpdateApplied` | `UpdateCheck` with the history of one promise of the update route |
| `HostCheck` | calls of `check_host` over several containers, the progress entry, the dispatch to channels |
| `HostTurn` | abstract: at most one worker has the scheduled check of a host |
| `Scheduler` | jobs, edits, runs, pooled connections and the advisory lock; implements `HostTurn` |
| `AgentHosts` | registration tokens and agent secrets |
| `Handover` | abstract: an update that is asked for is handed over at most once |
| `AgentUpdates` | extends `AgentHosts`: the update queue of each worker, the sync that takes it, the agent; implements `Handover` |
| `AgentLogs` | extends `AgentUpdates`: log sockets, subscribers, requests, posted lines |
| `AgentApi` | composes the three in workers that die with all their memory |
| `TagSearch` | the search for a newer tag: comparison, strategies, pages of a moving list |
| `Recreate` | updates of containers and compose projects, call by call of the runtime |
| `Upgrade` | composes the two: what is offered is applied, what runs is searched for next |
| `Accounts` | users, groups and spaces, administrators' requests and provider logins |
| `Startup` | extends `Accounts`: workers that start, the wizard, the guard |
| `MC*` | values for TLC |
| `*Proofs` | theorems about the module they extend; `AccountsProofs` holds the lemmas of `StartupProofs`, `RecreateProofs` those of `UpgradeProofs` |

### UpdateRules and UpdateCheck

A release is a number; a digest is the release it identifies; a tag is the
release, or the one `RollingTag`.  An image is described by what the rules can
tell apart: does its tag roll, does the registry's tag list carry digests, does
the runtime report a digest.  Of the notification logs `logged` says whether the
container has one to acknowledge; the status of a log is what a page shows, and
no check reads it.

Each action is the code between two awaits, with its commit: `StartHostCheck`
loads the copy, `CheckSyncs` upserts the runtime's list into it,
`RegistryAnswers` brings the answer, `StoreAnswer` compares, stores and decides,
`SendAlert` sends and logs; `AgentReports`/`CommitReport`,
`StartReload`/`CommitReload`, `StartUpdate`/`Recreate`/`CommitUpdate` and the
single step `Acknowledge` are the other requests; an update on an agent host writes
no column of the row, and is `AgentUpdates`' subject.  Sessions
are made with `expire_on_commit=False`, and a select of a row that a session
already holds does not refresh it, so a session keeps its copy; at a commit
SQLAlchemy writes only the columns whose value the session changed.  `Flush` is
that rule, and the one on which `AckNotLost` rests.  A session may fail at every
wait (`SessionFails`), which changes nothing in the database.

Net-change commits have a price: of two checks that overlap each may write one
of the columns `latest_tag` and `latest_digest`, and the row is torn.  The
history `overtaken` says that the check that stored last had loaded another pair
than it found; `LatestPair` says that nothing but such a check tears the row,
whatever syncs, reloads and updates commit, and that a later check which is not
overtaken mends it.

### HostCheck

`Select` makes the progress entry over whatever was there, `CheckOne` checks one
container, `Advance` is the `finally` that counts and, at the end of the loop,
removes the entry.  `due` abstracts the outcome of a check, which is
`UpdateCheck`'s subject.  An aggregated check sends after the loop, a check of a
whole space sends inside it.  `Fail` covers a runtime that cannot be listed and
statements the database refuses, `Crash` the death of a worker with its memory.
A SELECT that fails is treated as a refused commit.

### Scheduler

Each worker has a job for the host or none.  The edits (`AddHost`, `LoadHost` and
`UpdateHost`, `UnregisterHostJob` and `RemoveHost`) work on the copy of their
session; `RegisterHostJob` runs after the commit, in the worker that handled the
request.  Each may fail at every call: a commit that is refused, a new host that
cannot be read again after its commit (`RefreshHost`), a removal that has
unregistered its job and then leaves the row (`RemoveHost`).  `late` are the
requests whose worker made a job for another since they read or wrote the row, and
`lapse` says that a failure, or a late job, left the row without: the exceptions
of `LastEditScheduled`, which the next edit or start of a worker makes good.  A
run takes the advisory lock on one connection (`Lock`), gives the connection back
with its first commit (`FirstCommit`) and unlocks on whichever connection it gets
then (`Unlock`); the same connection may take the lock again.  `CloseConn` is a
pooled connection that is closed; `cut` remembers that this happened to a lock
under a run.  A check that a user asks for takes no lock and is left to
`HostCheck`.  How often a job fires is not modelled: any job may fire at any time.

### AgentHosts, AgentUpdates, AgentLogs, AgentApi

Tokens and secrets are pairs of a host and a number, so that a value is nobody
else's and its age can be asked.  `StartRegister` and `StartNewToken` load the
host, `Register` and `NewToken` commit what they changed of the copy; setting
the secret of a copy without one to None writes nothing, which is why a
registration may outlive a new token.  An answer may be lost (`Answered`).

`pending` is `_agent_pending_updates` of each worker.  `StartUpdate` loads the
row, `QueueUpdate` appends or finds the container queued, `CommitUpdate` commits
the logs; a refused commit leaves the entry.  The queue is searched by the
container_id of the copy, which is not the container's identity: `Recreated` and
`AgentApplies` give the container a new one, and the next sync writes it into the
row, so an entry under the old id is not found.  `StartSync`/`FinishSync` are the
two halves of `sync_agent` around its commit; `FinishSync` takes the queue of the
worker and the host, and in `AgentApi` the same step names the log requests
(`HearRequests`).  `handed` and `forgotten` are histories.

`subs` and `wanted` are `_agent_log_subscribers` and `_agent_log_requests`.  A
socket subscribes under the container's id alone, which two hosts may share (here
the id is constant: a stream of a container that is recreated falls silent, and
ends as any other that is silent);
`Leave` is its `finally`, for a user who goes and for the 300 seconds without a
line alike.

### TagSearch, Recreate, Upgrade

A tag is given by what `_parse_version_and_suffix` makes of it.  `Release`
appends the number after a dash; `Newer` is the order of `packaging.Version` on
release numbers.  `Resolved`, `Effective`, `IsChannel` and `Passes` are the
functions of the same purpose in the code.  A search reads the list page by page
(`FetchPage`) while `Push` and `Delete` change it, and goes through what it got
tag by tag (`Scan`, finer steps than the code's, which go through the list
without an await).  `CheckedBy` is what a check may work by: what is set, or
the strategy that a user asks for with that check.

The offer is the two columns `latest` and `has`.  `StoreAnswer` writes of each
what differs from the copy the check loaded (`Stored`), so two checks that
overlap may leave the one's has_update beside the other's latest_tag.  `from`, a
history, is the tag that latest_tag was searched for, and `mixed` says that the
check that stored last had loaded other columns.  For a tag that is compared by
digest the answer may be an update or not (`Detected`); which, and what a sync
inside the check does to its copy, is `UpdateCheck`'s subject.

A container of the runtime is an id, whether it runs, its image and which of its
mounts it kept; names are what the runtime keeps unique.  Each call of the runtime
is an action; `UpdateFails` may follow any of them, for an exception and for a
worker that dies.  A call that names an id that is gone has no other outcome.  Ids
are given in the order of creation, so the containers a call saw running (`ran`)
and has still to stop or start (`todo`) are sets, taken by `IsYoungest` or
`IsEldest`.  `beside` remembers the updates of the same container that were under
way.  In `Upgrade` users apply the stored offer, and the tag that then runs is
what the next search starts from.

### Accounts and Startup

A request of an administrator goes through `Authorise` (the dependency
`require_admin`), `Load`, `Count` where the rule of the last administrator asks,
and one commit named for its kind.  What is settled already, such as a membership
the loaded row has, is answered and not written (`Settled`).  A login loads its
user (`StartLogin`), looks up the groups it claims one at a time (`LookUp`),
deletes the memberships that are committed by then (`Wipe`) and commits (`Login`);
one user may log in in two browsers.  Foreign keys and unique names are in
`Needs`: a request whose rows went, or came though it would make them, while it
was under way is `doomed` and can only be abandoned.  An edit writes the columns
that differ from the loaded copy (`Written`).  `overtaken` is a history: an
administrator was lost since the request began.

`Startup` is the lifespan of each worker, step by step, over the schema of the
one database.  A schema is `None`, without tables, or the set of `Parts` (tables
whose columns the migrations add to) that are still of an older version.
`StartScheduler` needs only what its select loads, `plan.loads`: the hosts, and if
a host is checked its containers and their logs.  So a worker whose migrations
failed may come up on a schema that is old elsewhere.  The guard's condition
`Guarded` is what lets requests begin, and the wizard's steps are `OpenForm` to
`MakeTables` and `CountAdmins`, `InsertAdmin`.

## What is checked

| run | instance | shows |
|---|---|---|
| `update_races` | 3 releases, 2 instants; a check and a request on every kind of image, direct and agent host; two checks on a rolling image of a direct host and on a versioned one of an agent host | `AckHolds`: only a check that loaded the container before it was acknowledged alerts during the snooze. `AckNotLost`: no stale commit changes the snooze. `LatestPair`: only a check that another overtook leaves tag and digest of two releases in the row. `AlertNamesAChange` |
| `update_live` | 2 releases, 1 check, 1 request, agent host, three kinds of image | `OutdatedAlerts`: alerts about an outdated container that is not snoozed keep coming. `FlagConverges`: has_update comes to tell the truth |
| `apply_silences` | agent host, 1 check, 1 request | violated: an applied update is alerted about again |
| `host_check` | one worker, 2 calls, 2 containers, 1 channel | `ProgressOwned`, `ProgressExact`; `EachHears`: a container that stays due is alerted about for ever on each channel that stays linked |
| `host_skips` | the same, nothing fails | violated: two overlapping checks, one stops with KeyError |
| `scheduler` | 2 workers, 3 connections, 3 runs, 3 edits (two of one worker), 2 schedules | `OneWorker`, `ImplementsHostTurn`, `LastEditScheduled` |
| `lock_leak` | 2 workers, 3 connections, 2 runs, no edits, nothing fails | violated: a lock held by nobody |
| `agent_api` | 2 hosts, 3 agents, 2 workers, 3 containers (two of one id), 2 users, 2 sockets, 1 request for a token; containers recreated under a second id; six selections of these (`load`) | `SecretKept`, `TokenRevokes`: registrations and new tokens that overlap. `OneEntryEach`, `ToldIsServed`, `ImplementsHandover`: updates and syncs in two workers. `StreamsAreRequested`, `SubscribersAreOpen`, `RequestsAreRead`, `LinesAreOwn`: log streams that come and go |
| `agent_sync_clears` | 1 agent, 2 workers, nothing fails | violated: the next sync does not clear the queue |
| `upgrade` | 8 tags, 2 per page, up to 2 pushes or deletions; 4 containers, a project of three; 2 updates; one search alone, updates of the project alone, both for a container by itself, two searches and an update of it | `OfferIsNewest`, `OfferIsForward`; `LossIsTold`, `MissingOnlyAtCreate`, `ReplacedOnce`, `MountsKept`; over both `LineKept` |
| `startup` | 2 workers, 2 browsers, 4 users, 3 groups, 1 space, 2 requests at a time; a site to be set up or restarted, one with an administrator of the provider, one with two, one with groups and a space | `AdminRemains`, `AccessIsLive`, `FoundMeansReady`, `WizardMakesFirst` |
| `start_migrates` | the site to be set up or restarted: no tables, or those of an older version, whose users, or containers and spaces, lack a column | violated: a worker whose migrations failed serves on the old schema |

Bounds.  The run `update_races` takes two sessions of those there are (`Teams` of
its MC module), as three that all race are too many states.  Two releases beyond
the first give a check, an overlapping change and a newer answer; one tick of the
clock lets a snooze begin and end.  Two sessions are what a stale copy needs, and
two calls of `check_host` what the shared entry needs; two containers let one of
them be left out.  Three edits, two of them in one worker, let an older edit make
its job last.  The first worker has two connections and two runs, so that an
unlock can miss, hit another run's lock or find its own.  `MaxHeld` = 2 allows a
re-entrant lock.

Three runs choose at the start what takes part, so that each combination that can
go wrong is explored in full without the product of all: `Loads` of `agent_api`,
`Starts` of `upgrade`, `Plans` of `startup`.  Three generated values are a secret,
a new token and a secret made against it; two releases of one container let an
update in the queue be older than the next request, and one new id by other hands
(`MaxId`) lets an entry stand under the id before; the agent gives more.  Eight
tags hold a release of each shape the parser tells apart, a page of two needs four
pages, and two changes of the list move a tag over a page's end and back.  Six ids
allow both updates to create; which of the two is first makes no difference, hence
the symmetry of `Updates`; that of sessions, workers, users, sockets, browsers and
requests elsewhere has the same reason.  Two searches overlap on a list of two
pages of which only the second has something newer, so that one that is cut short
disagrees with one that is not.  Two requests are what a count that is overtaken
needs, and the orders of each plan are those that meet in one hazard.

Deadlock is checked in `host_check` and `scheduler`, which never stop; the runs of
`UpdateCheck`, whose releases and clock are bounded, the runs `agent_api`,
`upgrade` and `startup`, whose updates, pushes and orders are used up, the run
`start_migrates`, whose site may stay as it is, and the violation runs
`agent_sync_clears` and `lock_leak` on `CalmSpec`, whose updates and locks may be
used up, do stop and do not check it.

Fairness.  In `UpdateCheck` the scheduler keeps starting host checks and agents
keep reporting, whatever users do meanwhile, and a session that comes to the same
wait for ever is not failed there for ever; since a failure or another session may
disable each step for a while, it is strong fairness per step.  Nothing is assumed
of users, of the registry publishing or of the clock.  In `HostCheck` it is weak
fairness of the start and the next step of each call, as code between two awaits
does run; that calls stop failing and due containers are answered for is a premise
of `EachHears` itself, not an assumption of the specification.

### Findings

- `apply_silences`: `routers/containers.py:359` resolves the logs "so no further
  alerts fire", but a check does not read logs.  On an agent host has_update
  stays set without a snooze, so the next check alerts about the update that has
  just been applied, until the agent has reported it.
- `host_skips`: `check_host` says it checks each container; two checks of one
  host in one worker share `_check_progress`, and the second dies with KeyError
  in its `finally` when the first removes the entry.  In an aggregated check the
  alerts already gathered are lost with it for that round (`EachHears` holds
  because the next round gathers them again).
- `lock_leak`: the log line at `services/scheduler.py:42` says another worker is
  checking.  After a commit the unlock runs on any connection of the pool, so
  the lock may stay with an idle one and other workers skip the host.  The same
  worker may unlock another of its runs' locks; `OneWorker` holds nevertheless,
  for the reason below.

- `agent_sync_clears`: `routers/agent_api.py:112` says that pending updates are
  "consumed and cleared on next agent sync".  The dictionary is one worker's, and
  the image starts two by default (`src/Dockerfile`, `WORKERS:-2`): a sync that
  reaches the other worker hands over nothing, and the update waits.
- `start_migrates`: `src/README.md:167` says that migrations run automatically
  when the container starts.  The start catches a failure of tables, migrations
  and default groups together (`main.py:83-90`) and goes on; when what the
  scheduler selects is there, the worker serves, and nothing migrates until it
  restarts.

Things the models show without contradicting any statement of the code.

Of the container row: two checks that overlap may leave one's latest_tag beside
the other's latest_digest or has_update (`LatestPair` and `OfferIsForward` except
it); an update of a direct host may clear an acknowledgement that came while it
ran (`AckNotLost` excepts it).  Of updates on agent hosts: an update that is lost
with an answer is neither queued nor known to be lost; one found in the queue
keeps its older image; two updates of a container that was recreated in between
wait under its two ids, and the agent is handed both (`OneEntryEach` excepts it);
the queues of two workers may hand over an older release after a newer one; a
refused commit leaves the update queued.  Of hosts: a removal that is refused
after its job was unregistered, or a new host that cannot be read again, stays
without a job until the next edit or start (`lapse`); a registration under way
when a new token is made may leave a secret that opens the host (`TokenRevokes`
excepts it); the token called one-time (`agent_api.py:3`) serves every
registration until it expires.  Of logs: two hosts whose containers have the same
id share subscribers, and the request of the one that leaves first stays.

Of the search: `custom` without a pattern is taken for `auto` after `auto` has
been resolved, so every version passes (`registry_service.py:299`, `:327`); an
offered tag of two numbers turns the container into one compared by digest; a tag
pushed again while Docker Hub's pages are read may be missed; a check that an
update overtakes stores an offer for the tag it started from.  Of updates: two
updates that overlap on a container by itself, with a sync between the creation
and the start of the new one, both succeed and leave it stopped (`LossIsTold`
excepts it as `Contended`); binds made by `--mount`, and all but one mount of a
source, are not carried over, although the docstring says "same configuration"
(`containers.py:340`).

Of accounts: two administrators who give up or take their rights at once, or a
login with other claims, may leave none (`AdminRemains` excepts both); two who
deactivate each other leave only inactive ones, for whom the wizard does not
reopen, since it and the guard count administrators whether active or not; a login
whose user info has no groups clears the user's groups and rights, as an absent
claim is an empty list; an edit of a value that the copy already has writes
nothing, though the row may differ; two browsers in the second step of the wizard
make two administrators.  Of the start: a worker that was set up by the wizard
runs no scheduler and makes no default groups until it restarts; the wizard
migrates nothing; a worker that cannot reach its database dies with the settings
it loads (`main.py:104`) and never starts "in setup mode" (`main.py:90`); the
login page of a worker that has not loaded the database yet fails (`auth.py:255`),
as only the guard and the wizard load it.

Two more, of the update decision: a rolling tag whose digest the runtime does not
report raises the flag for one check only (`Comparable` excludes it), and
`ShouldNotify` reduces to `has_update /\ ~snoozed` (theorem `ShouldNotifyIff`), so
`force_notify` changes nothing.

## What is proved

All theorems hold for every value of the constants, from the assumptions named
in the modules.

- `UpdateCheckProofs`.  `ShouldNotifyIff`; `TypeCorrect`, strengthened with the
  fact that a row's tag fits the kind of image; `AcknowledgementHolds`, by the
  invariant that a check about to alert holds a copy without a snooze in force, so
  that the row's snooze must be younger than the copy; `AlertsNameAChange`;
  `AcknowledgementNotLost`, from the net-change rule of commits: a session that
  never changes the snooze writes none; `LatestPairHolds`, for any number of
  checks: one that finds the pair it loaded leaves the pair of its answer, any
  other is overtaken, and syncs, reloads and updates write neither column (an
  update begins with a latest tag, so it has none to fill in).
- `HostCheckProofs`.  `TypeCorrect`; `ProgressIsOwned`; `ProgressIsExact`, by
  induction together with the types: a loop that ends takes the entry along, so a
  loop that is alone and finds an entry has been alone since it made it, and has
  counted each of its turns.
- `SchedulerProofs`.  `TypeCorrect`; `OneWorkerAtATime`.  No run owns its lock, so
  "a running run holds the lock" is false.  What is inductive (`Inv`) is that at
  most one connection holds the lock and that, unless a lock was cut, the worker
  with running runs has a connection holding it at least as often as it has runs:
  only runs of that worker unlock its connections, each once, when it ends. 
  `TurnsAreTaken`: the scheduler implements `HostTurn`, since a run that starts
  finds no other worker's.  `LastEditIsScheduled`, for any number of overlapping
  edits that may fail at any call, by the invariant `Kept`: some worker has the
  row's job and whoever is about to replace it there is `late`, or a request is
  about to make that job, or it has lapsed, unless a worker is down or a removal
  is under way.
- `AgentApiProofs`.  `SecretIsKept` and `TokenDoesRevoke`: where a request loaded
  no secret, there is none or one made since (`ReadStands`), as values are
  numbered when they are generated.  `OneEntryForEach`, `WhoIsToldIsServed` and
  `UpdatesAreHandedOver`: an update is queued only where none of its container and
  its container_id is, however often syncs rewrite the id in the row; it is in no
  queue but that of its worker and of its container's host (`UpdatesPlaced`), an
  update that is gone has been asked for (`GoneAsked`), and what serves a request
  that got past the queue waits in its worker, was handed over or is forgotten
  (`RequestsServed`); so a sync that takes one queue takes each update from all of
  them, which is `Handover`.  `OpenStreamsAreRequested`, `SubscribersStayOpen`,
  `RequestsHaveReaders` and `LinesStayOwn` are inductive together: whether a
  request may go when a socket leaves depends on who else is subscribed.  They
  assume that the runtime of one host gives no id twice (`IdAssumption`); two
  hosts may.
- `StartupProofs`, from the lemmas of `AccountsProofs`.  `AccessStaysLive`: what a
  request has found stands until it commits, unless it is doomed (`OrdersStand`,
  the foreign keys and unique names).  `AdminStays`: the actor of a request that
  was not overtaken is an active administrator still, and there is another when
  the actor is about to give up the rights (`AdminsRelied`); so only an overtaken
  request or a login can take the last.  `WizardMakesTheFirst`: a count of none
  holds until another commit makes an administrator (`CountStands`). 
  `FoundIsReady`: a worker serves with a scheduler once what that loads fits, and
  no step of another worker, the wizard or a user takes tables, columns or jobs
  back (`Readied`, `Mended`).  They assume that the first rows are whole
  (`RowsAssumption`) and that a site that serves at first has been migrated
  (`PlansAssumption`).

- `UpgradeProofs`, from the lemmas of `RecreateProofs`.  `TypeCorrect`.
  `NewestIsOffered` and `OffersLeadForward`: the pages read hold every tag that
  has not moved since the listing began (`PagesRead`), no tag gone through beats
  the best one (`Scanned`) and the best is the tag checked or lies ahead of it
  (`BestIsForward`); the last two need that `Newer` is a strict order
  (`NewerIrreflexive`, `NewerTransitive`).  `OffersLeadForward` is claimed of any
  number of overlapping searches, column by column: latest_tag leads from the tag
  it was searched for whoever stored it, and has_update with it unless the columns
  are `mixed`.  `OneReplaces`: an id belongs to one
  name for ever, whatever is created (`IdsOwned`), and a call past the removal
  was the only one that could remove its id (`RemovedOnce`).  `OnlyCreateMisses`
  and `MountsOutliveUpdates`: what a call or the runtime has of a container's
  mounts is all of them (`MountsHeld`).  `LossesAreTold`: while no call has failed
  and none is bound to (`Sound`), a container that ran and does not run is owed
  by a call that has it still to start, or is `Contended` (`LossesOwed`); this
  takes that two calls of a project overlap in only a few ways (`Overlaps`,
  `Branches`), and that a call that names an id which is gone can do nothing but
  fail, so that when all rest and none failed, none was bound to.
  `LineIsKept`: row, offer, searches, container and updates are on the line all
  the time (`AllOnLine`); the container alone is not inductive, since what an
  update applies was offered, what was offered was searched for from a copy of
  the row, and the copy may be older than the last update.  Within a major
  version a newer tag has a second number again (`NewerInMajor`), so `auto` stays
  with `minor`.  They assume of the constants what the types need
  (`TagsAssumption`, `WorldsAssumption`, `PlansAssumption`), that the containers
  there are at first have different ids and belong to one project at most
  (`RecreateAssumption`), and that the row has the tag that runs at first
  (`StartsAssumption`).

Model-checked only: the liveness properties (`OutdatedAlerts`, `FlagConverges`,
`EachHears`), since liveness under fairness is out of the prover's reach.
Every invariant and action property of a passing run is stated by a
theorem; the runs remain what shows that their premises are reached and, by the
mutants, that they can fail.

## Not modelled

- Log streams of direct hosts: each holds a thread of the runtime client's pool
  as long as the container writes.  How long a call of the runtime takes is
  outside the code, and new hosts can only be agents.
- The dictionary of update errors (`_agent_update_errors`): one more dictionary
  per worker, whose only reader shows a text.
- Two rows of one name on a host, which two first syncs may insert:
  `UpdateCheck` has one row per container.
- Rows that differ between two databases, if two browsers fill in the first step
  of the wizard differently.
- The text of alerts and the HTTP of registries, channels and identity
  providers; cookies, passwords and the rate limiter; own profile, timezone and
  password; pages, settings, audit and log files; the DDL of migrations beyond
  its success or failure; the retention job; get_space_access; unused code
  (`check_all_hosts` and the schedule helpers of the checker, which APScheduler
  replaced).

## Plan

1. `AgentUpdates` composed with the checks of `UpdateCheck`: an applied update
   comes to be seen.
2. Syncs that insert rows, and rows of one name.
