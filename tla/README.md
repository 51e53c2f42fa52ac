# Bahn-Projektmanager: a TLA+ model of its data plane

This directory holds TLA+ modules for the server-backed part of the Bahn-Projektmanager, the
TLC configurations that check them on small instances, and theorems checked by TLAPS. The
modules are translated from the source, file by file; `PROJECT.json` names, for every
definition, the lines it stands for.

## The system

A React application talks tRPC to Node processes over one MySQL and one Redis. A change makes
this way:

    browser  --tRPC-->  ProjectService  --one transaction-->  MySQL: row, audit, domain_events
                                                                        |
    ProjectSyncEngine  <--SSE--  gateway  <--  LocalHub  <--  Redis  <--  OutboxRelay
           |                                                              (numbers and publishes)
           +--- projects.list / sync / changes: the durable way round a lossy stream

| Component | State it keeps | Operations | What makes it correct |
|---|---|---|---|
| Write path (`projectService.ts`, `mysqlProjectStore.ts`, retry loop in `RealtimeProvider.tsx`) | project rows with `syncVersion`, audit rows, `idempotency_keys` | update, review edits, create, delete; claim, lock, conflict, commit, retry | once per action, on the version the user saw, and the answer is true |
| Outbox and relay (`mysqlOutbox.ts`, `relay.ts`) | `domain_events` with `feedSeq`, `processedAt`, `failedAt`; GET_LOCK | insert, number, publish, stamp, dead-letter | an append-only feed in version order, at-least-once delivery, nothing blocks it |
| Hub and bus (`hub.ts`, `redisBus.ts`) | channel members, confirmations, queues; Redis subscriptions | subscribe, extend, detach, deliver, reconnect | one subscription per channel of interest, no stream live before its subscription |
| SSE gateway (`gateway.ts`) | open streams, hints owed | connect behind the barrier, hello, scope changes, write, disconnect | after hello nothing is missed without a hint |
| Stream connection (`connection.ts`) | state, confirmed scopes | loop, hello, reconcile | Live only when caught up |
| Sync engine (`projectSyncEngine.ts`, `serverProjects.tsx`) | rows by version, parked events, cursor, optimistic edits | apply, recover, catch up, resync, seed, optimistic edits | a copy is a committed version, never goes back, never stays behind unseen |
| Bookings, checklists (`bookingService.ts`, `checklistService.ts`) | slots, drafts | book, release, save, submit | one slot, one booking; a submit is all or nothing |
| Notifications (`mysqlProjectStore.ts`, `notificationRetention.ts`) | inbox, unread counters | insert, mark read, purge | the counter equals a recount |
| Pruefbericht links, register import (`pruefberichtLinkService.ts`, `registerImportService.ts`) | links, source keys | link, bulk link, apply a plan | nothing points to a deleted project; a decision stays; nothing is registered twice |
| Presence (`presence.ts`, `presence.tsx`) | members with a lifetime in Redis, publish timers | beat, leave, sweep, publish | who is there is shown, who is not is not |
| Read models (`readModels.ts`) | counters by delta | deltas, rebuild | counters equal a recount |
| Caches (`freshRead.ts`, `singleFlightCache.ts`) | value, load in flight | get, read | no answer older than promised |
| Read queries, identity, user interface, acceptance and ITK rules, demo mode, agent | none shared, or one browser's | | |

The hard parts: transactions commit in another order than their ids; several relays may
believe they hold the lock; every message between relay and browser may be lost, repeated or
overtaken by an answer to a query; the browser retries what may have happened; subscriptions
are shared, asynchronous and refusable; transactions deadlock and start over; Redis is asked in
several round trips; crashes fall between any two steps. `PROJECT.json`
lists each as a hazard, at its line, with the properties that cover it.

## Modules

| Module | Models | Checked by |
|---|---|---|
| `ChangeFeed` | what the outbox promises: an append-only feed in version order, delivered without gaps | (abstract) |
| `Outbox` | writers' rows, the relay on every node, the bus as a set | `outbox`; `OutboxProofs` |
| `ProjectStore` | what the write path promises: versioned rows on which an action takes effect once, in one step | (abstract) |
| `ProjectWrites` | the write path with the browser's retry loop | `project_writes`; `ProjectWritesProofs` |
| `SyncEngine` | the browser's copy, and the queries and stream that feed it | `sync_engine`, `sync_live`, `sync_off_screen`, `sync_stale`; `SyncProofs` |
| `Hub` | hub, Redis connection and gateway of one process, with its shared read of the feed head | `hub`, `hub_refused`; `HubProofs` |
| `Scopes` | the scopes of one browser's stream: `connection.ts` and the gateway's POST handler | `scopes`, `scopes_stuck`; `ScopesProofs` |
| `Store` | the tables and row locks that services share; claim, commit, deadlock retry | (extended below) |
| `Bookings`, `Imports`, `Links`, `Inbox` | one service each over `Store` | (composed below) |
| `Records` | the composition: all of these services on one database | `records`; `RecordsLocks`, `RecordsProofs` |
| `Presence` | who looks at a scope: tabs, Redis store, sweeper, publishers, one browser | `presence`; `PresenceProofs` |

The modules whose names end in `Proofs`, and `RecordsLocks`, which `RecordsProofs` extends, hold
theorems that TLAPS checks; see *What is proved*.

The modules with runs of their own meet at interfaces rather than in one state space. `Outbox` shows
that `domain_events` is an append-only, version-ordered feed; `Hub` and `SyncEngine` start from
such a feed (their `Number` and `feed`). `ProjectWrites` shows that a project's events are its
history without gaps, which `SyncEngine` takes as given (`Shown`). `SyncEngine` in turn does not
rely on `Hub`: its live events come in any order and any of them may be lost; that a stream
loses nothing silently is what `Hub` adds. `Scopes` takes a channel's confirmation as one step,
`Hub` shows what is behind it. `Records` composes five modules in one state space, since
their services wait for each other's row locks.

In every module definitions marked `(mutant)` are plausible bugs of the definition that follows
them. They are used by no action: they serve to show that a property notices the bug.

### Outbox

A row is inserted under its aggregate's row lock (`RowLocked`, `Insert`) and takes its id there;
`Commit` makes it visible, `Abort` leaves a hole. `drain()` is cut at each of its statements:
`Acquire` (GET_LOCK), `Select` (numbered rows not yet stamped, then unnumbered ones), `Number` (one
UPDATE that numbers the parseable rows of the selection, in id order, from `MAX(feedSeq)` on), the
loop (`Publish`, `PutAside`, `PublishFails`, `LoopEnds`), `Stamp`, `Bury`, `Release`.
`LoseConnection` frees the lock while its holder goes on publishing, since the loop does not touch
the database, and the holder's next statement throws (`Throw`). `Crash` loses what the process had
in memory; the table stays. The type invariant also says that only committed rows that parse are
numbered. `Feed` instantiates `ChangeFeed`: an event of the abstract feed is a numbered row
(`NumberedEvents`), its delivered prefix are the rows that were sent after all lower ones
(`SentInOrder`).

### ProjectWrites

An attempt `<<key, n>>` is the n-th send of a user's action, and one transaction: `Claim` (INSERT
IGNORE waits for an open claim of the same key, and replays a stored answer), `Lock`
(SELECT ... FOR UPDATE), then `RefuseStale`, `FindNothingToDo`, `Update`, `Delete` or `Create`,
which end it. What an attempt reads after the lock is the last committed state: InnoDB takes the
snapshot at the first consistent read, which in all these operations comes after the lock.
`Deadlock` starts a transaction again as a whole, `Kill` ends it without a commit,
`Disconnect` lets the browser send again while the old attempt goes on. Row, event, audit,
notifications and stored answer are one commit, and the event stands for them. Three edits are
one operation here (`update`, `updateReview`, `createReview`), which differ in the fields they
touch. The browser's retry loop runs for edits; creation and deletion are calls of the API whose
caller is taken to retry in the same way.

`AsStore` instantiates `ProjectStore`, in which there are no attempts, locks or retries: its projects
are the committed rows, an action's `effect` is the stored answer, and what its user is told is the
`result` the browser shows. An action acts in one step on the version its user had seen, and only
while its user has not been told that it came too late or is refused; a user is told the effect, a
conflict or a refusal only while it is true. Only "failed" leaves open what happened: the code gives
up after the last send although an attempt may still run, and commit, on the server.

### SyncEngine

Everything the browser does between two awaits is one step; what is in flight is state, read at one
moment on the server (`CatchUpRead`, `ListRead`) and arriving at a later one. `sync` reads in two
steps: `RecoveryRead` and `ResyncRead` are its first query, the versions of all the rows it is asked
for, with the check of what the user may see (`Answers`); `RecoveryLoad` and `ResyncLoad` load,
later and row by row, the events or the snapshot owed (`Loaded`), which nothing checks again. A
resync asks for at most `SyncLimit` rows at a time. A copy is the set of versions whose changes it
contains, so a bridged gap or an older row over a newer one shows. `Live` is any visible event at
any time, in any order, or never. Simplifications: the events and, if they turn out too few, the
snapshot of a row are read in one step (a later snapshot is one of the outcomes anyway), reviews are
not kept apart from their project, and rows of one call are loaded in any order; one list request is
in flight at a time; no event arrives on the stream while the resync runs (`connection.ts` does not
read on before `onReconnect` returns); the browser starts connected, the first hello's catch-up
being a `Poll`; the catch-up's guard of 50 pages is left out; a scanned page is bounded by the
number of events.

### Hub

One process with one subscriber connection (`up`). Commands wait (`sent`) until Redis has executed
them (the first `done`) and its reply has come back; replies and messages share one order (`back`).
`kept` is what ioredis will subscribe again, `at` what Redis knows of; a stream's queue and what was
written to it are in `out`. `Break` loses all that is on its way; `Mend` is ioredis connecting
again, subscribing again to what was acknowledged and repeating what was not, followed by the
gateway's two hints (after 300 ms and after 3 s, `redisBus.ts:38`). They fire whether or not
everything is subscribed again: what is missing at the last one goes into `late` (`NotBack`), and
`MaxLate` bounds how often it comes too soon. `Refuse` is a SUBSCRIBE answered with an error:
streams that wait for it in `connect` end with 503, an open stream stays attached (its browser
reconnects when it gets the frame "subscribe failed", some time later). `live` and `base` are the
promise: from which event on the browser may expect a channel's events. `hello` names a head of the
feed that was read after the confirmation. That read is shared (`freshRead.ts`): `LoadToWaitFor`
says whether a stream joins the load under way, waits for the next one, or starts one; a load that
began before the stream asked is never good enough. The reading happens when a load starts; failed
loads and equal clock readings are left out. Each stream lives once and adds scopes one set at a
time.

### Scopes

The browser's loop and `reconcile()` run beside each other: `conn` is the attempt and what the
browser believes of its stream, `run` the one reconciliation that may be under way, with its batch,
the batches after it, the HTTP answer and the frame on the stream, in either order. `server`, `jobs`
and `wire` are the gateway: streams with their channels, changes accepted with 202, control frames.
`SetScopes` changes what the page wants at any moment; `PostLost`, `ConnectFails`, `Break`,
`Decline` and a failing `RowsRead` or `SyncEnds` are faults. `rows` says which rows are out of date,
have an event coming, or will be read again. `stray` remembers what an answer to an earlier stream's
request put into `live`, and whether this stream has seen one. Simplifications: requests have no
ids; handling a frame is atomic; frames that arrived with the last one before an abort are dropped;
an answer slower than 6 s, or a request still out at the next hello, counts as a fault; `onSync` and
the catch-up bring every row up to date in one step, also one seeded behind the cursor, which the
feed alone would leave old (`sync_off_screen`); the heartbeat watchdog and the online and offline hooks,
each of them an abort, are not separate; only rows are scopes.

### Records (Store, Bookings, Imports, Links, Inbox)

A user's action has a key and may be sent several times (`Resend`: a caller or proxy repeats the
request; the pages themselves make a new key for each call). Each send is a transaction. Before
each statement it takes the rows that statement needs, one at a time, in any order (`Lock`), and
keeps them to the end. The statements of one operation come in the code's order: `book` and
`release` are one, `submit` locks the draft, creates the project, locks the slot, notifies;
`setLink` locks the project, then the report; `autoLink` reads a snapshot and then works in chunks
under shared locks; `delete` tells the watchers, unlinks reports, drops the keys; `import` plans
from a snapshot and claims keys row by row. What a transaction writes appears at its commit; what
it decides is read under its locks, except where the code reads a snapshot (`CheckProject`,
`Plan`, `OwnersOf`). `Cycles` finds the groups that wait for each other, and one member of each is a
`Deadlock` victim: retried as a whole up to `MaxTries`, or answered with an error if it has no key.
`Kill` ends a transaction without an answer.

Row locks and their detection are InnoDB's and modelled as such. Left out: gap locks, and the shared
lock a duplicate insert takes (here exclusive, which waits more); the time limit on lock waits. The
three booked statuses are one; one unread counter per user stands for one per workspace; the match
of a report is the constant `Matches`; the version check of a deletion is in `ProjectWrites`; the
right to an action is the constant `may` of its request, although `canViewProject` and
`canEditProject` (`bookingService.ts:70`, `pruefberichtLinkService.ts:58`) depend on a workspace
that can change between two sends; which notifications are old enough to purge is open; of an
import, only rows the evidence decides.

### Presence

Each call of the Redis store is cut at its round trips: who has expired, drop them, read before,
write, compare. `Beat`, `Leave`, `Sweep` and the publisher run through the same steps, between each
other's. Time is abstract: `Expire` may strike any member whose tab is silent, and, `MaxLates` times,
one whose tab is only late. `Schedule` and `WindowEnds` are the coalescing: at once, then one trailing
publish per window. `view` is a browser that stays connected. Left out: states and several tabs of
one user (a change of state travels as a join does), throttle and rate limit, the memory store,
lists loaded by browsers, lost snapshots, node crashes; reading and sending a snapshot is one step.

## What the runs show

Every configuration says `CHECK_DEADLOCK FALSE`: users, events and faults are finite, so the
system rightly stops when all is done.

| Run | Instance | Shows |
|---|---|---|
| `outbox` | 2 nodes, 2 aggregates, 3 rows (the second unparseable), batch 2, 2 faults | `FeedOrder`: unique numbers, in version order per aggregate. `FirstDeliveryInOrder`: the bus sees each event first after all lower ones, also with two relays. `StampedWasSent`: at least once. `ImplementsFeed`: refinement of `ChangeFeed`, so that no number changes and none is given below the head. `BacklogDrains`: every committed row is published or dead-lettered |
| `project_writes` | 3 users (editor, editor without the right to delete, administrator), 1 project and 2 free ids, 2 fields, 2 sends, 2 faults, window 1 | `RowIsReplay`: a row is what its events say. `ExactlyOnce`: one action, at most one event. `NoLostUpdate`: an edit only lands on the version its user saw. `AnswersHold`: what the browser is told happened. `DisjointIsHonest`: a conflict called disjoint is, as far as the window reaches. `ImplementsStore`: refinement of `ProjectStore`. `EveryActionEnds`: in the end no user waits |
| `sync_engine` | a project that is edited and one that leaves the view and returns, replay limit 2, page 2, 1 row per `sync`, 1 drop, 1 failure | `CopyIsExact`: a copy holds exactly the changes of a committed version. `NeverBackwards`. `RemovedOnlyIfGone`: a row disappears only if its project was out of view at the version the browser held, or held when it asked, or at a later one. `NoHeldRowFallsBehind`: the catch-up never passes an event that a row already held, at a version in view, still needs |
| `sync_live` | a project at rest and one created and edited, 1 drop, 1 failure | `EveryProjectAppears`: every visible project reaches the browser whatever the stream loses |
| `sync_off_screen`, `sync_stale` | one project, created and edited | violated: see below |
| `hub` | 2 streams, 2 channels, events to one or both, queue 1, 2 events, 1 outage or 1 refusal, 1 late hint; streams are symmetric | `BarrierHolds`: what was published to a channel a stream calls live is written, queued, on its way, or a hint is owed; channels refused or late are excused. `SubscriptionsFollowInterest`: when nothing is under way Redis knows exactly the channels with members. `StreamFollowsFeed`: a stream writes each event once and in feed order |
| `hub_refused` | the same, 1 event, no outage | violated: see below |
| `scopes` | 4 rows, one forbidden; 1 row in the connect URL, 1 per POST, cap 2; 2 stream ids, 2 changes of mind, 1 event, 2 faults | `LiveIsHeld`: what the browser counts as live the server sends. `LiveRowsAreCurrent`: a live row is current, or an event or a read is on its way. `TypeOK` with the cap on a stream that is not given up. `ScopesSettle`: in the end the server sends all that was not denied |
| `scopes_stuck` | the same, 2 per POST, 1 change, 1 fault | violated: see below |
| `records` | 2 users with 3 actions (one sent twice, one mortal), 1 slot, 1 draft and 1 free checklist id, 2 reports, 2 projects and 2 free ids, 2 registrations, chunk 1, 2 tries | `NoDoubleBooking`. `SubmissionIsWhole`: all of a submission or nothing, once. `UnreadIsExact`: badge = recount. `NothingPointsToTheDeleted`: links and keys name live projects. `RegisteredOnce`. `DecisionsStand`: the bulk run never overwrites a link set or removed by hand. `LinkAndDeleteNeverDeadlock`. `NoMeansNo`: an action answered with a conflict or a refusal has no effect, before or after. `EveryRequestEnds` |
| `presence` | 1 node, 2 tabs of which one leaves or dies, 1 late beat, 2 calls at a time | `ChangesArePublished`: a reported change is followed by a snapshot read after it. `StoreSettles`: in the end the store holds exactly the tabs that are there |

Why these bounds are enough. Commits out of order need two aggregates, two numbers in one batch and
a third row left for a later drain; two publishers need two nodes and one lost connection, and a
second fault then hits the successor. An edit that overtakes needs a third action between a user's
read and write; a retry that races its original needs two sends; one more fault makes a deadlock or
a kill meet a disconnect. A gap needs two versions behind the copy: the project that returns has
them, and at limit 2 it is answered by a replay, a snapshot or "gone", each of which may meet a
later version; a request limit of 1 makes two calls of a resync. At window 1 the project's three
actions can put two versions behind a user, one of them beyond the window. Crossing SUBSCRIBE and
UNSUBSCRIBE need two streams of one channel; duplicates need two channels; the queue overflows at
the second event. `OneMishap` keeps an outage and a refusal out of one behaviour. Several batches,
refusals by the cap and rows beyond the connect URL all occur with three readable rows at limits 1
and 2; an answer that meets the next stream needs two streams, and ids are used again. The three
actions of `records` meet in every combination of the operations listed per key in `MCRecords`: two
suffice for each pairwise race and a crossing of locks, the third makes chains; a chunk of 1 and two
matched reports make `autoLink` lock projects while it holds a report. The sweeper and one tab's
beat, or its beat and its goodbye, are the calls whose steps cross in `Presence`; the second tab
keeps the scope alive.

### Fairness

* `Outbox`: weak fairness of each node's relay. `schedule()` sets the timer again after every tick,
  also a failed one (`relay.ts`), and a dead process is restarted. Writers and faults are not fair.
* `ProjectWrites`: weak fairness of the server's steps together and of the browser's handling of
  replies. MySQL and Node finish what they started; faults are finite, users need not act.
* `SyncEngine`: weak fairness of the relay, of each kind of request and its answer, of the 30 s poll
  and of the reconnect loop. Nothing is assumed of live events.
* `Hub`: none, its properties are safety properties.
* `Scopes`: weak fairness of the work of browser and server together: timers fire, requests and
  frames arrive, the loop tries again. Nothing is assumed of events, faults and the user.
* `Records`: while some statement can run, or some deadlock can be broken, the database does one of
  them. Users need not act, and nothing is assumed of who wins.
* `Presence`: each call goes on (weak), a tab that is there beats again and again and the sweeper
  comes again and again (strong: both are timers, and the bound on calls under way may disable them
  for a while), and what nobody renews expires.

### Where code and documentation differ

Four runs state what a comment or document of the repository says, and TLC finds it violated.

* `sync_off_screen`: off-screen rows "are refreshed by the 30 s feed catch-up"
  (`docs/realtime.md:116`), unless a list page seeds them behind the cursor: the catch-up ignored
  their event because the row was unknown, and moved past it.
* `sync_stale`: "the UI never claims "Live" while stale" (`connection.ts:11-12`), unless the resync
  joins a catch-up that had read its page before the reconnect. The rows held are compared by the
  `sync` that follows; what is missing is a project that was created, or moved into view, by an
  event up to the head of hello. The next poll finds it.
* `hub_refused`: "every event published from now on is guaranteed to reach this stream"
  (`gateway.ts:172-174`), unless a SUBSCRIBE of that channel was refused to another stream that
  is still attached.
* `scopes_stuck`: a reconciliation "falls back to a reconnect on any failure" (`connection.ts:100`),
  unless the stream ends while an accepted request waits for its frame and the next attempt
  clears `acks` (line 184): `await ack` (line 122) then never returns, and `reconciling` stays set.

Five more configurations reproduce a disagreement and are not among the runs:

* `MCConflictWindow.cfg` (module `MCProjectWrites`): "`disjoint: true` (none of my fields were
  touched)" (`docs/data-plane.md:29`) only holds for the oldest 100 missed events
  (`projectService.ts:635`): `DisjointAsDocumented` is violated, with the constants of
  `project_writes`.
* `MCSyncMoved.cfg` (module `MCSyncEngine`): on a move out of view "the row disappears", on "every
  delivery path (live stream, reconnect feed, aggregate sync)" (`docs/realtime.md:68-77`). `sync`
  checks the version it reads first (`projectService.ts:157-164`); a project that moves out before
  its snapshot is read (line 172) arrives as it is after the move and stays (`CopiesAreInView`),
  until something asks for it again.
* `MCHubLate.cfg` (module `MCHub`): the sentence of `hub_refused` without any refusal. After an
  outage the last hint comes at 3 s, though the "second hint covers a slow resubscribe"
  (`redisBus.ts:37`): what is published between it and a later resubscription is lost, and nobody is
  told.
* `MCPresenceSilent.cfg` (module `MCPresence`): "a sweeper [...] expires silent members and
  publishes the new snapshot" (`docs/realtime.md:89`). A beat, a goodbye or a list drops the expired
  members itself, before it takes the snapshot it compares with (`presence.ts:114`), so it reports
  no change; the sweeper then counts as many members as it reads (`presence.ts:135-137`) and reports
  none either. The silent tab stays on other screens until the next change or reconnect.
* `MCScopesCeiling.cfg` (module `MCScopes`): `maxStreamScopes` is a "ceiling on scopes a live stream
  may hold" (`gateway.ts:36`). A change makes room for all it removes, also for what the stream does
  not hold (`gateway.ts:85`): a second request of a stream that is being given up can remove what
  the first has removed, and a scope that is live by an earlier stream's answer can be removed.

Two more pass and take longer than a run should: `MCSyncTwo.cfg` checks the safety properties of
`sync_engine` with two projects that change and both in one `sync` call, `MCHubFaults.cfg` those of
`hub` with an outage and a refusal in one behaviour.

### Known limits of what holds

`CopyIsExact` says that a copy is a committed version, not one in view (`MCSyncMoved.cfg`), and so a
row may disappear whose own version is the one that left. `RemovedOnlyIfGone` says that what is
removed has been out of view, not that it still is: an answer "gone" carries no version, so an old
one that arrives late removes a row that has come back in the meantime (`projectSyncEngine.ts:261`),
until something reads the list again. For the same reason `EveryProjectAppears` is checked for
projects that do not leave the view: with one that leaves and returns it fails. No document promises
otherwise, so this is no finding; it is listed as a hazard.

`NoHeldRowFallsBehind` is about rows that were not behind before and are held at a version in view:
for one held at a version out of view the feed may lack the next event, which is filtered out. A
list page may seed a row behind a cursor that has passed its event (`sync_off_screen`), or, while
the walk over a feed page waits for another project's recovery, behind the part of the page that is
walked; `Behind` counts both.

`BarrierHolds` is stated for channels of which no SUBSCRIBE was refused and that were subscribed
again when the last hint after a break came; the others are the subject of `hub_refused` and of
`MCHubLate.cfg`.

That a row and its event agree when a step of a transaction fails is MySQL's promise, taken as
given: a commit is one step of `ProjectWrites`. `NoLostUpdate` compares versions; that the value of
an edit was chosen in view of that version is not modelled. `NoMeansNo`, and `AnswersHold` for
refusals, hold as far as rights do not change between two sends of an action.

`LinkAndDeleteNeverDeadlock` is about a link set by hand and a deletion, of which
`pruefberichtLinkService.ts:54` and `docs/project-register-import.md:178-179` say it. The bulk run
is another matter: its later chunks lock projects while it holds the reports of the earlier ones, and
it can deadlock with either; the retry resolves that, as `EveryRequestEnds` shows. After three
defeats the caller gets an error.

`RegisteredOnce` is for rows the evidence decides. A registration that an administrator confirms as new
claims no key, so two such imports create two projects, and an identity typed by hand while an
import runs is not excluded either. A deleted project leaves its slot booked for it: the code
has no step that frees it. A bulk link rests on a match computed from the snapshot; a number edited
before the shared lock does not undo it.

`LiveIsHeld` and `LiveRowsAreCurrent` except `stray` scopes: an answer to a request of the previous
stream is added to `live` whichever stream is open (`connection.ts:123-124`), against the comment on
`live` at `connection.ts:54`. `ScopesSettle` excepts what the server denied: scopes refused by the rate
limit or the cap are not asked for again on that stream.

Of presence: two nodes may publish the snapshots they read in the other order (`presence.ts:238`), and
a browser keeps the older one until the next change; a goodbye and a beat of one tab that overlap on
two calls can hide it until its next beat, or leave it until it expires.

## What is proved

TLAPS proves these for every value of the constants that meets the named assumptions: any numbers of
users, nodes, streams, rows, retries and faults.

| Module | Theorem | Property |
|---|---|---|
| `OutboxProofs` | `TypeCorrect` | `TypeOK` |
| | `FeedInVersionOrder` | `FeedOrder` |
| | `FeedIsAppendOnly` | no number changes, none is given at or below the head (`FeedAppendOnly`) |
| | `StampedOnlyAfterSending` | `StampedWasSent` |
| | `DeliversInFeedOrder` | `FirstDeliveryInOrder` |
| | `OutboxImplementsFeed` | `ImplementsFeed`, the refinement of `ChangeFeed` |
| `ProjectWritesProofs` | `TypeCorrect` | `TypeOK` |
| | `RowFollowsEvents` | `RowIsReplay` |
| | `TakesEffectOnce` | `ExactlyOnce` |
| | `NobodyOverwritesUnseen` | `NoLostUpdate` |
| | `UsersAreToldTheTruth` | `AnswersHold` |
| | `DisjointIsTrueInWindow` | `DisjointIsHonest` |
| | `HistoryOnlyGrows` | no event is changed or taken back, a deleted project stays deleted |
| | `WritesImplementStore` | `ImplementsStore`, the refinement of `ProjectStore` |
| `RecordsLocks` | `LocksHoldWhatWasRead` | the invariant `Held` below |
| `RecordsProofs` | `TypesAreKept` | `TypeOK` |
| | `SlotsAreBookedOnce` | `NoDoubleBooking` |
| | `SubmissionsAreWhole` | `SubmissionIsWhole` |
| | `BadgeIsExact` | `UnreadIsExact` |
| | `LinksPointToProjects` | `NothingPointsToTheDeleted` |
| | `ADecisionStands` | `DecisionsStand` |
| | `ProjectFirst` | `LinkAndDeleteNeverDeadlock` |
| | `OneProjectPerRegistration` | `RegisteredOnce` |
| | `ANoIsFinal` | `NoMeansNo` |
| `SyncProofs` | `TypesAreKept` | `TypeOK` |
| | `ACopyIsItsVersion` | `CopyIsExact` |
| | `NoCopyGoesBack` | `NeverBackwards` |
| | `OnlyWhatLeftIsRemoved` | `RemovedOnlyIfGone` |
| | `NothingNeededIsPassed` | `NoHeldRowFallsBehind` |
| `HubProofs` | `TypesAndBounds` | `TypeOK` |
| | `InterestIsKept` | `SubscriptionsFollowInterest` |
| | `FeedOrderIsKept` | `StreamFollowsFeed` |
| | `BarrierIsKept` | `BarrierHolds` |
| | `PromiseHoldsUnlessRefusedOrLate` | `NothingPublishedIsMissed`, if Redis refuses no SUBSCRIBE and no last hint comes too soon |
| `ScopesProofs` | `TypesAndCap` | `TypeOK` |
| | `LiveIsConfirmed` | `LiveIsHeld` |
| | `NothingMissedWhileLive` | `LiveRowsAreCurrent` |
| `PresenceProofs` | `ReportsArePublished` | `ChangesArePublished` |

Every safety property of the passing runs is among them. The assumptions are those the modules
state: `OutboxAssumption`, `WritesAssumption`, `StoreAssumption` and `LinksAssumption`,
`SyncAssumption`, `HubAssumption`, `ScopesAssumption`. Beyond the types of the constants they ask
for finite sets where something is counted or sent as a list (`Users`, `Earlier`, `Channels`,
`Scopes`), that requests are well formed (`Wants`, `IsMeant`), that no registration is there twice
at the start, and that reports have an order (`Rank`, the order of ids in which `autoLink` goes
through them). None limits concurrency.

### The outbox

`FeedOrder` is not inductive. `IInv` adds three parts:

* `RowOrder`: of two rows of one aggregate the later id has the later version, and the versions do
  not pass the aggregate's. This is what the row lock gives: an aggregate has at most one open row.
* `SelectionSound`: what a relay holds between `Select` and `Number` contains, with each unnumbered
  row, every committed row of the same aggregate with a lower id that is not processed. A LIMIT cuts
  a prefix in id order (`FirstByIdClosed`), so it never splits an aggregate the wrong way, and what
  commits later has a higher id.
* `NumberingSound`: numbers are unique and, per aggregate, in id order; below a numbered row every
  committed, parseable row of its aggregate has a number too, so none is left to be numbered
  behind it.

`NumberEffect` says what the one UPDATE does, with `RankGrows` about the rank of a row in a finite
set; every other action leaves numbers alone (`NumbersUnchanged`). `FeedIsAppendOnly` follows
from `NumberEffect`. For the order of delivery, `DeliverySound` adds that every numbered row below
one in a relay's hands is in the same hands or has been sent; it holds also for a relay that
lost its lock, since its selection was complete when it was made and numbers only grow.

The refinement needs that nothing is skipped (`Dense`): numbers have no gap, by counting
(`RankBounded`, `NumbersWithoutGap`), and an aggregate's committed versions neither
(`VersionsCount`). Then `Commit` is `Feed!Commit` (`CommitMaps`), `Number` is `Feed!Extend` or, when
no selected row parses, nothing (`NumberMaps`), the first sending of a row is `Feed!Deliver`
(`SendMaps`), also when the drain then fails, and every other step leaves the feed as it is
(`WhatIsSeen`).

### The write path

`IInv` has five parts besides types. `ClientSound`: attempts are numbered in the order of sending.
`LocksSound`: an open transaction holds its key alone, no answer is stored under the key, and past
the row lock it holds a live row alone. `LedgerSound`: the events of a project are numbered from 1,
each is what its key asked for, on top of the version it named, and the answer stored under that key
is this event's. `Replayed`: a field's value is the last one its events gave it. `AnswersSound`:
what was answered cannot become false, since versions only grow, deleted projects stay so and stored
answers stay. `ExactlyOnce` rests on the second and third together: what excludes a second effect is
the stored answer once it is committed, and before that the claim that is still held.
`DisjointIsTrueInWindow` bounds no history: it speaks of the versions the code looks at
(`projectService.ts:635`).

The refinement rests on `AnswersSound`. An attempt that holds claim and row has no stored answer and a
live row at the version its user named, so whatever its user was told before can only be "failed":
a conflict or a refusal would be false now (`HolderMayAct`). That is why each commit is an allowed step
of the store (`CommitActs`, `NothingToDoActs`), however many attempts overlap and whoever has given up.
Conversely each answer a browser accepts stands when it arrives, whenever it was given, so that telling
it is a step of the store (`TellingIsInforming`, `ClientActs`). Claims, locks, refusals on the server,
deadlocks and dying processes show nothing (`RestIsInvisible`).

### Bookings, submissions, links, imports, notifications

The common invariant `Held` says what row locks are for. `Shaped`, `Tables` and `Asked` are types
and the form of requests; `LocksSound` that no two transactions hold conflicting locks; `WorkSound`
that whatever a transaction has found out about the rows it holds, at each of its statements, is
still so. `RecordsLocks` says what each statement and each commit changes, and that a commit of one
transaction touches nothing another has under lock (`Stays`, `Keeps`), then what each statement adds
to what is known. `LocksHoldWhatWasRead` puts this together. The theorems then add what the tables
say of each other:

* a slot's last event is its status (`EventsFollow`), for `NoDoubleBooking`;
* who was told no has a request that can never be met again (`NoIsFinal`: versions, deletions and
  submissions are not taken back), for `NoMeansNo`;
* submission, project, slot, stored answer and notifications each imply the others (`Announced`,
  `Answered`, `BookedWhenDone`, and what `SubmissionsAreWhole` names), for `SubmissionIsWhole`;
* the counter is the number of unread rows, and those that mark or purge hold the rows they
  count, for `UnreadIsExact`;
* a living project of a registration is the one its key names, or was there before (`Registered`), for
  `RegisteredOnce`: an import decides from an old snapshot, but it holds the key when it creates.

`ProjectFirst` is about waiting: a link set by hand and a deletion lock the project before any
report, so that in a circle of such transactions none could hold what the one before it waits for.

### The browser's copy

`Inv` says that what the browser has fits the versions the server has committed. `CopyFits`: a copy
is empty or 1..v for a committed version v not older than what the browser could load (`MayHold`).
`RecoveryFits` and `AnswerFits`: what a recovery or resync asks about is such a version, and its
answer speaks of committed ones; "gone" only of a project that was out of view at the version asked
about or has been since (`LeftSince`). `FeedFits`: the feed has the versions of a project without a
gap and in order, so that an event whose predecessors are covered is never a gap (`NextCovered`).
`PageFits`: the page under way begins behind the cursor and ends within the feed. `Blank`: before
the first list page nothing is held, so nothing can be behind the cursor it sets.

What one event does is `ReplayFits` and `MergeFits`; what one answer does, `ApplyAnswerFits`.
Replaying many events (`ReplayAll`) and walking a page (`Walk`) are recursive functions: `Counting`,
an induction on a set of naturals by its least missing element, carries the facts about one event
over to all of them (`ReplayAllFits`, `WalkFits`). Two relations compose: `Later`, by which the
first copies follow from the last, and `Onward`, its weaker form for answers, which may bring back
what was gone or remove what left after the version they were asked for. `Sound` then says of every
step that it keeps `Inv`, moves no copy back, removes only what left (`Forward`) and leaves no copy
behind the catch-up (`NoneLeftBehind`); only `CatchUpArrives` moves the catch-up on, and there it is
`WalkFits` that counts.

Two properties were corrected on the way. `RemovedOnlyIfGone` asked that the project be out of view
at the moment of the removal, which fails for a project that comes back; and `NoHeldRowFallsBehind`
compared with the cursor alone, which fails when a list page arrives in the middle of a walk. The
earlier, smaller instance of `sync_engine` had no project that returns. A third, `CopyIsExact`, said
that a copy's version was in view, which held only while `sync` was one step of the model.

### The hub

`SubscriptionsFollowInterest` and `BarrierHolds` speak of the end of a chain, what Redis knows and
what a stream is sent; the invariant follows a channel along it. `Wired`: what ioredis would
subscribe again, followed by the commands without a reply, ends in what the hub wants (`members`).
`Heard`: the same of what Redis knows, followed by the commands it has not executed. `Paired`:
replies come in the order of their commands, so that the one the hub takes is that of the first
command. `Awaited`: while a subscription is under way everyone attached waits for it. Hence a stream
that waits for nothing listens to channels that Redis knows of. `Covered`: what was published since
is in its hands, queued or on the connection, unless a hint is owed; for a stream that waits for the
head of the feed it holds from the head that is being read on (`From`). `InOrder` keeps event
numbers sorted from the connection to the browser. What is not yet subscribed again (`Again`,
`Missing`) is warned of until the last hint and `late` after it (`Connected`). Channels refused or
late are excepted throughout, as in `BarrierHolds`. Where no SUBSCRIBE is refused and no last hint
comes too soon nothing is excepted (`MishapsAreCounted`), and the gateway's own sentence holds
(`PromiseHoldsUnlessRefusedOrLate`): those two mishaps are all that can break it.

### The scopes of a stream

`IInv` follows the one change that may be under way on the stream that is read (`Step`): asked for,
accepted by the server (`Taken`), answered by a frame on the wire (`Answered`), known to the browser
while the HTTP answer is out (`Told`), or given up while the stream still is read (`TooLate`). At
each stage `CurrentBut(D)` says that what is live is held and current, but for the scopes D that the
server has already dropped. One change at a time is what makes an answer still describe the channels
when it is counted (`AnswerCounted`, `AnswerSent`). `OneStream` says that only the stream that is
read has channels, changes and frames, `Attempt` that an attempt reads its hello first, of a stream
no reconciliation knows. For the cap, `Removing` says that what is to be removed is live, so that
the room it makes is there (`RoomIsKept`). The proof showed why this needs a stream that has not
been given up: of two requests of such a stream both may remove the same scope. The instance of
`scopes` is too small to meet that, and an earlier form of `TypeOK` without that condition passed
there.

### Presence

`Timed` adds to `ChangesArePublished` that a node that publishes, or has a publish queued, counts as
having published just now. So a change that is published at once meets no older publish under way,
and when the window ends with nothing queued nothing is owed. That is the argument for
`presence.ts:228`, which drops a report when a publish is queued, and would be wrong if it also did
so while one is running.

### Only model-checked

Liveness, which needs fairness and ENABLED: `BacklogDrains`, `EveryActionEnds`, `EveryProjectAppears`,
`ScopesSettle`, `EveryRequestEnds`, `StoreSettles`.

The proof modules use no RECURSIVE operator.

## What is not modelled

* In modelled components: the request hash of an idempotency key (a key used with another body),
  validation, permission on a move's target, `recordDocumentAction`; optimistic edits,
  `syncRows` in the engine, the capacities of seen sets (512 and 4096), React Query;
  `update({remove})` at the hub, the in-process bus, the control channel between nodes, connection
  caps, heartbeat frames, authentication; filters for notification and presence events; and what
  the module sections above name.
* Read models: their deltas are written by the commits of `ProjectWrites`; the rebuild, which would
  race with them, is called by tests and seed scripts only. `SingleFlightCache` and `KeyedCache`:
  their callers ask for answers that may be 5 to 60 s old. The one invalidation (`routers.ts:551`,
  after an import of reports) is undone by a load already under way, for another 30 s;
  `docs/data-plane.md` promises no less.
* Read queries, identity, HTTP wiring, demo mode, the agent, the user interface, the acceptance and
  ITK rules: stateless, one browser's own, pure functions of one document, or presentation. They are
  most of the repository's lines.

## Plan

Built, in this order: the outbox, the write path, the engine, the hub; then `Records` with its
services, `Scopes`, the shared read of the feed head, `Presence`.

Left to model: optimistic edits as an extension of `SyncEngine` (begin, confirm, rollback and
`syncRows`; a confirmation or rollback can put back a project whose deletion arrived meanwhile,
`projectSyncEngine.ts:324-339`); crossing snapshots of two nodes in `Presence`; the open rows of an
import.

Abstract specifications worth stating: a replica that follows a feed for `SyncEngine`, a broadcast with
a barrier for `Hub`.

Proofs left: none of the safety properties the runs check; of the abstract specifications above, the
refinements, once they are stated.
