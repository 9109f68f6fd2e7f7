# A verification project for LINO 2018

LINO 2018 keeps track of groups of pilgrims. A dispatcher walks with each group
and carries a phone with an Android app (`Tafweej`) or an iOS app (`hajjApp`)
that sends the phone's location, the number of people and a status to a
Firebase Realtime Database. A web map (`haj_web`) listens to the database and
shows one marker per dispatcher: green while it reports, red when it went
silent, gone some time after it stopped.

The apps are small and have next to no tests; what makes them hard is
time and order: intervals whose ids get lost, events of the database that reach
handlers in an order nobody planned, activities that share a singleton, a
process that dies and is restored half way. The one part of the repository with a
storage engine's worth of protocol is vendored: the source of leveldb 1.20, which the iOS
app builds with the Firebase SDK. This directory holds TLA+ models of those parts, their
TLC runs, and theorems checked by TLAPS.

## The system

| component | state | operations | hard part |
| --- | --- | --- | --- |
| Firebase: `Crowd/<id>`, `Campaign/<id>` (external) | one node per dispatcher, one per campaign | set, update; events `child_added`, `child_changed`, `child_removed`, `value` | what an update raises, and in which order |
| web map, one marker (`MyMarker.js`, filters of `App.js`) | status, lost, location, number of people, `intervalId`, the intervals that run | the `child_changed` handler, `timer`, `removeMarker`, render, filters, unmount | `render` starts intervals; ids overwritten; the listener outlives the component |
| web map, the list (`MyMarkerClusterer.js`) | dictionary of crowds, markers by position | `child_added`, `child_removed`, `once('value')` | markers keyed by position |
| Android (`LoginActivity`, `VerificationActivity`, `MainActivity`, `Tafweej`, `Helper`) | the singleton, the activities, listeners on Campaign and on the GPS, permission | sign up, verify, start, stop, seek bar, fixes, lost provider, restore | listeners never removed, one singleton for all activities, process death |
| iOS (`ViewController`, `HomeVC`, `AppDelegate`, `Campaign`) | the user, the saved campaign, the screens, sources of locations; in the SDK the queue of writes and the events | login, start, stop, +/-, location updates, fore- and background | a queue that dies with the process, events later than the next tap, two logins at once, crash between sign-in and save |
| Android `LocationUpdaterService` (not in the manifest) | static flag, watchdog, best location | start, stop, location, provider off | flag says running without permission |
| `demo.py` | a snapshot of the entries | rewrites 500 entries every 3 s | writes over what phones wrote |
| leveldb, memtable (`db/skiplist.h`) | nodes and their pointers, `max_height_` | insert; seek, next, prev of readers without a lock | readers between any two stores of an insert |
| leveldb, levels (`db/version_set.cc`) | the files of each level, memtables, snapshots | get, flush, move, compaction | a flush in the middle of a compaction; entries a snapshot keeps apart |
| leveldb, iterators (`db/db_iter.cc`, `table/merger.cc`, `table/two_level_iterator.cc`, `table/block.cc`) | children, where each is in its table and block, directions, saved key | seek, next, prev | turning round while the memtable grows |
| leveldb, writes and recovery (`db/db_impl.cc`, `LogAndApply`, `Recover`) | logs, tables, descriptors, CURRENT; memtables, counters, the queue of writers, the background thread | write, flush, compact, open; crash | group commit, waiting for each other, failed calls, crashes anywhere |
| cloud functions, service worker, map layout, `node_modules`, other `Pods` | | | commented out, generated, layout, vendored |

The apps interact through the database only. A phone writes its own node; the SDK
of the map compares the old node and the new and calls the handlers of the
list and of the marker, for the children that changed, in key order. The two
apps leave different things: Android replaces the node as a whole, iOS sets one
child at a time. leveldb is linked through the pod FirebaseDatabase, which opens it
(APLevelDB: `create_if_missing`, every other option as it comes) when an app turns
persistence on; this one does not, so that what is shown of leveldb is about code in the
repository that no state of the app depends on today. `PROJECT.json` lists the hazards line by line.

What makes each component right:

- **marker**: an active dispatcher that goes silent turns red, and not before a
  period of silence; a stopped one leaves the map, and only a stopped one does;
  the marker is where the database says.
- **list**: it is the set of crowds in the database, and each has its marker.
- **Android**: only entries the map understands are written; the button, the
  seek bar, the singleton and the entry agree; who stopped stays stopped;
  who started gets to be active.
- **iOS**: it creates an entry before it writes to it, and sets one child at a
  time; the screen settles on what is stored; it comes back to the entry it
  wrote to; locations come in the fore- and the background; Stop gets through.
- **leveldb**: an answered write is found, now and after a crash, a deleted one is not;
  an iterator shows its snapshot; no file is deleted that somebody needs, no number
  handed out twice; every call returns.

## Modules

| module | models | role |
| --- | --- | --- |
| `Crowd` | the node, `child_changed`, what each app leaves in a node | data shared by the others, no variables |
| `MyMarker` | one marker, its node, the filters, the clock | core component |
| `MyMarker_proofs` | | type correctness and five safety properties of `MyMarker`, for all constants |
| `Roster` | | abstract: the list catches up with the database, one crowd at a time |
| `MyMarkerClusterer` | the list and the binding of markers | component, implements `Roster` |
| `MyMarkerClusterer_proofs` | | type correctness, the two bounds on how far markers can be off, and the safety half of the refinement of `Roster`, for any number of crowds and removals |
| `AndroidApp` | the Android app on one phone | component; its guarantee is the environment of `MyMarker` |
| `AndroidApp_proofs` | | type correctness of `AndroidApp`, that guarantee, `StoppedStaysStopped` and `StatusMatchesSeekBar`, for all constants |
| `HajjApp` | the iOS app on one phone, with the SDK | component; the other environment of `MyMarker` |
| `HajjApp_proofs` | | type correctness of `HajjApp` and five of its properties, for all constants |
| `SkipList` | the skip list, its writer and its readers | component |
| `SkipList_proofs` | | type correctness and the four properties of `SkipList`, for all constants |
| `DBFormat` | an entry, the order of entries, what a reader at a sequence number may see | data shared by the next three, no variables |
| `Table` | blocks with restart points, tables, levels of tables, the iterators over them and how a table is laid out | operators of `DBIter`, no variables |
| `VersionSet` | levels of files, reads, flushes, compactions, snapshots | component |
| `VersionSet_proofs` | | type correctness of `VersionSet`, `LevelsDisjoint`, `ReadsAreCurrent` and `TearNeedsSnapshot`, for all constants |
| `DBIter` | an iterator over the database | component |
| `DBIter_proofs` | | type correctness and the three properties of `DBIter`, for all constants |
| `Store` | | abstract: what an answered write is promised, through crashes |
| `DBImpl` | writers, background thread, files, crashes, opening | component, implements `Store` |
| `DBImpl_proofs` | | five safety properties of `DBImpl`, that it implements `Store`, and its type correctness, for all constants |
| `MC*` | | instances for TLC |

The two sides meet in `Crowd`. `MyMarker` is checked against *every* sequence
of nodes in `TafweejNodes` (or of writes in `HajjAppWrites`), and
`AndroidApp` is shown to leave nothing but `TafweejNodes`
(`NodesAreTafweej`), `HajjApp` to make nothing but `HajjAppWrites`
(`MakesHajjAppWrites`), both checked and proved. So what is shown of the marker holds for the real
sender, whatever it does, without building the product of the two.

### `MyMarker`

`marker.crowd` is the part of `this.state.crowd` the code branches on,
`marker.interval` the interval whose id is in `state.intervalId`,
`marker.orphans` the others that run. `SetInterval` is
`this.state.intervalId = setInterval(...)`, which orphans whatever ran;
`ClearInterval` is `clearInterval(this.state.intervalId)`. `Render` is
`render()`: for a stopped crowd it starts a removal interval *each time*
(line 112). `OnLocation`, `OnNumberOfPeople` and `OnStatus` are the three
branches of the listener, chosen by the value as in lines 44-75, and `Notified` runs
them for all the children one update changed, in key order. `Update`
takes in a new node, `Fire` runs a callback that is due, `Tick` moves the
clock, `ToggleShow`, `Rerender` and `Unmount` are the operator and React.
Outside React's own event handlers `setState` of React 16 is synchronous, so a
handler with the state it sets and the render it causes is one step. `app` is the app of the dispatcher, which does not change. Two
history variables, `sinceFix` and `sinceWord`, hold the age of the last
location and of the last word; no action reads them.

The clock is cut into `Period` ticks for the 10 s of every interval. A callback
that is due runs before the clock moves on, so the model has no drift; within a
tick, callbacks and events come in any order. Intervals are a set: two orphans
with the same callback and time left fire together, which changes nothing
as both callbacks are idempotent.

### `MyMarkerClusterer` and `Roster`

`crowds` is the dictionary in its key order, `markers` which crowd the
component at each position has copied into its state. Because React's key is
the position (line 60), a removal unmounts the *last* position, whatever was
removed. `Sync` is any change of the database, also the difference after a lost
connection; `ChildRemoved` and `ChildAdded` are the events it raises, removals
first. The module implements `Roster` with `shown <- Range(crowds)`, safety and
liveness: the *list* is right. The *markers* are not, and the properties say how
far they can be off: right before the first removed position, at most one
crowd without a marker per removal.

### `AndroidApp`

One step is one handler on the main thread. `stack`, `launching` and `mains`
are the task, the activities asked for by `startActivity`, and the
`MainActivity` objects; `tafweej` is the singleton; `signUps` are the listeners
`addValueEventListener` leaves on Campaign, each with what was typed in.
`OnDataChange` is the callback for all of them in order, with the exceptions of
lines 107 and 110. A record of `mains` holds what the object and its views
hold: the `crowdData` it will write (`data`), the seek bar, which
button is shown, whether the listener in the field is registered (`current`),
whether one it replaced still is (`older`), whether a fix is on its way to a
removed one (`late`). `Kill` and `Crash` end the process and keep or cut the
task; the next `Open*` restores its top activity. `ChangePermission`,
`SwitchGps` and `EditCampaign` are the user and the outside world.

### `HajjApp`

`pending` are the writes the server does not have yet, in order; `events` the
values on their way to the observers, which run on the main thread after the tap
that caused them. `View` is an entry as the phone sees it, the queue on top of
the server; `Raised` sends it to the observer if it differs. `logins` are the
taps on Login that wait for an answer, `pushes` the blocks on the main queue
(line 97), `homes` the `HomeVC`s: what each observes, its buttons, its label.
`saved` and `signedIn` outlive the process (UserDefaults, keychain), `Die` drops
the rest, the queue too. A `HomeVC` observes the campaign it was loaded with,
the handlers write to the static one, as in the code. `sources` says which
location updates are on. `Text` is the formatting of a number, `incrementHandler`
and `decrementHandler` read the label back through it.

### `SkipList`

A node is its key, a pointer the key it points to. `Insert` is cut where a reader could run:
the search, the store into `max_height_` (`Grow`), and for each level the new node's own
pointer (`LinkOut`) and its predecessor's (`Publish`). `FindGreaterOrEqual`, `FindLessThan` and
`FindLast` are one loop, `Advance` and `Descend`, one load at a time; they differ in what they return
(`FinishIteration`). A reader takes any height up to the present one, as it reads
`max_height_` without a barrier. A pointer nobody has set is `Wild`. `linked`, `known` and `scanned`
are histories.

### `VersionSet`

A file is a set of entries. `Get`, `VersionGet` and `Candidates` are the search, level by level, as
in the code; `GetOverlappingInputs`, `SetupOtherInputs` and `PickCompaction` choose inputs by ranges of
user keys; `StartCompaction` and `FinishCompaction` are the two sections of `DoCompactionWork` under the
mutex, and flushes and writes come in between. `Drop` is the rule for entries, `Outputs` any way to cut what is
kept into files. `torn` records that a compaction took a newer entry and left an older
one in its level.

### `Table` and `DBIter`

`Table` is made of operators on places. A place in a block is an entry and `restart_index_`: `BlockPrev`
goes back to a restart point and on from there, `BlockSeek` searches the restart points first. A place
in a table is a place in the index and one in a block, a place in a level one in the list of files and one in a table, and
`SkipEmptyForward` and `SkipEmptyBackward` of `TwoLevelIterator` go from one block, or file, to
the next. `TableOf` is `TableBuilder`: entries in blocks, and an index of keys that lie
between two blocks and may be the key of no entry.

`content` is what the children hold, any placement that flushes and compactions could have made, `files` how
that is laid out in tables; `pos` is where each child stands, with the entry there. `MergingNext` and `MergingPrev` are one move of the merging iterator, which
turns the children if the direction changes; one turn of a loop of `DBIter` is one step, and
`Write` puts entries into the memtable between any two. `goal` is the key that the last call
should reach.

### `DBImpl` and `Store`

The disk: `logs` as sequences of batches, `tables`, `manifests`, `current`. The process: the counters and the
tables of the current version (`versions`), the memtables, the queue of writers, the
group being written, the background thread (`bg`), its compaction (`merging`) and the edit it logs. A
step is a section under `mutex_` or a system call between two of them: `Write` joins the
queue; `GiveUp`, `Wait` and `StartGroup` are the outcomes of `MakeRoomForWrite`; `AddRecord`, `Sync`,
`FinishGroup` follow. `StartFlush`, `BuildTable` are `CompactMemTable`, which a compaction may do
on the way; `StartMerge`, `OpenOutput`, `FinishOutput` a compaction, `StartMove` a move; `AppendEdit`,
`SyncEditFails`, `Install` are `LogAndApply` and what follows it. `NewDB`, `Recover`,
`RecoverLogFile` for each log, `NewLog`, `WriteDescriptor`, `SetCurrentFile`, `FinishOpen` open a
database. `ProcessCrash` keeps what was written,
`MachineCrash` any leading part that includes what was synced, both at any point, of opening too.
An append that fails may have written nothing, part or all; behind a part the log may be
unreadable (`sound`), the descriptor too (`tail`, `broken`).

`DBImpl` implements `Store` with `stored` as what a reader finds, or opening would, and `begun` as what is in a
log and not yet visible.

## Runs

| run | bounds | shows |
| --- | --- | --- |
| `marker` | period 2, 2 places, 1 count, 1 campaign; everything that the Android app, or the iOS app, can write | five safety properties, and `StoppedLeavesMap` under `FairSpec` |
| `marker_removed` | the same, 2 counts | **violated**: an orphaned removal takes a dispatcher off the map who has come back |
| `clusterer` | 4 crowds, 4 removals | two bounds on how far the markers can be off, and the refinement of `Roster` |
| `android` | 1 id, 1 campaign, 2 counts, 2 sign-ups, 4 activities | `NodesAreTafweej`, the agreement of screen, singleton and entry, `StoppedStaysStopped`, and `StartedIsActive` under `FairSpec` |
| `hajjapp` | 1 entry, 2 logins at a time, 2 counts, 2 writes and 2 events under way (3 in all) | four safety properties, and `StoppedIsWritten` under `FairSpec` |
| `skiplist` | 3 keys, 3 levels, 1 reader | types, the links, no unset pointer read, scans and searches miss nothing |
| `levels` | 2 keys, 3 levels, 4 writes, 1 snapshot | types, disjoint levels, reads are current unless a key was torn apart, and that takes a snapshot |
| `levels_hop` | 1 key, 2 writes, 1 snapshot | **violated**: "entries never hop across levels" |
| `dbiter` | 3 keys, 4 writes, 3 of them before the iterator is made, each of them possibly a deletion; a memtable, a table of level 0 that is one block with a restart point for every 2 entries, and a level of tables of 2 blocks of one entry | types, the iterator shows its snapshot, and the comments of `merger.cc` and `db_iter.cc` on where it stands |
| `leveldb` | 2 writers, one with sync, 3 writes, 1 crash, 1 failing call; buffer of one write, compaction at 1 table, stop at 2 | types, five safety properties, the refinement of `Store`, and `WriteReturns` |
| `leveldb_lost` | the same | **violated**: "no writes will be lost even if sync==false" when only the process crashes |
| `leveldb_error` | the same without a crash | **violated**: "No more background work after a background error" |

Why the bounds are enough: the marker compares nothing but new against old
values, so two places show a move; the intervals only matter as due before,
at or after an event, so two ticks per period give a before, a middle and an after, and the proofs
drop the bound. `Boxes` limits which check boxes the operator
clicks; any click is a render. Four crowds give a first, two middles and a last, and a second removal
next to the first. In Android four activities are a login, a
verification and two more, so that a second verification sits on a running
`MainActivity` or two clicks on Verify make two of them; two sign-ups are two
listeners that answer in either order. In iOS two events are a
stale one and its successor, two writes a creation with something behind it; a
second entry is beyond TLC, but all safety properties are proved for any number of them. `clusterer` has `CHECK_DEADLOCK FALSE`:
when the bound on removals is used up, nothing may be left to do.

In leveldb three keys give a search something before, at and behind its target, and three
levels a level a reader did not see; the proofs drop both bounds. Four writes are two
entries of two keys, or a key with an entry, its deletion, and one on either side of a
snapshot; three levels are one more than a flush reaches, the level the check for
older entries looks at. An iterator needs entries before it, at it, behind it and
one that comes later; three entries in a block have a restart point in their middle, and a level of
three has two tables, the first of two blocks. In `leveldb` a buffer of one write and triggers of one and two tables make
memtables switch, writers wait and compactions start with the second write already; the
third is under way when those are; one crash and one failing call meet at every point,
whichever is first. Calls fail and writers
write in a reopened database as anywhere. `FewReads` is on in these configurations: one read at a time, which begins
before any crash or failed call and at the moment at which tables leave their version (`FewReadsBegin`); at any
other moment it holds no more than the current version does. The specification has no such guard when
`FewReads` is off, and the theorems hold either way. `CHECK_DEADLOCK FALSE` in its
three configurations: when all numbers are handed out an idle database has nothing to do.

### Fairness

- `MyMarker!FairSpec`: weak fairness of `Tick` and `FireSome`: time passes and
  the browser runs callbacks that are due. Nothing is assumed of phones,
  operator or React; `StoppedLeavesMap` therefore also holds if nobody
  ever touches the page again.
- `MyMarkerClusterer!FairSpec`: the SDK answers `once('value')` and raises the
  events it has.
- `AndroidApp!FairSpec`: an enabled provider sends fixes to its listeners. It is
  weak fairness, so a GPS that goes on and off may send none;
  `StartedIsActive` speaks of a provider that stays.
- `HajjApp!FairSpec`: an SDK with a connection hands over its writes, and the main
  queue delivers the events. A connection that comes and goes promises
  nothing; `StoppedIsWritten` speaks of one that lasts.
- `DBImpl!Spec`: weak fairness of the writer at the front of the queue, of the group being
  written and of the background thread, each as a whole: `PosixEnv::BGThread` runs what is in
  its queue, and a thread that waits for the mutex gets it. Nobody has to write, to
  release a version or to open a database.

## Proofs

`MyMarker_proofs` proves, for every `Period` and all sets of values that
satisfy `CrowdValues` (the kinds of value are told apart, as the handler does
by type), `PeriodAssumption`, `BoxesAssumption` and
`NoneAssumption`:

- `Typing`: the type invariant.
- `SilentIsLostAlways` and `StoppedIsRemovedAlways`, from `Timely`: while a
  mounted marker is active and not lost some interval *of any id* will run
  `timer` before the last word is older than the period; while it is inactive
  some interval will run `removeMarker` in time. The properties are not
  inductive: they say nothing of the intervals, and the code keeps losing their
  ids. What saves it is that an id is lost, not the interval.
- `LostMeansSilentAlways`, from `Prompt`: without an orphaned timer, the time
  left of the current one plus the age of the last location is at least a
  period.
- `TerminatedIsStoppedAlways`, from `Honest`: without orphans the removal
  interval belongs to a dispatcher whose status is inActive.
- `MarkerFollowsPhoneAlways`, from `Follows`: every event of an iOS write leaves
  the marker at the location in the node.

The proofs go through *shape* lemmas: what a handler leaves behind is the render
of a marker known field by field, so that the invariants are shown once for
`Render` and then for each handler.

`MyMarkerClusterer_proofs` proves, for any number of crowds and removals, from
`IdsAssumption` (which makes the crowds finite, so that they can be counted):

- `Typing`.
- `PrefixIsUntouched`, the property `UntouchedPrefix`, and `LossStaysBounded`, the property
  `LossIsBounded`. Neither says that there is a marker for every position, which the
  next step takes for granted: React adds a marker behind the last and
  takes the last away, so that needs `Listed`: no crowd is listed twice, and the markers are as
  many as the crowds. A removal then changes two sets by one element each, and an addition adds
  the crowd to both.
- `ListIsRoster`, the safety half of `FollowsRoster`: `Init` implies `Roster!Init`, a step is
  one of `Roster` or a stutter. That nobody is listed twice makes a removal one of the
  set of those listed. The other half, that the list catches up, is liveness.

`AndroidApp_proofs` proves, for any number of ids, campaigns, places, counts,
activities and sign-ups, from `CrowdValues` and the assumptions of
`AndroidApp`:

- `Typing`, and `NodesAreTafweejAlways`, the environment `MyMarker` assumes.
  Neither is inductive, and each needs the other: `onCreate` of `MainActivity`
  shows the id of the singleton, and an id is only there if somebody
  verified (`Verified`); what an activity writes is complete, or lacks
  campaign and location together, because of when its fields were set
  (`MainReady`): the number of people by the Start that registered the
  listener, the campaign by the fix that set the location.
- `StatusMatchesSeekBarAlways`, from `Steady` on top of that: a `MainActivity` that comes up
  shows a seek bar that can be moved, so the status must not be "Active" then. It is
  not, as the status changes only through a `MainActivity`: while there is none, nobody has
  started, and a process that is not alive has none. Where a second is asked for, the
  property says nothing.
- `StoppedStaysStoppedAlways`, from `Quiet` and `Steady`: while there is one `MainActivity` and its seek bar can be
  moved, its entry does not say "Active". The button that is shown does not tell what is registered: a lost
  provider leaves listeners behind that no button stops, and a fix may be on its way to a listener that
  was removed. What such a fix writes is the status of the singleton, so `Steady` must be there first; and the entry
  of an activity that is still to come is not active, because the verification has just registered it.

`IInv` is the conjunction; the proof of each action shows what it leaves of
`MainReady` for the activity it touches, and that the others stay as they were.

`HajjApp_proofs` proves, for any number of entries, logins, writes and events,
from `CrowdValues` and the assumptions of `HajjApp`:

- `Typing`; the type of an event rests on that of `View`, the last value of each
  child in the queue.
- `EntryHasCampaignAlways` and `MakesHajjAppWritesAlways`, from `Entries`. What the
  server will hold depends on the order of the queue: a creation in it finds
  nothing at its id and no write ahead of it, any other write finds the campaign
  or the creation ahead of it (`Timely`), and every id the app holds, saved, current or
  about to be, is one of those (`Held`). A process that dies drops the queue,
  and the invariant says which ids that leaves without a campaign.
- `SavedIsCurrentAlways`, from `Session`: the last block on the main queue carries
  what was saved. Two logins at once create two entries, and what is saved must be the one that the
  app writes to; the instance of TLC has one id, so this is only proved.
- `AlwaysTrackedAlways`, which is inductive as it stands.

It also proves `ScreenShowsEntryAlways`, from `IInv` and `SInv`. A property of the states without events under way is not inductive; the
invariant says what the events are worth (`Synced`): of those under way for the entry a screen observes, the
last says what the phone sees of it now (`Awaited`), or there is none (`Quiet`) and the screen agrees
already. What the phone sees is the server's entry with the queue on top, so the work is in the queue: a write
that is appended shows at once (`ViewAppended`), one that gets to the server changes nothing
(`ViewDelivered`), and whatever does change raises an event behind the others. A tap shows its
value before the event is there; if no event comes, the entry said so before (`AppliedSame`). A screen whose entry is
no longer the campaign is not written to and need not agree; it never is the campaign again, as the ids that
wait on the main queue are new to every screen and to each other (`Observed`, `Unseen`).

`SkipList_proofs` proves, for any number of keys, levels and readers, from the three
assumptions of `SkipList`:

- `TypeCorrect`, and `AlwaysWellLinked`, the core: between any two stores of an insert
  every level is a sorted list of what is published at it.
- `NoWildRead`, from `OnItsWay`: a search stands on a node that is published at the level
  it is on, and levels above are subsets of those below, so going down is safe, as is the head
  on levels that a reader saw in `max_height_` before anything was linked there.
- `ScanMissesNothing` and `SearchCorrect`, from `Unreached` and `Iterating`: every key that was
  there when an operation began is still ahead of where the thread stands, or already
  behind it and seen; an insert only puts keys in between.

What the writer knows of `prev` while it links (`Finding`, `Linking`) completes the
invariant: no other thread writes, so the predecessors that the search noted stay
predecessors.

`VersionSet_proofs` proves, for any number of keys, levels, writes and snapshots, from
`KeysAssumption`, `SeqAssumption` and `LevelsAssumption`:

- `Typing`: no table is empty, and what a compaction reads stays where it is until it ends.
- `LevelsNeverOverlap`, the property `LevelsDisjoint`. That the files of a level are apart now does not say
  that the outputs of a running compaction will fit, and a memtable may be put into the level they
  go to meanwhile. The invariant `CompactionFits` says it: every file that stays in that level is
  before all inputs or behind all of them. It holds when the inputs are chosen, as those of the lower level are all
  that overlap with those of the upper (`Picked`, `Fits`). A memtable that comes later overlaps with
  no input, but it might lie between two, where an output has entries of both. It cannot, as the
  inputs leave no gap (`NoGap`): in level 0 the range that `GetOverlappingInputs` grows is the least that no
  file sticks out of, so the files found reach each other (`Grown`); those of the
  next level reach the range they were found by (`NoGapAdded`). `NoneOverlaps` shows that the binary search of `OverlapInLevel`
  misses nothing in a level whose files are apart, so the invariant and the search rest on each other.

That the least range exists, that a file has a first and a last entry, and that a search has a
first file, follows from what is stored being finite (`Minimal`).

- `ReadsStayCurrent`, the property `ReadsAreCurrent`, and `NoHopUntorn`: as long as `torn` is false
  entries do not hop, and `Get` answers with the newest entry written up to the number it reads at.
  `GetIs` is the search: it finds the newest of what is *left*, because the memtable is newer
  than every table (`MemNewest`), a table of level 0 newer than those flushed before it (`FlushOrder`) and the levels are
  in the order of age key by key (`Stacked`); `FindFileIs` and `LevelHit` are the binary search in a level.
  `Faithful` says what may be gone: the newest entry that a live reader may see is there, or it was a
  deletion and nothing is left of what it deleted. Why a compaction keeps that: rule (A) drops only what
  a newer entry hides from everybody, as nobody reads below `smallest` (`CompactionKnows`).
  A deletion that is dropped has nothing older left anywhere (`DroppedDeletion`): in upper levels all is newer,
  in its own and the next there is nothing by the choice of the inputs (`PickedClear`) and as nothing is torn,
  deeper down `IsBaseLevelForKey` looked. It looked at the *input* version only: what was
  flushed into deeper levels meanwhile has none of the keys of the inputs, as
  `PickLevelForMemTableOutput` passes no level that overlaps.
- `NoTearUnheld`, the property `TearNeedsSnapshot`: without a snapshot a compaction keeps one entry of a key, so
  a key is in one file of a level above 0 (`Unheld`), and in level 0 the inputs are closed (`ZeroClosed`).

`DBIter_proofs` proves, for any number of keys, writes, files of level 0 and levels, any sizes of blocks and
files, any restart interval and any placement of the entries, from `KeysAssumption`, `SeqAssumption`,
`RestartIntervalAssumption`, `ChildrenAssumption`, `FlushedAssumption`, `SizeAssumption` and
`NoKeyAssumption` (the null key is no user key):

- `WellTyped`, the property `TypeOK`;
- `AlwaysExact`, the property `IteratorIsExact`;
- `NothingMissed`, the property `ChildrenMissNothing`;
- `JustBefore`, the property `ReverseIsJustBefore`.

The proof goes from the bottom up, and each layer has only one fact about the one below: after a move an
iterator is on the first, or the last, entry of the set that the move names. For a block, that is
`BlockSeekIs`, `BlockNextIs`, `BlockPrevIs`; the binary search in the restart points needs a measure, as the function that
describes it calls itself: that it is a function at all is `SearchExists`, that it ends at a
restart point before the target is shown for the least range on which it would not (`RestartBeforeIs`). For a table
and for a level it is `TableForwardIs` and `LevelForwardIs`, with `IndexIs` and `FindFileIs` for the
block or the file that a seek is sent to. They ask that the parts are in order, not empty, and that a key of the
index is between two blocks (`GoodTable`, `GoodLevel`), and `LaidDown` shows that `TableBuilder` leaves
it so. From there on a child is a set of entries: `SeekIs`, `NextIs`, `PrevIs` say the same of memtables and files.

The invariant, `IterInv`, has three parts. `Stored`: the files hold what their children do, and entries have numbers of their
own. `Merged`: every child stands on an entry of its own or nowhere, the current one is the next of them, and
none has left an entry behind that the snapshot sees. The last is `ChildrenMissNothing` itself, and it is inductive only
together with the others, and only for what the snapshot sees: a write puts an entry between a child and its
next one at any time, with a number that is too high. `Loop`: in each loop what was
sought is the next key among the entries still to come. Forward (`Onward`), those of the key that is to be skipped do not count; in
reverse (`Backward`), the entries of a key come oldest first, so that the saved value is the
newest of those that came, and it is final when an entry of an earlier key is seen. `Onward` and `Backward` are
about sets of entries only, and each action has one lemma.

`DBImpl_proofs` proves, for any number of writers, writes, reads, files, crashes and failed calls, every
size of a buffer and every trigger, from `TriggerAssumption`, `BoundsAssumption` and `NoneAssumption`
(the null value is no number, no group and no set of writes):

- `FilesAreKept`, the property `NeededFilesExist`, from `FInv`. That needed files exist says nothing of
  what a deletion goes by, and that is what the invariant adds: the descriptor says what is
  installed, or during `LogAndApply` what is about to be (`DescriptorAgrees`), unless an error has
  stopped deletions; a compaction that holds its inputs counts them among the live ones
  (`ReferencedExist`), its output is among the pending ones until it is installed
  (`EditIsReady`); the descriptor of a new incarnation never replaces the current one, as a
  descriptor's number is below every number it says is next (`DescriptorShapes`).
- `NoLostWakeup`, the property `NobodyIsForgotten`, from `QInv`: who is at the front of
  the queue, leads or sleeps (`InLine`, `Grouped`), and that a sleeper waits for something that
  keeps the background thread busy, a memtable to flush or enough tables at level 0 to compact
  (`Sleeping`, `Busy`); it is `TriggerAssumption`, that compactions start no later than
  writers stop, which makes the second true. The tables are finite, so that their number is one.
- `DescriptorStaysReadable`, the property `DescriptorReadable`, from `RInv`: a descriptor is synced before
  CURRENT names it, but for the first, and part of a record at its end is there only when the error
  of the append is known (`DescriptorAgrees`), so what comes behind it is late.

- `SequenceNumbersAreFresh`, the property `SequencesAreFresh`: no write that a reader or an opening
  can find has a number that the next group will get.
- `FileNumbersAreFresh`, the property `NumbersAreFresh`: no file that is needed is written over, and
  no log begun again.

The last two hold in a running process because its counters only grow; the work is in the openings, which take
the counters from a descriptor that may be an old one. The invariant, `GInv`, therefore speaks of
what is on the disk. A descriptor leaves numbers for what it does not know: those of its
tables and their writes are below its own counters, of what has reached the disk as of what was written
(`DescriptorsSound`). What is held in memory or promised by the disk is below the counters of the
process (`HeldSound`), and what is about to be appended says so already (`EditSound`). The logs that an
opening would read are above the number it starts from, so that it marks them as used, and their writes
are no later than the counter plus the group that is being written (`LogsSound`, `MemSound`). A table
that is being built is none of the others (`OutputsApart`). An opening continues from the
highest number it finds in the logs; that there is one follows from their being bounded (`BoundsAssumption`).

It also proves, on top of these invariants:

- `PromisesKept`, the property `KeepsPromises`: `Init` implies `Store!Init`, and every step of
  `DBImpl` is one of `Store` under the mapping or leaves its variables alone. An answered write is
  found after the crash of the process, one with a sync after the crash of the machine too, and what
  was lost stays lost, through any number of crashes, of failing calls and of openings that do not get
  to their end. `acked` leaves out the writes that were answered behind a failed append in the same log: they
  may be lost, which is what `leveldb_lost` shows.
- `TypesKept`, the property `TypeOK`.

All steps but three must leave the stored writes as they are, though they move them from memory to
logs and tables; the answer of a group and the two crashes are the steps of `Store`. The invariant,
`PInv`, says where a promised write is before anybody asks. `Kept` is the core: what was answered is in the
tables of the descriptor, or in that part of its logs that a crash leaves, and what was synced likewise
for *both* descriptors that a machine crash may bring back, the written and the synced one. A log
that a descriptor has replaced may still hold writes; they are in its tables, or nobody finds them now, so that
an older descriptor brings back nothing that was lost (`Crash` of `Store` forbids that, and a log that is
kept too long is how it would happen). That a flush or a compaction takes nothing away is in what its edit
means (`EditMeans`): a compaction adds what its inputs hold, a flush adds what is in `imm_` and gives up only logs
that the memtable is not in (`LogsBehind`), and the descriptor is never behind the installed version unless
an append to it failed (`Descends`), after which nothing is deleted. A group is the last batch of
its log when it is answered, and a leader syncs for all that want it (`GroupLogged`); a log is torn by a
failed append only behind what was answered before (`LogShapes`). An opening has at any point recovered, or left
to read, all that it would find from the start (`Replayed`). `PCrash` shows the crashes once for both.
The types need little more: the numbers and levels in versions, edits and descriptors come from
each other (`SaidTyped`), and a memtable that is full is not empty.

Only model-checked: the liveness properties (`StoppedLeavesMap`,
`StartedIsActive`, `StoppedIsWritten`, the fairness part of `FollowsRoster`), which are out of
reach of the prover, and `WriteReturns`.

## What the runs found

The violated runs are disagreements with the README or a comment of the repository;
`findings` in `PROJECT.json` quotes them.

- `marker_removed`: intervals whose ids were overwritten remove the marker of a dispatcher who
  resumed or registered again.
- `levels_hop`: with a snapshot held, a compaction may leave two entries of a key on both
  sides of a cut between two files, and a later one takes only the file with the newer: it is
  then below the older, which reads find first. If the newer is a deletion it may even be
  dropped, as nothing lies further down. `ReadsAreCurrent` says that reads are right until
  then, and `TearNeedsSnapshot` that without snapshots, which the SDK does not take, it does not
  happen.
- `leveldb_lost`: `options.h` promises that a crash of the process alone loses no write. A failed append to
  the log is answered with an error but stops nobody (a failed sync does): the next write goes behind
  what the append left, is answered with success, with a sync even, and an opening cannot read it. `Store` does not
  promise such writes, and `KeepsPromises` says that all others are kept.
- `leveldb_error`: a failed flush in the middle of a compaction stops neither the flushes nor
  the compaction. What they append to the descriptor may come behind part of a
  record, and the database may not open again: the `late` clause of `DescriptorReadable`.

Other properties that do not hold, each in a few steps and without an interleaving: with
every box unticked a dispatcher registered as "InActive" stays on the map, as `render` compares
with "inActive"; an iOS dispatcher whose first location arrives after its marker was mounted
never appears; a location after Stop makes a dispatcher active again; after one refusal of the
permission Start never asks again; after a removal some crowd has no marker
(`LossIsBounded` says how many).

Others have no sentence to contradict: Stop before the first fix wipes
the campaign and the location of the entry; a provider that was off leaves a
listener that Stop cannot remove (what it goes on writing is not active, `StoppedStaysStopped`); a restored `VerificationActivity` registers an
entry without a campaign; an iOS process that dies offline right after the login does the
same; a user who is signed in without a saved campaign never gets out of
a Home whose buttons write nothing; three quick taps on + may count two; an edit of Campaign brings up a verification on top of
a running session; in leveldb, a log
that cannot be opened is skipped and then deleted; a machine that goes down before the
first descriptor of a database is on the disk leaves one that does not open.

## What is abstracted, and what is not modelled

- Places are fixes that differ; `Nowhere` is `<<0, 0>>`, whose latitude
  JavaScript takes for false. Headings, animation, info window contents, zoom
  and clustering by the Google map are left out.
- One life of the page in `MyMarkerClusterer`; a page that is closed starts over.
- One phone in `AndroidApp`, and connected: a write is in the database at once.
  Nobody else writes to its entry, so a collision of ids between phones
  is a hazard without a property.
- One phone in `HajjApp`, and nobody else writes to its entries but to delete
  them. A fix raises a second event when the server has set its timestamp; it says
  the same as the first and is left out. A phone without a connection hears of a
  deletion later, which is as if it happened later. A process dies between
  handlers, not within one.
- leveldb: a batch is one write, its sequence number is its name. The sleep of 1 ms in
  `MakeRoomForWrite` is a wait for the mutex. Sizes (a file, a level, a group) are
  choices. A directory operation is on the disk when it returns. A recovery writes one table per log.
  A call that fails is one of those that write, sync or make a file; the logs of an existing database can be opened. A
  compaction takes all of level 0, with the rest or without.
- Not modelled in leveldb: closing a database (`~DBImpl`, `shutting_down_`: the SDK closes it
  with the process), manual compactions and empty batches (nobody calls them), `reuse_logs` (off),
  files that cannot be read or parsed, caches, filters, compression, encodings, `repair.cc`, `c.cc`.
- Not modelled: `LocationUpdaterService` (never started), `demo.py`, cloud
  functions (commented out), service worker (generated), layout, logging, the other
  vendored code: headers of closed libraries and the encoding of messages by nanopb.

## Plan

Done: `Crowd`, `MyMarker`, `Roster`, `MyMarkerClusterer`, `AndroidApp` and `HajjApp`, then leveldb:
`SkipList`, `DBFormat`, `VersionSet`, `Table`, `DBIter`, `Store` and `DBImpl`; proofs of all eight components. Next:

1. `DBImpl` with a database that is closed, and several readers in an instance of it.
2. `Tracking`, an end-to-end specification: phone, node and map in one,
   with an abstract specification of what the operator sees.
3. Several phones on one set of ids, and two entries in `HajjApp`, on smaller instances.
