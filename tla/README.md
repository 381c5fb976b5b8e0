# TLA+ models of pypowervm

pypowervm is the Python client library of the PowerVM REST API: OpenStack's PowerVM driver
and others use it to manage logical partitions, virtual I/O servers (VIOS), storage and
networks. Everything it knows of the managed system it has from REST calls; everything it
changes it changes by GET, modify, POST under an *etag*. This directory holds models of the
parts of it whose correctness depends on the order of things: threads that share a session,
a lock or a wrapper, background threads, callbacks, retries, timeouts, failing calls, and
hosts that share nothing but a storage pool.

Paths below are relative to `src/pypowervm/`.

## 1. Inventory

| Component | State it keeps | Operations | Interacts with |
|---|---|---|---|
| `entry_transaction` (`utils/transaction.py`, `utils/retry.py`) | a lock per UUID (oslo `lock.synchronized`), a thread-local list of the UUIDs this thread has locked | decorated call: lock if needed, resolve the wrapper or getter, func, refresh and redrive on an etag mismatch, unlock | every task that updates an object; workers of a FeedTask, which get a copy of the list |
| `WrapperTask`, `FeedTask`, `Subtask` (`utils/transaction.py`) | common list of Subtasks, WrapperTasks per UUID, `provided` dicts, saved kwargs in shared Subtasks | add Subtasks to all or to one, replicate over a feed, execute in parallel threads, post-execs | `entry_transaction`; TaskFlow (external) runs the tasks |
| `Session` (`adapter.py`) | session token, `_logged_in`, `_relogin_unsafe`, an RLock | logon, request, re-login on a 401 and retry, logoff | the REST server; all threads of the process |
| `EventListener` (`adapter.py`) | the listener of a Session, handlers, poll thread | get, subscribe, unsubscribe, shutdown, poll, dispatch, format a feed of events | Session; handlers call back under the re-entrant lock |
| `Adapter` (`adapter.py`), helpers (`helpers/`) | none of its own | builds paths and headers for CRUD calls; `vios_busy` sends a request again | Session.request; the retry decorator around both |
| `Job` (`wrappers/job.py`) | entry with the status read last | create, poll, cancel, delete; two background threads | REST server; every long operation |
| Power (`tasks/power.py`, `tasks/power_opts.py`) | options of the attempt | progressions of soft and hard shutdowns | Job, partition, RMC |
| Image upload (`tasks/cluster_ssp.py`) | marker and image LUs in the shared storage pool | `get_or_upload_image_lu` | other hosts, through the pool only |
| Virtual terminals (`tasks/vterm.py`) | port/UUID to repeater maps, peers and killer of a repeater | open, accept, add and remove clients, kill after five idle minutes, close | sockets, `mkvterm`/`rmvterm`, three kinds of threads |
| Storage tasks (`tasks/storage.py`, `tasks/vopt.py`) | upload semaphore; the media repository found last, in two globals | uploads, life cycle of disks, media and LUs, scrubbing, finding or creating the repository | FeedTask, Job, threads and pipes of an upload |
| hdisk tasks (`tasks/hdisk/`) | none | discovery, LUA recovery, scrub and second discovery | Job, the scrubs |
| Mappers (`tasks/scsi_mapper.py`, `tasks/vfc_mapper.py`) | mappings of a VIOS | add, find, change, remove mappings, choose ports | `lock.synchronized`, retry, `entry_transaction` |
| Slot map (`tasks/slot_map.py`) | slots by adapter type | register, drop, save, load, build out | storage and network tasks |
| Network bridger (`tasks/network_bridger.py`), `tasks/cna.py` | network bridges, load groups, trunks; VLANs in use | ensure and remove VLANs, arbitrary PVIDs, point-to-point connections | `lock.synchronized`, other users of the bridges |
| SR-IOV (`tasks/sriov.py`) | logical ports, vNIC back devices, a readers-writer lock | choose physical ports, safe update of labels | FeedTask, `entry_transaction` |
| LPAR builder, validation (`utils/lpar_builder.py`, `utils/validation.py`) | attributes of the user | defaults, ranges, checks of a deployment or a resize | wrappers, other calls that use up the host |
| Partition, migration, IBMi, memory tasks | none | waits for RMC and VIOSes, single Jobs | Job |
| Monitoring (`tasks/monitor/`) | current and previous metrics, running counts of cycles | refresh, derive | REST server |
| Wrappers, entities (`wrappers/`, `entities.py`) | XML documents with etags; caches of the getters | typed getters and setters, lists, life cycle, getters | all |
| `traits`, `util`, `log`, `const` | none | functions of strings, constants | all |

What is hard here, and therefore what the properties are about:

* **Concurrency without a common lock**: workers that inherit a list of locks; Subtask objects
  shared by threads; `get_event_listener`, the vterm maps and the killer without a lock; hosts
  that elect an uploader by reading a list of LUs.
* **Stale copies**: a wrapper fetched before the lock, a token refused meanwhile, the status of
  a Job as it was read last.
* **Retries and timeouts**: redriven transactions, a request sent again after a re-login, a
  power-off Job that takes effect after its timeout, a cancelled Job that completes.
* **Partial failure and crashes**: locks, markers and partial images left behind.
* **Re-entrance**: event handlers that (un)subscribe from their callback.
* **Decisions from old data**: ports, VLANs, slots, processors and images are chosen from a feed
  that was read before, while other threads and hosts choose from theirs.
* **Several REST calls for one change**: a VLAN on a bridge and its peers, a disk and its image,
  an image and its clones; each of the calls may fail, and others see what is between.
* **Editing in place**: documents whose children the server takes in one order only, and lists
  that are views of an element that may be replaced.

`PROJECT.json` lists the hazards at their lines, with the properties that cover them.

## 2. Modules

| Module | Models | Notes |
|---|---|---|
| `VersionedObject` | what the REST server promises of an object | abstract specification, refined by the next |
| `EntryTransaction`, `MCEntryTransaction` | `entry_transaction` with retry and etag check | one thread stack per thread; workers have a `Parent` |
| `EntryTransactionProofs` | theorems about it | |
| `FeedTask`, `MCFeedTask`, `FeedTaskProofs` | `Subtask`, `WrapperTask`, `FeedTask` | building, then one thread per wrapper |
| `Session` | `Session` | every exchange with the server is a step |
| `EventListener` | `Session.get_event_listener`, `_EventListener`, `_EventPollThread` | events are numbers in the order of their happening |
| `EventFeed` | `_format_events` | one entry at a time, against a definition on the whole feed |
| `EventProofs` | theorems about both | |
| `Job` | `run_job`, `PollAndDeleteThread`, `CancelJobThread` | |
| `PowerOff` | `power_off`, `power_off_progressive`, their flows | every attempt is a Job reduced to its outcome |
| `ImageUpload` | `get_or_upload_image_lu` | every REST call of every host is a step |
| `Vterm` | remotable VNC console of one LPAR | listener, repeaters, killers, clients, `close_vterm` |
| `Retry` | the `retry` decorator around requests with `vios_busy_retry_helper` | one loop of retries inside another |
| `StorageUpload` | uploads of `tasks/storage.py` | threads, pipe, semaphore, retries, clean-up |
| `StorageMapping` | `scsi_mapper`, scrubbing, hdisk discovery | the vSCSI mappings of one VIOS |
| `LogicalUnits` | LUs, images and clones of an SSP | `crt_lu`, `rm_ssp_storage`, `rm_tier_storage` |
| `Vopt` | `validate_vopt_repo_exists` | the media repository and the two globals |
| `SlotMap` | `slot_map` | source, saved blob, rebuild on a target |
| `NetworkBridger` | `network_bridger`, both variants | bridges with their peers, foreign users |
| `PointToPoint` | `cna` | connections with VLANs of their own |
| `VfcMapper` | `vfc_mapper` | port maps, mappings, migration mappings |
| `Sriov` | `sriov` | back devices, labels under the readers-writer lock |
| `LparBuilder` | `lpar_builder`, `validation` | dictionary to LPAR, checked and posted |
| `Partition` | the wait for VIOSes of `partition` | times in steps of the sleep |
| `Metrics` | the caches of `monitor` | samples, guests, cycles |
| `Wrappers` | `entry_wrapper`, `entities` | documents, lists, life cycle, getters |
| `TaskProofs` | theorems about `Job`, `Retry`, `Vterm`, `PowerOff`, `StorageUpload`, `ImageUpload`, `LparBuilder`, `Metrics` | with the sums of the last two |
| `PlacementProofs` | theorems about `Partition`, `LogicalUnits`, `Vopt`, `PointToPoint`, `SlotMap` | |
| `StorageProofs` | theorems about `StorageMapping`, `Sriov`, `VfcMapper` | |
| `NetworkProofs` | theorems about `NetworkBridger` | |
| `ClientProofs` | theorems about `Session`, `Wrappers` | with the sequences that documents are |
| `MCTasks` | `ImageUpload`, `Job`, `PowerOff`, `Vterm`, `StorageUpload`, `Retry` together | for TLC |
| `MCVios` | `NetworkBridger`, `PointToPoint`, `LogicalUnits`, `Vopt` | for TLC |
| `MCStorage` | `StorageMapping`, `SlotMap` | for TLC |
| `MCPlacement` | `EventFeed`, `VfcMapper`, `Sriov`, `LparBuilder`, `Partition`, `Metrics`, `Wrappers` | for TLC |
| `MCEvents` | `EventListener`, making the listener before using it | for TLC |

`MCTasks`, `MCVios`, `MCStorage` and `MCPlacement` put components side by side that share no state: a behaviour explores one of them
(its *focus*) while the variables of the others stay as they are, so that the states add up
instead of multiplying.

Each module has the state of the component as variables (with a comment that says what each is
in the code), one action per step that other actors can observe, and the properties at its end.
An operator whose comment says *mutant* is a deliberately wrong variant of the definition that
follows it; nothing refers to it, and putting it in the place of that definition must make a
property fail. `PROJECT.json` maps every definition to the lines it was translated from.

**EntryTransaction.** `Plan[t][l]` is the object of the call at nesting level `l` of thread `t`,
`Parent[t]` the thread whose FeedTask runs `t`. A call goes through `lock` (`_lock_if_needed`,
either `SkipLock` or `AcquireLock`), `resolve` (`_resolve_wrapper`), `body` (func: POST, nested
call, fork, return or raise, in any order), `refresh` (the `argmod_func` of the retry decorator)
and `unwind` (the `finally`). An object is its etag and the set of modifications it reflects:
enough to tell whether a POST undid one. What func computes, delays and texts are left out.
Lock orders: the plans nest in one order, because nothing in the code prevents threads with
opposite orders from waiting for each other for ever.

**FeedTask.** `common`, `tx` and `sealed` are `_common_tx`, `_tx_by_uuid` and whether it is
still empty. Execution splits a Subtask in two steps, putting `provided` into the shared
`save_kwargs` and calling `execute`, because other threads run in between. TaskFlow's engine is
external: it runs the tasks in any interleaving and waits for all of them. The transaction
around a WrapperTask appears as `Mismatch` (refresh and redrive).

**Session.** `valid` is the set of tokens the server accepts; tokens expire (`MaxExpire` times)
and credentials may be refused from some moment on. Request, 401, waiting for the lock, logon
(with its retries of the connection, `ConnTries`), retry and `_logoff` are separate steps.
Headers, TLS, file-based authentication and XML are left out.

**EventListener.** A dispatch holds the lock while it calls one handler after the other by
`index`, as Python iterates over a list that may be changed: callbacks that unsubscribe shift
it. `owed` records who was subscribed throughout the dispatch and has not been called;
`lapsed` that at some time all handlers had left. `token` is how often the Session has logged on;
`_EventListener.__init__` takes the application id from the token of the moment (`appOf`), and the
server has one event queue per id (`feedOf`). `Relogin` can come between any two steps of
`get_event_listener`, so that two threads may each make a listener, one per token; each has its
`appOf`, the handlers and poll threads modelled are those of one of them.

**EventFeed.** The event types of the code in five classes. `LastWordWins` and `GeneralIsLast`
say of a whole feed what the fold over its entries must yield.

**Job.** Both threads share the entry of the wrapper; `entry` is the status read last, `job` the
status on the server. REST faults are bounded by `MaxFaults`.

**PowerOff.** All argument combinations are initial states. `late` counts timed-out Jobs the
server still works on, which may take effect at any time.

**ImageUpload.** A host is one call. Hosts are numbered in the order of their markers' names.
Whether the server refuses a second LU of the same name is not known from this code and left
open. `foreign` is an LU of another image whose name contains the wanted one, since `_find_lus`
matches by substring. Every request may fail (`ReadFails`, `MarkerFails`, `ImageFails`,
`UploadFails`, `UnmarkFails`), and one that creates or deletes may have been carried out all the
same: the answer is lost (`lost`). Neither creation is inside the `try` that would delete what
it made, so such a marker or empty image stays.

**Vterm.** One LPAR and port. The accept loop, adding a pair (two steps, without a lock),
`_peers` going away, starting, aborting and firing of killers and `stop` are separate steps;
authentication and tunnel handshakes end in accepted or refused.

**Retry.** A call sends `NReqs` requests per try; each answer is a success, an etag mismatch,
"VIOS busy", another HTTP error, a connection error or another exception. The helper answers
"busy" first; what is left reaches `http_codes`, `retry_except`, the response checker and the
test function of the decorator in the order of the code. Delays are the position in the
stepped sequence, not seconds.

**StorageUpload.** One call per upload: the File artifact, waiting for a permit, one upload (by
path, by handle or by a function that writes into a pipe, with its reader and writer), giving
back the permit, deleting the artifact, removing the virtual disk of a failed upload under its
own etag retries. `MaxCallFaults` calls fail, anywhere, creations also after they were carried out.
The stream is opened (`OpenStream`: the function of an `IO_STREAM_BUILDER`, or `open`) after the File
was created and before the `try` that deletes it (`unopened`). A thread can be interrupted while it
waits for a permit or uploads (`Interrupted`): the `finally` clauses run, the `except Exception` that
removes the disk does not (`interrupted`), and a wait that is interrupted adds a permit (`surplus`).

**StorageMapping.** A mapping is its server adapter, client LPAR, bus and storage. Calls add,
remove and remap under `vscsi_mapping`, scrubs run under the lock of the transaction, and
`LparDeleted`, `LparCreated` recycle IDs at any time; the server checks only the etag. `vw[t]` is
the wrapper a thread works on, which is the caller's own copy in the first try and a fresh one
after a mismatch. `comprehensive` is `ComprehensiveScrub`, with the stale LPARs found once.
Discoveries recover, look for stale LPARs, scrub and discover again.

**LogicalUnits.** The pool is a set of LUs with an etag; `rm_ssp_storage` is a transaction on a
copy, `rm_tier_storage` a feed and one DELETE after another, and clones are created without any
lock. **Vopt.** The scan goes VIOS by VIOS and group by group as the code does; the globals are
written in two steps.

**SlotMap.** The elements of a source are registered, more are attached and detached, saving may
fail; the blob is loaded for a target and `RebuildSlotMap` decides slot by slot. Volumes that
several VIOSes see are the case that matters: the order of the slots and the VIOSes already used
up decide who gets what.

**NetworkBridger.** A bridge is its primary PVID with tagged VLANs and additional trunks, on
itself and on its peer. `ensure` and `remove` go through validation, placement on a trunk or load
group with room, a new arbitrary PVID, the peers, and, for VNET, the virtual networks; each REST
call is a step. `Touch` is another user. VIOSes have orphaned trunks, whose VLANs are refused.
**PointToPoint.** The VLAN is looked up and used in two calls under `VLAN_LOCK`.

**VfcMapper.** Plans are derived, added, removed and derived again in any order, mappings lose
their ports; migrations choose ports per fabric and per group of slots. Port maps are functions
from the position of a pair in the plan to the WWPN of a port, built one map at a time by the
code's choice (the next VIOS in turn, then a port that is used least). `MaxUse` is the limit of
128 maps per port. WWPNs come in two spellings, and the code's sanitizing is part of the model. **Sriov.** Filters in the order of the
code, then the choice by card and VIOS; saturation changes between reading the System and
creating the vNIC.

**LparBuilder.** Attributes are records with `None` for what the user left out; `Standardized`
applies defaults and ranges in the code's order and yields either an LPAR or an error.
Validators compare it with the host and the LPAR that were read before. The server has the last
word (`PostLpar`), and `PowerChanges` turns LPARs on and off.

**Partition.** The loop of GETs and sleeps with its two limits; VIOSes boot, shut down, gain and
lose RMC. **Metrics.** A refresh is a query (of the previous sample, if there is none, and the
current one), then the differences per LPAR. Guests spawn, migrate in with cycles spent
elsewhere, leave, and come back (`stay` counts the arrivals) with what they spent meanwhile
(`Elsewhere`), or are created again with the same ID and name and counters at zero. The code
compares ID and name only, so it takes two stays for one: `strayed` is what that adds or takes away.

**Wrappers.** A document is the sequence of its first-level children. `inject` places a child by
the schema's order. `content` records what the caller has meant the document to say, and `held`
the lists it has read, each a view of one element. An append is lxml's: a new element is added
(`AppendToList`), one that is already in a list, of this document or another, is moved
(`MoveToList`), which also takes it out of `content` of the wrapper it was in. The getters (single, feed, with `refresh` and
`refetch`) are steps per GET, since an object may vanish in the middle of a feed.

## 3. Runs

`tlc -workers 2 -config <cfg> <module>`; each takes less than four minutes on two cores.

| Run | cfg, module | Properties | Distinct states |
|---|---|---|---|
| `transaction` | `MCTransaction`, `MCEntryTransaction` | MutualExclusion, RetriesAreForOutOfBandChanges, NoLostUpdate, EveryCallEnds | 176,427 |
| `feed_task` | `MCFeedTask`, `MCFeedTask` | EverySubtaskReachesAll, FinalTryCounts, ExecuteEnds | 662,742 |
| `session` | `MCSession`, `Session` | AtMostOneRejectedLogon, CarriedOutOnce, ReloginOnlyIfExpired, RequestEnds | 532,750 |
| `events` | `MCEvents`, `MCEvents` | OneListener, OnePollerWhileSubscribed, InOrderUnlessLapsed, EveryHandlerHears | 101,472 |
| `tasks` | `MCTasks`, `MCTasks` | ReturnedIsComplete, UploadedStays, NeverDeletesLive, ProgressionIsSound, OnlyMappedIsAlive, GivesBack, RetriesAreMeasured, EveryTaskEnds | 182,018 |
| `vios` | `MCVios`, `MCVios` | ReturnedIsDone, BridgesAreSound, OthersStay, PrivateVlan, ImageGoesWithLastClone, MediaStay | 483,123 |
| `storage` | `MCStorage`, `MCStorage` | MappingsAreSound, TouchesOnlyItsOwn, SlotsAreKept | 1,907,689 |
| `placement` | `MCPlacement`, `MCPlacement` | LastWordWins, PortsAreSound, VnicsAreSound, ValidationSuffices, RunningKeepsLimits, WaitIsFair, UserCyclesAreReal, WrappersAreSound | 1,215,229 |
| `siblings` | `MCSiblings`, `MCEntryTransaction` | MutualExclusion: **violated** | |
| `feed_task_own` | `MCFeedTaskOwn`, `MCFeedTask` | ProvidedIsOwn: **violated** | |
| `events_shutdown` | `MCEventsShutdown`, `EventListener` | ShutdownStopsPolling: **violated** | |
| `compat_mode` | `MCCompat`, `MCPlacement` | RunningKeepsCompat: **violated** | |

What the properties of `events` and of the four larger runs say:

* `events`. Threads that race for the listener are given the same one, unless the Session logs on
  again between their constructors: there is one listener per token, not per Session (`OneListener`).
  Threads poll while there are handlers, and all but one have been told to stop
  (`OnePollerWhileSubscribed`); a handler hears events in their order unless at some time all
  handlers had left (`InOrderUnlessLapsed`), and hears what is dispatched while it is subscribed,
  even if others leave from their callbacks (`EveryHandlerHears`).
* `tasks`. An image LU that is returned is complete, unless its upload and its removal have failed
  or its creator was never told that it exists (`ReturnedIsComplete`), and an uploaded one is never removed by the
  clean-up of another. No Job is removed from the server while it is queued or running
  (`NeverDeletesLive`). A power-off goes to a harder attempt only after the softer ones, and a
  call that returns has done what was asked (`ProgressionIsSound`). Only the repeater in the map
  forwards data (`OnlyMappedIsAlive`). An upload gives back its permit, its File and, if it
  failed, its disk (`GivesBack`). The exceptions are named: a clean-up, or a creation, that failed
  itself, the File of a stream that could not be opened, and the disk of an upload that was
  interrupted. Permits are counted exactly: there is one too many for each interrupted wait. Nested retries stay
  within the product of their bounds, nothing is sent after an answer that neither loop retries,
  and what the helper retries costs no tries (`RetriesAreMeasured`). `EveryTaskEnds` is the
  liveness of all of them.
* `vios`. When a call returns, the VLANs it was asked for flow through the bridge, or are off
  it (`ReturnedIsDone`). An arbitrary PVID is no VLAN in use and no other arbitrary PVID, no
  trunk carries more VLANs than it may, and the SEAs of a bridge have the same trunks
  (`BridgesAreSound`). VLANs that a call does not name stay, also when it fails (`OthersStay`).
  The adapters on the VLAN of a connection are its own (`PrivateVlan`).
  Two exceptions are named in the properties: a removal that is lost on a peer, and a
  reassignment of load groups torn between its two updates (section 5). `rm_ssp_storage`
  removes an image exactly with its last clone, unless it was given the image itself
  (`ImageGoesWithLastClone`). A repository and its media are never replaced (`MediaStay`).
* `storage`. Storage is mapped to an LPAR once, no bus is filled above the fuse limit, and no scrub
  removes a mapping of an LPAR that exists, even if its ID was recycled (`MappingsAreSound`); no
  call undoes what another one did (`TouchesOnlyItsOwn`). A slot map that counts as unchanged is
  the one that was saved, and a rebuild that is not refused puts every volume at the slot and LUA
  it had, its paths through different VIOSes that see it (`SlotsAreKept`).
* `placement`. A pair of WWPNs is never backed twice, however old the plan; derived maps spread
  over VIOSes and ports, as long as the ports are not full; the slots of a migration group stay on one VIOS (`PortsAreSound`). Back
  devices are as diverse as promised, and no port in use is relabelled unforced
  (`VnicsAreSound`). What passes builder and validator is well formed, and the server does not
  refuse it unless the host changed (`ValidationSuffices`); a running LPAR keeps its limits, even
  if it was off when it was validated (`RunningKeepsLimits`). The wait for VIOSes is never longer
  than its limit, nor shorter than the age of a VIOS demands (`WaitIsFair`). User cycles are never
  more than guests spent on this host and never negative, but for the differences between two stays
  of one guest (`UserCyclesAreReal`). A document says what the caller put there, less the elements
  it has appended to some list since, in the order of the schema, and a getter asked for fresh data
  returns none older than the call (`WrappersAreSound`). An event
  feed is summarised by its last decisive event per URI (`LastWordWins`).

Bounds, and why they are enough:

* `transaction`: three threads (a caller, its worker, a stranger that nests two calls), three
  objects, two tries, one out-of-band change. A lost update needs two writers, a leak a failure
  inside a nested call, a redrive one change; the worker updates the object of its parent, so
  that the parent is redriven too. The proofs cover all other sizes.
* `feed_task`: two wrappers and three Subtasks, two of them with the same label, one only for
  single wrappers; two tries. All orders of building and of executing.
* `session`: two threads with two requests each, two expiries: enough for two threads that meet
  a 401 together, and for one that meets it after the other's re-login.
* `events`: two users, two handlers (so that a handler has a successor), two poll threads (an
  old and a new one), two events (so that order means something), one re-login (`MaxRelogins`), so
  that two constructors see different tokens. Making the listener and using it share only the
  listener that was stored, and a token counts only until there is one; `MCEvents` leaves out the
  interleavings of the two and the re-logins after that. The proofs are about all behaviours.
* `tasks`: three hosts, so that one wins, one loses and one comes late, and one crash; two REST
  faults of a Job, one for each thread; all flows of a power-off; two clients and two repeaters
  of a vterm, so that a port is opened again; two uploads of four kinds that share one permit,
  with two faults and the four attempts of the code; four configurations of `retry`, two requests per
  try, three tries of the helper.
* `vios`: two threads and four calls on two bridges (fail-over and load balanced), trunks of
  at most three VLANs and two additional trunks, so that both limits are met; VLAN IDs up to
  10, so that the search for an arbitrary PVID runs out of candidates; one foreign change. Three connections compete for three VLANs on two hosts,
  three callers for the images of a pool in which one has two clones, two callers for a
  repository on three VIOSes with two outages (`MaxOutages`) and one medium (`MaxMedia`).
* `storage`: two threads (interchangeable: `SYMMETRY`), three calls out of thirteen, two recycled
  LPARs, buses of two mappings, two tries: every pair of calls in every order, with one change
  outside before each retry. Slots: four sources, three targets (more, the same and fewer VIOSes),
  three edits, one failed save.
* `placement`: per component, two threads, and the fewest objects for which a choice exists: two
  systems of VIOSes with unequal ports, one with three cards, five dictionaries on a host with
  room for two of them, three VIOSes, ports of two maps (`MaxUse`), so that one VIOS is full while
  another is not, three samples with one gap, two refreshes and two arrivals of guests (`MaxStays`: one
  that returns, or two that share an ID), two objects with different documents, four wrappers and
  two variables that hold lists, so that elements move between documents. `MaxSteps`, `MaxVnicOps`,
  `MaxBuilds`, `MaxRefreshes`, `MaxWrapOps` bound the number of calls, `MaxPowers`,
  `MaxForeign`, `MaxViosEvents` what others do.
  An event feed of four entries over two URIs has an addition, a clear and what follows it.

Runs without deadlock checking (`CHECK_DEADLOCK FALSE`): all but `transaction`, `feed_task` and
the refuted `siblings` and `feed_task_own`. Their users may stop calling, and their bounded
counters run out.

Fairness. Weak fairness of the threads throughout: the interpreter schedules every runnable
thread, and each REST call has a timeout, so that it ends. In `events` strong fairness of
`ReadEvents` and `BeginDispatch`: a poll that could return events is made again and again while
its thread runs, and the lock is released after every dispatch; Python's locks do not starve a
thread for ever in practice, though nothing promises it. In `tasks` it is the steps of a host
(`Step`), of the caller and the background threads of a Job (`Caller`, `Keeper`) and of the flow
of a power-off, the killer timers and the steps of an upload; `Ends` says that the server ends a
running Job. Clients of a vterm, users, functions that write into a pipe, and the server's
failures are never forced to act.

## 4. Theorems

For all values of the constants, checked by TLAPS (`tlapm <module>.tla`). Some of the proved
properties are in no run, or only a part of a property of a run, the theorem being what is new:
`TypeOK`, `OperatesUnderLock`, `NoLockLeaks`, `ReloginIsExclusive`, `NoReloginOnceUnsafe`,
`GeneralIsLast`, `NothingLeftBehind`, `SuccessIsReal`, `VtermTypeOK`, `PowerTypeOK`, `LparsAreSound`,
`LabelsAreSafe` and `BackedOnce`.

**EntryTransactionProofs.** From `ConstantsOK` (types of the constants), `OneLevelOfWorkers`
(a worker runs no FeedTask of its own) and `NoWrapIsNoEntry`.

* `TypeCorrect`: `TypeOK` is not inductive, since a step from `refresh` must know that a try is
  left and a step inside func that there is a wrapper. `TypeInv` adds that (`StackOK`), and
  that a worker runs only while its parent waits in `join` (`WorkersOK`).
* `NoUpdateIsLost`: the specification implements `VersionedObject`, by the etag check alone. The
  invariant `SnapshotOK` says that a wrapper with the current etag has the current content and
  that none has a later etag.
* `EveryCallIsLocked` and `LocksAreReleased`: by `LockOK`, which ties together the lock, the
  thread's own list, what each level of the stack owns, and what a worker has inherited.
* `RetriesArePaidFor`: every redrive of a call that took its lock, and that neither nests nor
  forks, is paid for by a change outside or by the wrapper that was fetched too early. The property
  counts tries only, and is not inductive: `Paid` charges a wrapper that is behind the server, and
  a call that is about to refresh, with the next try already. That no other thread of the process
  can put a wrapper behind is where `LockOK` comes in.
* `ExclusionWithoutWorkers`: mutual exclusion if no thread is a worker; with two workers it does
  not hold (run `siblings`).

**ClientProofs** (`Session`). `AccountIsNotLocked`, `OneReloginAtATime`, `UnsafeIsForever`, `NoTokenIsLeft`
and `OnceAndOnlyOnce`. The invariant `IInv` relates the lock to the threads inside re-login
processing (`LockInv`), the token of the Session to the tokens the server has issued and no
longer accepts (`TokenInv`), and rejected logons to `_relogin_unsafe` (`RejectInv`). `ServedInv`
adds, for each place in `request`, how often the server can have carried the request out.

**ClientProofs** (`Wrappers`). `WrappersStaySound`, for every schema, document, number of objects and
order of edits, getters and changes by others, from `WrapperConstantsOK`: the tags that setters
use are in `child_order` (another tag would be appended, section 5), what the server holds at the
start is in the order of the schema, and the first tag is not the list. `WrappersInvariant` has
the inductive invariant `WrappersOK`:

* `DocumentsOK`: documents are typed and ordered, and say what was put into them. For that each
  edit is reduced to one of two forms, a child put where `inject` finds its place (`Put`) or one
  replaced in place (`Swap`), and both are shown to keep the order (`OrderAround`, with the
  predecessors of `child_order`) and the values of every other tag (`Same`). A move is two of the
  second form, in one document or in two (`LosesKeeps`, `GainsKeeps`). A view counts exactly
  as long as an element with its identity is in the document (`ViewOK`); identities are given out
  once, so that a superseded view never counts again.
* `GetOK`: versions only grow and no step takes a wrapper away (`Later`, `Newer`), so what is fresh
  stays fresh; a call under way has found fresh wrappers only, and whatever it may still take from
  a cache without asking the server was put there after the call began (`CallOK`).

`ValuesOf`, `ClearValues`, `SetElemList` and `Feed` are recursive functions; that they have a
solution, and what it is, is shown by `StepsExist` and an induction over the steps.

**EventProofs** (`EventFeed`). `LastWordIsReported` and `LossIsReported`, for feeds of every length: by
induction over the entries, with lemmas that say how an appended entry changes `LastIs`, `Quiet`
and `NoneAfter`.

**EventProofs** (`EventListener`). `ListenerIsUnique`: who has passed `_prime` owns the event queue of
its application id and is the only one with that id to store a listener (`MakingOK`), whatever the
Session does with its token. `PollerIsUnique`: `PollersOK` adds to the property
that the handlers are a sequence and that the threads told to stop are among those started; the
bodies of subscribe, unsubscribe and shutdown keep it wherever they are called from, with one
lemma for each. `EventsComeInOrder`: until a thread has been told to stop there is one at most
(`PollersOK`), what it has read is at least as new as what any handler was given, and later than
anything read before (`OrderOK`).

**FeedTaskProofs.** From `FeedConstantsOK` (types; a model value is no sequence).

* `SubtasksReachAll`: `EverySubtaskReachesAll`, for every feed and every order of `add_subtask`
  calls. The difficult state is the one after a refused call: some WrapperTasks have the Subtask,
  others have refused its label. `TasksFit` says that such a Subtask is still refused by somebody,
  so that no later call can add it a second time, and that every WrapperTask has the accepted
  Subtasks in the order of their calls.
* `FinalTryDecides`: `FinalTryCounts`. `TryFits` says of each position in each try what the
  Subtasks before it, and no others, have done to the wrapper, the results and the flag that
  requests an update; a redrive starts again with nothing.

**TaskProofs.** From the types of the constants alone.

* `SuccessIsTrue` and `LiveJobsStay` (`Job`): `EntryIsNotAhead` says that however old the entry of
  the Job is, the Job on the server has got at least as far; `HandOver` which of `run_job`, the
  background thread and the consumer has the entry in hand and what it has made sure of. Nobody
  deletes what is queued or running because nobody deletes without an entry that has ended.
* `RetriesMeasured` (`Retry`): `SentIsBounded` and `SentIsEnough` count the requests of both loops
  against the number of the try and the position in it, `OneReasonPerTry` the answers.
* `VtermIsTyped` and `OnlyMappedRepeats` (`Vterm`): while the listener adds a client it knows the
  repeater (`ListenerKnows`), and only the repeater in the port map is alive.
* `PowerIsTyped` and `ProgressionSound` (`PowerOff`): `InOrder` says at each place in the flow which
  attempts have been made; all but the last have failed softly, and the Jobs, late ones included,
  are no more than the attempts.
* `UploadsGiveBack` (`StorageUpload`): `Tidy` says at which places of an upload its File and its
  disk exist, and what it means that it is `unopened` or `interrupted`; `CopyIsPast` that a copy of the
  volume group with the current etag has its disks. Permits are counted with the finite sets of
  their holders, the surplus of interrupted waits included.
* `UploadIsReturned`, `CallsCleanUp` and `ImagesStay` (`ImageUpload`), for any number of hosts,
  crashes and failures. `MarkerOK` says between which steps the marker of a host is there,
  `ImageOK` that an LU that is not complete is under its marker, or its delete has failed, or its
  creator was not answered; a host that finds one LU alone therefore finds a complete one or one of
  the two exceptions. `CallsCleanUp` is about the calls that met neither.
* `LparsMakeSense` and `LimitsAreKept` (`LparBuilder`): what a call has read is the partition if
  the etag is still the same (`ReadFits`), and what it is about to POST has passed the validator
  against what it has read (`CallerFits`). A partition that is started between the two has
  another etag, so the validation made for a partition that is off is never applied to it.
* `ValidationIsEnough` (`LparBuilder`), from `BuilderConstantsOK` (the host and the dictionaries
  have integers, the partitions are finitely many): the memory and the units that are free are
  those of the host less the sum over the partitions (`AccountIsRight`), so a POST that passed the
  validator and met an unchanged host leaves room (`ValidatedFits`).
* `CyclesAreReal` (`Metrics`), from `MetricsConstantsOK` (guests are finitely many and have idled no
  longer than they ran): samples are in the order of their dates with counters that only grow
  within a stay (`SamplesInOrder`), and what was counted for the stays of a guest is at most what it
  spent here up to the date of the current sample (`Counted`). The difference between samples of two
  stays can have any sign and size, and is `strayed`.

Both need sums over finite sets, which the library defines by a recursive choice. `SumOf` is that
equation; that a function satisfies it, and what adding or changing one summand does to it, are
proved by taking a smallest counterexample, for every finite set.

**PlacementProofs.**

* `WaitsAreFair` (`Partition`), from `HostViosesOK` (the VIOSes of a host are VIOSes): until the
  report, the feed is the one of the last GET, and the wait has ended for the reason that
  `WaitIsOver` gives.
* `ImagesGoWithLastClone` (`LogicalUnits`), from `UdidsIdentify` (the platform gives each LU a UDID
  of its own): by the etag, as `NoUpdateIsLost`; `UpdateIsExact` then says which LUs one update
  removes.
* `MediaAreKept` (`Vopt`), from `VoptConstantsOK` (the volume groups of a VIOS are a list): a caller
  that is about to create a repository has seen that there is none, or its etag is stale.
* `VlansArePrivate` (`PointToPoint`): here it is the lock that does it. `LockIsExclusive` says who
  may be inside, `VlansAreApart` that adapters are on the VLAN of the call that made them, and
  that a VLAN that was chosen has trunks before the lock is released.
* `SlotsKept` (`SlotMap`), from `SourcesOK` (the elements of one LPAR do not contradict each other:
  a slot has one adapter, finite in number): the topology is that of the elements; what counts as
  saved is in the back-end (`StoreFits`); the slots of a rebuild that have been looked at have
  their disks on VIOSes used up for them (`BuildFits`).

**StorageProofs.** The locks of the storage and SR-IOV tasks are not used: the etags of the VIOS and
of the System are enough.

* `MappingsSound` and `CallsTouchTheirOwn` (`StorageMapping`), from `MapsOK` (the mappings that are
  there at the start satisfy what is to be shown of them) and `CallsOK` (what the callers pass: a
  medium to `modify_vopt_mapping`, a discovery scrubs for LPARs that do not exist). `ServerSound`
  holds of the mappings at any time, `ViosIsPast` relates a wrapper to them by the etag, and
  `ScrubIsSafe` says that, as long as the VIOS has not changed since a scrub asked for the LPARs,
  nothing it is going to remove has a client.
* `LabelsStay` (`Sriov`), from `HardwareOK` (the ports that are relabelled exist and count their
  logical ports): a port that backs a vNIC counts a logical port (`UsedIsCounted`), so that an
  agent with the current System has been warned (`AgentFits`), and one with an old System is refused.
* `VnicsStaySound` (`Sriov`), from `HardwareOK` (ports and VIOSes are finitely many, a port names its
  card and has an allocated capacity) and `RedundancyOK`: `VnicInv` says that what an agent is about to
  create was chosen from its copy of the System, which need not be the current one. That a choice
  is diverse is an induction over the devices chosen so far (`Fair`): no port was taken twice
  (`PortsOnce`), a card with a free port is behind no other card by more than one device (`CardsFair`),
  and the VIOSes take turns (`ViosesFair`). Which device is chosen next depends only on the earlier
  ones (`ConfigBySteps`), so that the recursive function of the model can be followed step by step.
* `PairsAreBackedOnce` (`VfcMapper`), from `SystemsAreLists`: a pair may have mappings on several
  VIOSes, one per VIOS (`OncePerVios`), but one of them at most has a port. `add_map` gives a pair a
  port only on the VIOS that `find_vios_for_port_map` names, and if the pair had a port anywhere,
  that is the VIOS it would name.
* `PortsStaySound` (`VfcMapper`), for all systems, plans and migrations, from `SystemsAreLists`,
  `WwpnsIdentify` (no two ports have WWPNs that are the same once sanitized), `PlansAreLists` and
  `MigrationsOK` (a slot is in one group, slots and ports are on one fabric). That a derived plan is
  spread is an induction over the maps made so far (`SharedOut`). The VIOSes up to the one
  used last have one map more than those after it, and only one whose ports are full may be behind
  (`ViosesEven`); no port of a VIOS has two maps more than another one there (`PortsEven`). For
  migrations, the slots of a group are placed by rank, so that they get different ports
  (`PlacesAreOwn`); a group that fits nowhere raises, and a pigeonhole argument (`PortsOfOneVios`)
  says that the slots of one group find enough ports on the VIOS that was found free for it.

The attempt corrected two properties. `Spread` said without exception that VIOSes differ by one map
at most, which is false once the ports of one have reached the limit; the run now has a limit
that is reached. `GroupsStayTogether` compared WWPNs as they are spelled.

**NetworkProofs.** `CallsAreDone`, `OthersVlansStay` and `BridgesStaySound` (`NetworkBridger`, both
variants), from `BridgerConstantsOK` (types; requests name VLANs that other users do not touch, a
trunk has room for two networks) and `BridgesOK` (the bridges at the start are as either bridger
leaves them). `NetInv` is inductive:

* `LockOK`: whoever has not returned has the lock, so that a call is disturbed by `Touch` only.
* `ServerOK`: each bridge is well built, and no PVID of one is a VLAN or a PVID of another. The
  second part does not hold once a removal from a peer has been lost; VLANs that other users put on
  a primary adapter (`Foreign`) are excepted in both.
* `CallsOK`, for a call between GET and POST (`AtWork`): its feed is older than the server or equal
  to it, bridge by bridge (`Follows`); the trunks of the requested bridge are those on the server,
  whatever its etag; the VLANs of the call are in `todo`, in `new` or on the bridge (`Lists`), each
  once. `Kept` is what makes the choice of a PVID safe although it is made from the feed: of the
  other bridges the feed says at least what is on the server, and none of their PVIDs is among
  the VLANs about to be added.
* `Kernel`: what a bridge must still support, and in the middle of a VNET reassignment (`attach`)
  the local copy does, not the server. This is why a torn reassignment is an exception.

The lemmas above it say of each operator on a bridge (`AddVlan`, `RemoveVlan`, `Repvid`, `Attached`)
which VLANs and PVIDs come and go, on the trunk and its peer, and that a bridge stays well built;
the VLANs of a call are added one by one (`AddVlansToNb`), by induction over their number.

Several of these proofs need that the first match of a search exists, which is an induction. It
is written as the choice of a least element (`LeastNat`, from the library's theorem that `<` is
well-founded on the naturals, and `GreatestNat` for the highest slot), since the provers cannot
instantiate the induction schemes themselves.

Only model-checked: the liveness properties (they need fairness and `ENABLED`). Every invariant and
every action property of the passing runs is a theorem.

## 5. Disagreements between the code and its comments

Four are runs of their own:

* `siblings`: two workers of one FeedTask, run inside a decorated call, both inherit its lock and
  operate on its object together; the etag check still prevents a lost update. The docstring
  says that only one decorated method can operate on an object at one time.
* `feed_task_own`: a Subtask is called with the `provided` of another wrapper, because
  `save_kwargs` is shared by the threads.
* `events_shutdown`: `shutdown` removes handlers from the list it iterates over, so that with
  two handlers the poll thread stays.
* `compat_mode`: the validator compares the current compatibility mode with itself, since the
  builder writes the pending one; the mode of a running LPAR can be changed.

The others are refuted by TLC when the property named, kept at the end of its module, is put
into the configuration of the run that covers the module:

* `ProvidedPrecedes` (`FeedTask`, in `MCFeedTaskOwn.cfg` with one wrapper and two tries) and
  `UniqueProvides`: after a redrive `provided` holds results
  of later Subtasks; a WrapperTask seeded with common Subtasks does not know their labels.
* `RetryIsTheOriginal` (`Session`): the request repeated after a re-login has neither the file
  handle nor the chunk size of the first (`adapter.py:392`).
* `NoReloginAfterLogoff` (`Session`): `_logoff` returns early while not logged in and leaves
  `_relogin_unsafe` unset (`adapter.py:563`).
* `RefusalIsJobRequestFailed` (`Job`): `delete_job` of a running job raises another error than
  documented.
* `TimeoutForFirstOnly`, `RestartFromOpts`, `OperationIsSet` (`PowerOff`): timeout, restart and
  operation of an attempt are not always those the docstrings promise.
* `ListenerOfTheSession` (`EventListener`): a thread is returned a listener that the Session does not
  know, and will not shut down: the check for an active listener and the id made of the token
  (`adapter.py:1232-1236`) do not exclude two constructors around a re-login.
* `ReturnedIsUploaded` (`ImageUpload`): the request that creates the image LU is outside the `try`
  that deletes it (`cluster_ssp.py:231`). If it is carried out but not answered, only the marker
  goes, and the next host returns the empty LU. A marker whose creation was not answered stays.
* `OneUploader` (`ImageUpload`): two hosts can both win the election, one having looked before
  the other's marker, the other before the first one's image LU was there.
* `IdleIsReclaimed`, `KillsOnlyIdle`, `NobodyStranded` (`Vterm`): adding a client and aborting
  the killer are two steps; the killer does not look again before `rmvterm`; a client can be
  added to a repeater that has ended.
* `LimitMeansExhausted` (`Retry`): `limit_except` is also raised for HTTP errors that are not
  retried at all.
* `OneFaultIsRetried`, `FuncUploadEnds`, `ConcurrentUploads` (`StorageUpload`): the upload by path
  is retried after the first failure has deleted its File; a function that writes into the pipe
  waits for ever if the upload never opens it; a failed acquire releases a permit
  (`tasks/storage.py:400`).
* `ArtifactsAreCleanedUp` (`StorageUpload`): the stream is opened before the `try`
  (`tasks/storage.py:395`), so that the File stays if its builder raises, although "these artifacts
  must be cleaned up because there is a 100 file limit". (The disk of an upload that is interrupted
  stays as well: `except Exception` does not see the interruption; an exception in `GivesBack`.)
* `ScrubCopesWithAllGroups`, `InUseIsScrubbed` (`StorageMapping`): removing media fails on a
  volume group without a repository; `good_discovery` accepts `DEVICE_IN_USE`.
* `TierRemovesUnused` (`LogicalUnits`): two removers whose feeds show each other's clone both leave
  the image (`tasks/storage.py:910`).
* `BelongTogether` (`Vopt`): a caller reads the pair of globals between two writes.
* `AnyChoiceWorks`, `RegisteredMaxIsKept` (`SlotMap`): "just take one" of the VIOSes can make a
  rebuild fail that another choice completes; the registered maximum is not always kept.
* `OnOneBridge` (`NetworkBridger`): a VLAN taken off one bridge and put on another can stay on the
  peer of the first (`network_bridger.py:76`).
* `LeftoversAreFound` (`PointToPoint`): the redundant trunk counts as a client, so that trunks a
  failed call leaves behind are not found as orphans (`cna.py:395`).
* `UnchangedIfRaised` (`Sriov`): the back devices are cleared before the error is raised
  (`sriov.py:100`).
* `BuilderIsReusable`, `SecureBootIsHonoured` (`LparBuilder`): the page table ratio is converted
  in the caller's dictionary, so that building it again fails; "os400" in another case than the
  constant's drops the secure boot policy.
* `YoungAreAwaited` (`Partition`, with `MaxGetFails` above `LowWait`): if all GETs fail, the wait
  ends after the short time.
* `NeverExceeds` (`Metrics`): a guest that migrates out and back between two refreshes is taken for
  one that stayed (`host_cpu.py:218` compares ID and name), and brings in the cycles of the other
  host; one that was created again with the same ID and name counts negatively (`host_cpu.py:204`).
* `FirmwareCountedOnce`, `DateOfItsMetric` (`Metrics`): after a refresh without a sample the total
  and firmware counters are added again in full; a failed refresh leaves the date of one metric
  with another.
* `ListsStayBacked` (`Wrappers`): reading an empty list property again replaces its element;
  what is then appended to the list read first is lost (`entry_wrapper.py:292`).
* `ElementsStay` (`Wrappers`): an element appended to a list leaves the document it was in
  (`entry_wrapper.py:1400`), as the note at `entities.py:334-342` says; the next update of that wrapper
  deletes it from the server. The assertion that "the existing element remains intact" is
  commented out at `tests/wrappers/test_entry.py:83-98`.

Not expressed as a property:

* a call is tried up to 60 times (`transaction.py:115`), where the docstring says at most 6
  retries; an error of the first read of the events is reported as an application id that is not
  unique (`PrimeNoResponse`); a marker left by a host that died, or an LU whose name contains the
  image's, keeps every call on that image waiting (the exceptions in `CallEnds`); a client that
  connects while its repeater is removed can end the listener thread with a `KeyError`
  (`vterm.py:502`);
* `ensure` with a VLAN that is the arbitrary PVID of a peer fails with an `AttributeError`
  (`network_bridger.py:226`); a VNET reassignment torn between its two updates loses VLANs
  (`network_bridger.py:651`, the exception in `OthersStay`);
* `upload_new_vdisk` leaves its disk if `_create_file` fails (an exception in `GivesBack`);
  `crt_vdisk` does not retry an etag mismatch, `rm_vg_storage` does; a scrub can delete media that
  another thread maps between the update of the VIOS and that of the volume group;
* `derive_npiv_map` drops a pair whose mapping has lost its port, `build_migration_mappings` is
  greedy and can fail where an assignment exists; with `redundant_pports` a vNIC can get one port
  twice, or fewer devices than asked for without an error (the property covers one list of ports);
* `HostCPUMetricCache.refresh` takes no lock; `UUIDFeedGetter.get` with both flags refetches
  where the docstring gives `refresh` precedence; a wrapper refreshed without a change on the
  server keeps edits that were never posted; an element whose tag `child_order` does not know
  breaks the order of those injected later.

## 6. Plan

1. `EntryTransaction`, `Session`, `FeedTask`, events, `Job`, `PowerOff`, `ImageUpload`, `Vterm`
   with the theorems above (done).
2. The tasks that use them: `Retry`, `StorageUpload`, `StorageMapping`, `LogicalUnits`, `Vopt`,
   `SlotMap`, `NetworkBridger`, `PointToPoint`, `VfcMapper`, `Sriov`, `LparBuilder`, `Partition`,
   `Metrics`, `Wrappers` (done).
3. Proofs of the safety properties of all components (done, section 4).
4. Scrubs as a composition of `FeedTask` and `StorageMapping`; `crt_cna`; the vFC scrub.

## 7. Not modelled

* The subclasses of the wrappers (`wrappers/` besides `entry_wrapper`, `job`) and `traits` are
  typed views of XML fields without behaviour of their own; what the tasks use of them is part of
  the modules of the tasks. Searches (`EntryWrapperGetter` with other paths) are GETs.
* Building paths, query strings and headers in `Adapter`; TLS, file-based authentication.
* `log`, `i18n`, `const`, `exceptions`, `util`: texts, constants and functions of strings, except
  the conversions that a property is about (WWPNs and MACs).
* Migration, power-on, memory, IBMi, license key, `clone_uuid`, `remove_hdisk`, `get_pg83_via_job`,
  iSCSI initiators, `crt_copy_vdisk` and `crt_cluster_ssp` are single Jobs or POSTs, covered by
  `Job`; the lookups of `partition.py` and `storage.py` are searches in a feed.
* `crt_cna`, `rescan_vstor`, `ensure_ltm_monitors`, `vm_metrics`, the scrub of vFC mappings without
  ports, and the console code page of `mkvterm`.
* `oslo_concurrency`, TaskFlow, `requests`, sockets and the REST server are external
  and modelled only by what this code relies on. Opposite lock orders of nested transactions can
  deadlock; nothing in the code prevents it and no property is stated.
