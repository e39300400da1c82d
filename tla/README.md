# groket: models, model checks and proofs

groket runs coding-agent evaluations in containers and lets people watch and
steer them: a terminal app (Textual), a headless *control owner* (`groket serve`)
that answers editors, a desktop HUD and attached terminal apps over a Unix
socket, and an entrypoint script inside each container.  What makes it hard is
that none of these share a lock: they meet in plain files, in revisions, in
docker and in threads.  This directory models the places where they meet, checks
the models with TLC and proves their main facts with TLAPS:

* the **turn gate**, where a container and the processes of the host exchange
  prompts and commands through files;
* the **session catalog** of the control owner, and the **home list** that an
  attached app keeps of it;
* the **ownership** of the control socket;
* the **operator notes**, which editors and apps change at the same time;
* the **timeline readers**, which answer from a journal that is being written;
* the **live refresh** of an open session in an attached app;
* the **launches** and batches of an app, and the containers they start.

To run a check, or the proofs of a module:

    tlc -workers 2 -config TurnGateTui.cfg TurnGateSession
    tlapm TurnGate_proofs.tla

Paths below are relative to the repository; `PROJECT.json` maps every
definition to its lines.

## 1. Inventory

| Component | State it keeps | Operations | What makes it hard |
|---|---|---|---|
| Turn gate: `groket/session/turn_gate.py`, the turn loop of `assets/docker/entrypoint.sh` | `.groket-turn/`: `status.json`, `command`, `next-prompt.txt`, `final_turn`; host queue `pending-prompts.jsonl`; the traces | follow-up (send or queue), drain, done, finalize, settle a zombie; the entrypoint launches, waits, polls, takes, ends | several processes, no lock, one file per write, death between two writes, staleness by age |
| Run manager, orchestrator: `groket/runs/run_manager.py`, `groket/docker/orchestrator.py` | run table, batch semaphore, worker and evaluation threads, one abort event, containers | launch, batch, wait, prune, extract, clean up, quit | one event for all launches that quitting sets and the next launch clears; workers outlive their app; `docker stop` may fail |
| Catalog cache and watch tasks: `groket/session/catalog.py`, `session/mtime_export.py`, `groket/integrations/daemon.py` | rows, revision, patches, TTL and fingerprint, rebuild flag; a snapshot file of the last rebuild; pending paths and a task per session | rebuild in a thread, patch of single rows, delta since a revision | disk is read outside the lock, commits race, events during a rebuild; a rebuild reuses rows by three mtimes |
| Home list of an attached app: `groket/ui/app.py`, `control_client.py`, `access.py` | rows shown, the revision they stand for, the generation of loads | first load by pages, wait for a cold owner, delta poll, drain after a gap | loads overtake each other, rows move between pages, the owner restarts |
| Control ownership: `daemon.py`, `control.py`, `cli.py` | lock file with a pid in it, socket, pid file | serve, serve -d, stop, restart | death between lock, bind and pid; owners of older builds; files removed by whoever leaves |
| Operator notes: `groket/notes.py`, `control.py`, `browser.py` | a TOML file and a fallback; what an editor shows and the revision it takes that for | guarded upsert and delete, over the socket or directly | the lock is of one process; snapshot, text and revision are separate reads; a request that fails may have been done |
| Timeline readers: `parser.py`, `session/control_views.py` | scan offset, event and overview caches, joined flights | `session/timeline`, `session/overview` | the journal grows between stamp, read and store; lines arrive in pieces |
| Live refresh: `session_inflight.py`, `ui/screens/browser.py` | in-flight and rerun bits, timers, cached probes, stamp, events held | full load, light refresh, heartbeat, rerun | a request between failing to begin and asking for a rerun; stamps ahead of rows |
| Bounded caches: `bounded_cache.py` | an LRU map | get, set, evict | one lock; an entry may be gone at any time |
| Control protocol: `control.py`, `control_client.py`, `control_contract.py` | connections, pending requests, subscriptions | call, answer, notify, time out | notifications between answers, slow readers |
| Query language: `session/query.py`, `desktop/src/query.rs` | none | parse, match | two implementations of one language |
| Tasks, personas, configurations, live share, exports, jobs | files | read, merge, write | mostly sequential |
| Terminal screens, desktop HUD, editor plugins | view state | draw, poll | clients of the above |
| Capabilities, keys, configuration, command line, images | configuration | merge, write | sequential |

Interactions.  A container's entrypoint and its host processes meet only in the
turn gate.  A worker of the run manager waits for its containers and finalizes their
gates when the wait ends.  Every app and owner that lists sessions probes gates
and may finalize the stale ones.  The control owner watches the trace trees; the
watch's events become tasks that patch the catalog cache; the cache's revision
travels to clients in `session/list`, and comes back as `sinceRevision`.  An
attached app reads a session by `session/overview` and `session/timeline`, keeps the
stamp of the overview, and asks for pages when the stamp has moved.  Editors
and apps save notes through the owner; an app writes them itself when the owner
does not answer.

What makes each correct, in a sentence.  *Gate*: a prompt that was accepted is
run once or dropped by the user's Done or the end; `done` is written only when
nobody will read the gate again; `awaiting_follow_up` is true when it is read;
nobody looks alive for ever.  *Launches*: a batch runs no more than it may, no
thread removes a running container that it has not misread, every launch comes to an end.  *Catalog*: rows
come to be what the files came to since the stamped ones last changed, and a revision
stands for exactly one state of the rows.  *Home list*: the revision that an app sends stands for the rows that it
shows.  *Ownership*: one owner per socket, and `serve stop` finds and stops it.
*Notes*: a save undoes nothing that its client did not know.  *Timeline*: an
answer is what the journal held at some moment since the question, or is on its way to a
later one.  *Refresh*:
rows are in order, a stamp stands for rows that are there, and new rows arrive.

## 2. Modules

| Module | What it is |
|---|---|
| `InteractiveSession` | abstract: what a session promises the person who steers it |
| `TurnGate` | the gate, the entrypoint, hosts, worker, crashes; its properties and mutants |
| `TurnGateSession` | the gate as an `InteractiveSession` (refinement mapping); what TLC runs |
| `TurnGate_proofs` | `TypeCorrect`, `AwaitingIsHonest`, `DoneIsOver`, `PromisesKept` (the refinement) |
| `CatalogRevisions` | abstract: rows, a revision and the patches that lead to it |
| `Catalog` | the cache with its lock blocks, the scan thread and the watch tasks |
| `Catalog_proofs` | `RevisionsKept` (`Catalog` implements `CatalogRevisions`), `CatalogTypesKept`, `SnapshotsHonest` |
| `CatalogHome` | the loads of an attached app against any owner that is a `CatalogRevisions` |
| `CatalogHome_proofs` | `HomeTypesKept`, `WholeListsCatchUp` |
| `ControlOwner` | serve processes and commands around lock, socket and pid file |
| `ControlOwner_proofs` | `OwnerTypeCorrect`, `OneOwnerOnly`, `CalmOwnersStay`, `StopStops` |
| `NotesStore` | the notes of a session, its two files, the owner and the app |
| `NotesStore_proofs` | `NotesTypeCorrect`, `RevisionsNameTexts`, `SavesAreGuarded` |
| `TimelineReads` | abstract: a read of a journal that grows |
| `TimelineCache` | the scan, its cache and its flights, the overview; as a `TimelineReads` |
| `TimelineCache_proofs` | `TimelineTypesKept`, `ScansFaithful`, `ReadsAreFresh` (the refinement), `OverviewsOnlyGrow`, `RequestsNeverStick` |
| `LiveRefresh` | loads, light refreshes, timers and heartbeat around one lock |
| `LiveRefresh_proofs` | `RefreshTypesKept`, `RowsInOrder`, `StampsMeanHeld` |
| `EvalRuns`, `MCEvalRuns` | launches, batch, workers, evaluation threads, containers; the instance TLC runs |
| `EvalRuns_proofs` | `EvalTypesKept`, `BatchIsBounded`, `RunningContainersKept`, `LaunchesNeverStick` |

`CatalogHome` extends the abstract `CatalogRevisions` and not `Catalog`: the proof
that `Catalog` implements it is what lets one part be checked without the other.
`LiveRefresh` takes a page to be what the journal held when it was asked for, which
is the promise of `TimelineReads` that `TimelineCache` is proved to keep.  That promise
is about pages only: an overview may be older than its stamp (run `overview_stale`), so
`LiveRefresh` builds, joins and keeps overviews as the owner does (`view`, `build`).  `EvalRuns` leaves the gates that its workers finalize to `TurnGate`.

### Turn gate

Each variable is a file, a shell variable or a thread's place.  A read or write
of one file is one step, as nothing locks the directory; the reads that make up
one decision are taken at once.  `host[h]` is the program counter and the locals
of one host process, which does one operation at a time.  `follow_settle`,
`follow_decide`, `stage_next` ... are the places between file accesses of
`write_follow_up_for_session`; `drain_*`, `enq_*`, `done_*`, `fin_*` likewise.
The entrypoint (`pc`) steps through the loop at `entrypoint.sh:766-888`,
`set -e` included.  `stale` is the age test of `session_activity_stale` as a flag.
The agent itself is not in the repository: it opens and closes a turn in
`events.jsonl` and exits, possibly with an error.

Data is dropped: a prompt is a model value, trace files are two flags, `stale`
replaces clocks.  A host operation in flight is quicker than an agent's turn
unless `SlowHosts` holds.

`mishaps` is history that only the properties read.  `gave_up`: a host has decided to
finalize the gate of a container that may run (its gate was old, the app that waited for
it has quit, or `docker stop` failed).  `overtaken`: an agent's turn ended while a host
was between two file writes.  `died`: a host process did, there.  The code allows all
three, so no assumption rules them out; a promise holds until one of them happens.

### Catalog

`SessionCatalogCache` reads disk outside its lock.  So each block under the lock is
a step (`Snap`, `Commit`, `RebuildCommit`, `RebuildEnd`, `KickRebuild`) and each
reading of one session is a step (`ScanSession`, `ReadSession`).  A session's row
is the status its files come to, or `Absent` (no directory, or a subagent's).
`stamp` is the fingerprint of the roots: it moves when directories come and go
and not when a file in one changes; a directory in a bucket (`Nested`) does not even
move it when it comes and goes.  `_keep_list_status` is `Kept`.

A rebuild goes through `load_or_rebuild_catalog`: it takes the mtimes of each session's
`summary.json`, `signals.json` and `updates.jsonl` first (`StampSessions`, into
`build.mark`), then gives each session the row of the snapshot if its mtimes are those
of the snapshot, and otherwise reads it (`Scanned`), and writes rows and mtimes as the new
snapshot (`RebuildCommit`, `saved`), which outlives the owner.  So there are two kinds of
change.  `Write` changes one of the three files, or makes the session come or go, and
moves `mark`.  `Drift` changes the row by anything else the row is made of: events, the
turn gate, operator notes, jobs, or age, which turns "running" into nothing.  The watch
hears of notes and ignores `events.jsonl`; of age nobody hears.  So either kind may put
the session into `fired` or not.  `held` is history: what the session's files came to
since its `mark` last moved.

`CatalogWatchApply` is `fired`, `pending`, `task`: a batch of events gives *all* its
paths to the task of *each* of its sessions, as `_accept` does, so two tasks read
the same session, which is what makes commits race.  A revision is
`<<gen, seq>>`, ordered as the code orders its two halves of one integer.  A new
owner draws `gen` at random; the model draws one never used before (two owners
with the same 31 bits are left out).

`get` gives up after 120 s of waiting; `Join` waits for the rebuild, since every scan
of the model ends.  `invalidate` and `drop_subagent_rows` have no caller in the
repository and are left out; the docstring of the latter names a warm loop that
calls it, which no longer exists.

### Home list

A load is a thread: `Begin` draws the generation, `ReadSince` reads the
revision (or not, when the load is not quiet), `Ask`, `RpcRows`, `RpcDelta` are a
request, in the two lock blocks `list_for_rpc` has, and `Receive*`, `Revise`,
`Apply` are what the load does with the answer, in the order of the code.  The
store of the revision and the installation of the rows are two steps, and
`Current` is tested where the code tests it.  The page that `list_for_rpc` returns
in place of a delta is thrown away by the client, so the model leaves it empty.

### Control ownership

A serve process (`pc`) takes the flock, records its pid, probes the socket, unlinks and
binds it, changes its mode, writes the pid file, serves, and on SIGTERM drains its
clients, lets go and removes what is its own; old builds bind without a lock.  A
command (`cmd`) is `serve stop` with its wait, its SIGKILL and its clean-up, `serve -d`
and `serve restart`, in the order of `daemon.py` and `cli.py`.  `flock`, `lockPid`,
`sock` and `pidFile` are the files.  `Holders` is `lock_holder_pids` with its `lsof`.
`calm` and `quiet` are history: they say when an owner came up undisturbed, and when a
stop had nothing starting or closing beside it, and only the properties read them.

### Notes

A call is a thread that works for a client, in the owner or in the app; its places are
the reads, the temporary file, the replace and what follows, under the lock of its
*process*.  A document says per note which edit wrote it; the revision of a text is
the text itself, as a hash is as good.  An editor's `view` is the document it shows and
the revision it believes that to be, which `notes/list` and `notes/revision` bring
separately.  `crossed` is history: a write has come between two reads that
should have been one.  A request that times out leaves its thread running, and the
app then writes by itself (`AskFails`).

### Timeline

Two bytes are a line, so that what the agent has written may end within one.  A
request goes through the places of `parse_timeline` (stamp, look, join a flight or own
it, read, store, resolve) or those of `SessionOverview.build` around it.  `scan` is
the resumable state of `_scan_updates_jsonl`.  `past` is history, all the
versions the journal has had; `gen` counts truncations and replacements, and `true`
says that a scan has met none, since the code sees only a journal that has got shorter.
A list that is handed out is the list in the cache (`parser.py:904`, `955`), and its events
are the objects of the scan (`parser.py:910`), which a later scan changes in place: it
adds the text of later lines to them, and times and places.  `objects` is that store, per
scan begun, as the lines that have gone into its events by now; an answer and the cache
name one (`from`).  `TimelineReads` is the promise: the answer's list is that of a
version since the question, and what its events hold is that of this or a later one.

### Live refresh

The user interface thread runs a callback at a time; full loads (`load`), the light
refresh (`light`) and the home list's heartbeat (`beat`) are threads that take
`inflight` in turns and leave `rerun` behind.  `ui` holds the timers, flags and cached
probes of the screen, named after the code's.  Events are numbers, `held` is what the
screen has, `stamp` the journal that the last overview was stamped with; `short` says that
this overview counts less than it was stamped for.  The owner's `view` is the overview it
keeps and `build` the one being built: a request is answered from the first under its
stamp, or waits for the second, which is kept under the stamp found after it.  Gaps
between submissions are a flag (`recent`), as are the timers that are armed.  A callback of
the user interface lets go of the lock, or fails to get it, and asks for its rerun or
begins anew, in steps (`UiReruns`, `UiPulls`) that the heartbeat's thread gets between.

### Launches

`item` is the thread that starts a launch (of the batch or the user interface's),
`worker` and `eval` are the threads `_worker` and `run_evaluation`, `container` is
docker's view, `abort` and `detached` are the two flags that quitting sets.  A step
runs to the thread's next look at the event, at the manager's tables or at docker.
A launch reads the names that are to be spared (`Launch`), then lists containers with their
states (`Look`), then removes what was not running when it looked, or could not be read
(`Prune`), while other launches create theirs (`CreateContainer`) and start them
(`StartContainer`).  Docker may fail to answer about a container in `Flaky`: its wait then
returns -1 at once (`WaitFails`), its state reads as not running, its clean-up does nothing
(`CleanFails`).  `misread` is history: the containers that somebody has taken for over and
that were not.  The order of threads is kept; what evaluations report is dropped.

## 3. Runs

| Run | Model | Checks | What it shows |
|---|---|---|---|
| `turn_gate_tui` | one app that may be slow, die once and meet failing stops, gates that age, two prompts, a scripted turn | `TypeOK`, `DoneMeansOver`, `AwaitingHonest`, `KeepsPromises`, `EndingSettles`, `QueueDrains` | all promises hold until something befalls the app, and a gate that is done early was given up |
| `turn_gate_hosts` | an app and a control owner, a crash, a quit, failing stops | `DoneMeansOver`, `ZombieSettles` | dead sessions settle in spite of crashes, quits and failing stops, and only given-up gates are done early |
| `catalog_cache` | two sessions, one in a bucket, two changes, failing scans, a restart, the snapshot | `CatalogTypeOK`, `SnapshotHonest`, `CatalogSettles`, `KeepsRevisions` | races lose patches and snapshots bring rows back, but never rows from before the stamped files last changed, and revisions keep their meaning |
| `home_load` | one load at a time, one page, failures, an owner restart | `HomeTypeOK`, `PollCatchesUp` | a quiet poll is enough to keep the list right |
| `home_loads` | two loads, two pages, failures | `WholeCatchesUp` | the two races of section 6 are the only ways to go astray |
| `control_owner` | three serve processes, one of an old build, a terminal | `OwnerTypeOK`, `OneOwner`, `CalmOwnerKept`, `StopMeansStopped`, `StopKillsTargets`, `CommandsEnd` | one owner at most, a calm one keeps its files, stop stops what it found and ends |
| `notes` | an editor and an app, crashes, a path that cannot be written | `NotesTypeOK`, `RevisionNamesText`, `GuardedSave`, `CallsEnd` | a save undoes nothing unknown unless a write cuts an operation in two |
| `timeline_cache` | two request threads, a growing journal, a fault | `TimelineTypeOK`, `ScanFaithful`, `ReadsFresh`, `OverviewsGrow`, `RequestsEnd` | answers are fresh whoever parsed them, and what another thread adds to their events is younger; overviews lose no events |
| `live_refresh` | an opening and an F5, light refreshes, a heartbeat, a hitch | `RefreshTypeOK`, `HeldInOrder`, `StampMeansHeld`, `RowsArrive`, `WakesUp` | rows are in order, complete to the stamp and arrive while the session is live, unless the owner's overview was behind its stamp |
| `eval_runs` | a batch of two with one slot, a launch by hand, a docker that fails to answer, a quit | `EvalTypeOK`, `BatchBound`, `KeepsRunning`, `LaunchesEnd` | the bound holds, no running container is removed that was not misread, launches end |

The other two runs, `overview_stale` and `browser_blank`, are counterexamples
(section 6).

Bounds, and why they are enough.

*Turn gate.*  Two prompts are needed for a queue that holds one while another is
staged; a third adds no new position.  One crash is enough to leave any file
unwritten, since every place between two writes is a step.  `turn_gate_tui` does not let
the app quit, since a liveness property about a worker needs one; quits are in
`turn_gate_hosts`, which has one prompt, no scripted one, hosts quicker than a turn and no
live gate that ages, to stay within minutes.  The invariants and the refinement are
proved without these bounds.

*Catalog and home list.*  Two sessions are needed for tasks that cross, and one of them
is in a bucket, so that nothing but the watch and the TTL tells of it; two changes for
one that falls into the scan or the reading of the other, or one that a stamp is taken
before and one after; the statuses `complete`
and `none` bring in `Kept`, with `Absent` for removal.  `DeltaKeep` is 1 in the catalog
and 2 in the home runs (48 in the code): the bound is hit by the next patch, so
gaps by overflow, by a rebuild and by a restart all happen.  Four revisions hold a
load's revision, two patches that fit and one that does not.  Limit 2 is "one page",
Limit 1 is "several".  The TTL's needless expiries are bounded, the needed ones are
not, so fairness is not spent on the bound.

*Ownership.*  Two processes of the current build race for lock, socket and files; the
third is an owner of a build that knew neither lock nor pid file, which the code takes
care of.  Each process is one pid and runs once, so "start again" is the next process.
One terminal is enough for a stop that meets starts, deaths and a restart of its own.

*Notes.*  Two edits, so that the second save meets the first; one note is enough, as a
lost update shows in it.  Only the primary path fails, and the
fallback takes over.

*Timeline.*  Four bytes are two lines, each of which may arrive in halves; two changes
allow one between a stamp and a read and one between the read and the store; the
fault is a rewrite, a failed read or an eviction.

*Live refresh.*  A page of one event and two events make a load fetch its second page.
The hitch is a change of the status, a heartbeat or a failed request, each of which
can come anywhere.  `Statuses` has "live", "waits for a follow-up" and neither.

*Launches.*  One slot for a batch of two is the bound at its limit; the launch by hand is
what prunes and clears the event beside the batch.  Each has one container: an item of the
batch and the launch by hand have one about which docker may fail to answer, the
other item one about which it does not.

Deadlock is checked except where the system may really stop: no file changes any
more and nothing is pending; every serve process has run; the journal is at its
bound and nobody asks; all launches are over.

## 4. Fairness

*Turn gate.*  The shell runs on (WF of `Entrypoint`); an agent's turn ends, by the
turn limit the run is started with; a host operation that has begun is finished
by its thread unless the process dies; the browser refreshes its bar
(`_refresh_session_pending_bar` is on a timer), which is the only thing that
drains the queue; lists probe gates; the gate of a container that is gone grows old (one
that is polled need not, within the 20 minutes).  Only `AgentClosesTurn` has strong
fairness, and only because without `SlowHosts` its guard waits for idle hosts, which the
real agent does not.  Nobody is obliged to
type, to press Done, to quit or to crash, and the idle timeout is not fair.

*Catalog.*  The watch delivers, the event loop and the threads are scheduled, the
TTL of an untouched cache runs out, and some client lists now and then (attached
apps poll).  A scan may fail each time files change and is not obliged to.
Without the polls `CatalogSettles` fails: after a lost change nothing else kicks a
rebuild.  The home list's properties are safety; they need no fairness.

*Ownership.*  Serve processes and commands run on.  Nobody has to type, to attach or to
leave: a client that stays connected keeps an owner from ending by itself, and
`StopKillsTargets` rests on the SIGKILL of `serve stop`, not on clients that leave.

*Notes.*  Threads run on, and a request ends, by its timeout if by nothing else.

*Timeline.*  The threads of requests run on; the agent need not write.

*Live refresh.*  Threads run on, builds end and timers fire.  The loads, the light refresh
and the slow timer have strong fairness: their callbacks wait for the user interface's
thread, which is free now and then however many others there are.  Watch events are
not fair: the properties rest on the timers alone.

*Launches.*  Threads run on.  Nobody has to launch or to quit, and a container may run
for ever, which is why `LaunchesEnd` excepts one that does.  Docker is not obliged to fail.

## 5. Proofs

All for any sets of prompts, hosts, sessions, statuses, processes, notes, threads,
loads, launches and containers, and any bounds.  The constants have the `ASSUME`s of
their modules (types of bounds and flags, finite sets, distinct model values); what a
theorem assumes beyond them is in its statement, and named below with the reason.
Every invariant and every action property that a passing run checks has its theorem, but for
`PollCatchesUp`, and so have the three refinements.

*Turn gate.*

* `TypeCorrect`: `Spec => []TypeOK`.  `TypeOK` is not inductive: an operation that
  puts its prompt on the gate must have one.  `TypeInv` adds that (`Carrying`).
* `AwaitingIsHonest`: `Spec => []AwaitingHonest`, with crashes, slow hosts and all.
  Only the entrypoint writes that status (`Await`) and it rewrites it before leaving
  (`Resume`); hosts only ever take it away.  It is inductive as it stands.
* `DoneIsOver`: `Spec => []DoneMeansOver`, with crashes, slow hosts, quits, failing stops and
  gates that age.  `DoneMeansOver` says that a gate is done only when its entrypoint is past
  the loop or somebody gave it up.  The invariant `DoneInv` adds the same of every host and
  worker on its way to write `done` (`Finalizers`); `OverStays` says that an entrypoint does
  not come back, `MishapsStay` that a gate once given up is so for good.
* `PromisesKept`: `Spec => KeepsPromises`, the refinement of `InteractiveSession`, **if**
  `OneApp`: one app and no control owner, which is how the person at the app believes to be
  alone with the session.  Slow hosts, crashes, quits, failing stops and gates that age are
  allowed: `KeepsPromises` has the steps of the session as long as `mishaps` is empty after
  them, and the proof keeps `UnlessMishap` (the invariant `PromiseInv`, or a mishap).
  With a control owner the promises do not hold (section 6).  What the files mean depends
  on where the shell and the app are: `SessionInv` says it, while the session is open.  The
  prompt file and the command are there from a staging to the taking of it and at no other
  time (`Files`); the app stages only for a poll loop that waits (`StagedInPoll`,
  `AwaitsInPoll`); the marker of the last turn is that of the prompt in hand (`Marker`); a
  prompt is in one place only and never where one is that has run (`Once`); a queue about
  to be rewritten has not changed (`SeenStands`).  A command `done` has an app that goes
  on to stop the container (`DoneKept`), and nobody finalizes an open gate
  (`NoFinalizing`).  Then each action is an `Accept`, a `Take`, a `Close`, an `End` or a
  stutter.

*Catalog and home list.*

* `RevisionsKept`: `CatalogSpec => KeepsRevisions`, the refinement.  The invariant
  `Sound` has the shapes of rows and patches and that a task reads only for a warm
  cache, which is what makes a task's commit an `ApplyPatch` and not a patch of
  nothing.  `NextRefines` has one case per action.
* `SnapshotsHonest`: `CatalogSpec => []SnapshotHonest`.  The invariant `Honest` follows the
  row of a scan from its stamp to the snapshot: stamps are never ahead of the files, and
  while a stamp taken by the scan is still that of the files, what it has read or reused
  since is a row they came to under it.  That the stamps are taken before the rows is
  what it rests on: with those of the end of the scan (`CommitLate`) it fails.
* `CatalogTypesKept`: `Sound`, with `Counted` (the counters stay in their bounds) and
  `Remembered` (at most `DeltaKeep` patches, of revisions of the past).
* `HomeTypesKept`: the types of list and loads, with the locals `HomeTypeOK` leaves open
  (`LoadOf`).  A revision that is carried is one an owner up to this one has had
  (`Revs`), and `LoadsGrow` says that a restart keeps that true.
* `WholeListsCatchUp`: `HomeSpec => []WholeCatchesUp` for any loads, sessions and page
  size, without more.  The remembered patches are those up to the current revision,
  and the last one that names a session says what its row is (`HistoryOf`).
  `LeadOf(x, v, ...)` says that a list v at revision x is led to the owner's rows, or
  meets a gap: wherever v is wrong, a patch after x says so.  An answer's revision may be
  older than its rows, but never younger: that order of the two lock blocks is what the
  proof rests on.  The invariant `WholeInv` is about the latest load alone, the only
  one that may install rows.  `OneRevision` says that the pages it has got of one
  revision are part of rows that the owner had at it, so that, if there are as many
  as the owner counted, they are all of them (`AllOfThem`).  `Sound` says that as long
  as the list is whole, the revision that is stored, and each that a superseded
  load may still store, lead from the list (or from what it becomes with the delta in
  hand) to the owner's rows.  A superseded load that has stored its revision and has
  rows in hand, which it will not install, spoils that (`Doomed`): it is about to
  clear `whole`.

*Ownership.*  `OwnerTypeCorrect`, `OneOwnerOnly`, `CalmOwnersStay` and `StopStops` come
from one invariant, `OwnerInv`.  `Locked` ties the flock, the record and the socket to the
place of the one owner; `OldApart` keeps owners of old builds off all records;
`Undisturbed` says that beside a calm owner no process and no stop is on its way to remove
its files; `Found` is what a stop that began in quiet has learnt, place by place.

*Notes.*  `NotesTypeCorrect`; then `RevisionsNameTexts` and `SavesAreGuarded` from `Guarded`:
a call holds its process's lock (`Locks`), nothing is younger than the last write
(`Stamps`), and a call that no write has cut in two still agrees with the files at
every place (`Fits`), so what it replaces is what its client expected.

*Timeline.*  `TimelineTypesKept` needs `Flights`, who holds which flight.  `ScansFaithful`
and `ReadsAreFresh` come from `History`: the journal now is the last version of `past`
and scans are complete to their offset; what a request or the cache has is
a version from its stamp's time or later (`FromPast`).  `ReadsAreFresh` is the refinement of
`TimelineReads`, one step per action; it adds `Sharing`: the objects that an answer's or
the cache's list is made of hold at least that list and no more than a version of the
journal that is as young.  `OverviewsOnlyGrow` adds `Growing`: no overview
on its way or kept is shorter than one that has been shown, while the journal only grows.
`RequestsNeverStick` is what `RequestsEnd` needs besides fairness: requests under
way never all wait for each other (`SomebodyWorks`).  A flight that is waited for is there
(`FlightsThere`) and has its leader; a parse's waits for nobody, an overview's at most for
a parse.

*Live refresh.*  `RefreshTypesKept` from `Shaped` and `Exclusive` (one of loads, light
refresh and heartbeat at work); `RowsInOrder` adds that what a light refresh adds to is
still what is held; `StampsMeanHeld` adds `Settled`: a stamp is never ahead of the
journal, and ahead of the rows only while pages come, after a failure, or under an
overview that counts less than its stamp, which `short` records.

*Launches.*  `EvalTypesKept`, `BatchIsBounded` and `RunningContainersKept` from one
invariant.  `Accounted` counts the semaphore against the items that hold a slot;
`InOrder` and `Joined` say that an item holds its slot as long as one of its containers
is worked on; `Watched` says that the thread of a running container waits for it, or
has left the wait for a quit, and is at the removal only after the event was cleared, or that
the container was misread; `Doomed` and `Fresh` say that what a prune is about to remove is
over or misread, as no container is made twice.
`LaunchesNeverStick` is the part of `LaunchesEnd` that is not fairness, for any launches
and slots: while a launch is in the table or the batch is on, some thread has a step to
take, unless a container runs and nobody has quit.  A launch in the table has a worker
and a worker its evaluations (`Attended`), and by `Accounted` an item that waits finds
a slot or an item that holds one.  It needs that a batch has a slot at all, which
`max(1, ...)` at `run_manager.py:738` sees to.

Only model-checked: `PollCatchesUp`, whose bounds make it true (one load, one page; its general
form is `WholeCatchesUp`, which is proved), and all liveness (`EndingSettles`, `QueueDrains`, `ZombieSettles`,
`CatalogSettles`, `StopKillsTargets`, `CommandsEnd`, `CallsEnd`, `RequestsEnd`, `RowsArrive`,
`WakesUp`, `LaunchesEnd`), as liveness under fairness is out of the prover's reach;
for `RequestsEnd` and `LaunchesEnd` the absence of a deadlock is proved.  The
hypotheses of the theorems above are those under which the property is true: where one
is dropped, the counterexample is TLC's.  No module uses recursive operators.

## 6. Where the code and its words part

Two are runs that TLC finds violated.

* `overview_stale` (`OverviewCurrent`): an overview that was built before the journal
  grew is kept under the stamp after it, at `control_views.py:623`, though the comment
  says that the stamp is taken after the build to force a recheck.  The
  overview stays without the new events until the journal changes again.
* `browser_blank` (`Opens`): a browser that opens while the home list's heartbeat holds
  the session's lock asks for a rerun just after the heartbeat ended
  (`session_inflight.py:52`), and nothing loads it any more.

Others were met on the way.  Seen by changing a constant of a passing run:

* `PollCatchesUp` fails with `Limit = 1` in `CatalogHomeLoad.cfg`: a patch between two
  pages is in neither, and the stored revision is past it.  It fails with two loaders:
  a superseded load leaves its revision behind without its rows, and the next poll is
  told that nothing changed.

Seen by adding a formula:

* `status = "done" => pc \in Over` fails: a container that waits for its user 20 minutes, whose
  app quits, or that docker does not stop, has its gate finalized while it runs.
* `Session!Spec` fails without the exception of mishaps: a slow app writes `command` when the
  turn is over and `final_turn` when the next one has begun; an app that dies after
  `drain_queued_follow_up` wrote the shortened queue takes the prompt along
  (`turn_gate.py:521`).
* With a control owner beside the app two processes that rewrite the queue file lose a prompt
  (`turn_gate.py:418`), and a Done sent over the socket during a turn is removed by the
  entrypoint before it reads it (`entrypoint.sh:838`).
* A delta poll of a list of several pages that meets a rebuild replaces the list by its first
  page, as `if not use_delta` skips the others (`app.py:1471`).
* `pc = "exited" => shared` fails: `set -e` ends the script at a failed turn,
  before the final share it exists to take.
* A last follow-up that has been taken and not begun looks complete.
* An event during a rebuild joins a scan that may have read the session before; the
  row is wrong until the TTL runs out.
* Rows do not come to agree with the files: a rebuild takes the row of the snapshot back while
  `summary.json`, `signals.json` and `updates.jsonl` stand still (`mtime_export.py:134`), also
  one that a patch of changed notes has replaced since.  The row of an agent that died says
  "running" until one of the three changes, though `_keep_list_status` is written for it to
  become "—" (`catalog.py:323`).
* `\A p : p \in termed ~> ~Alive(p)` fails: an interrupted owner waits for its clients, and
  one that stays connected keeps it for ever (`control.py:448`; `docs/control.md:16` says
  that Ctrl-C ends it).
* `KeepsRunning` fails without its exception: after a quit the next item of the batch
  clears the event (`run_manager.py:695`), and an evaluation that left its wait for the
  quit goes on to remove a container that runs; a `docker wait` that raises is taken for the
  container's end, and the clean-up removes it running (`orchestrator.py:930`, `1430`); a
  prune reads states first and then removes by force what another launch has started since,
  or what it could not read (`orchestrator.py:1258`).  `BatchBound` fails without `~detached`:
  the batch starts its next items beside the containers of those it left.

Met while reading the code closely enough to model it:

* Notes: a snapshot of text and revision is two reads; the owner and the app
  each have a lock of their own, so one of two saves is lost; a save
  that was done in time but answered late is reported as a conflict when it is repeated;
  the app guards by a snapshot it takes when it writes, not by what its user saw.
* Catalog: a directory that goes between its listing and the reading of its files leaves an
  empty row, though "missing dirs are dropped" (`catalog.py:674`).
* Timeline: the lists that `parse_timeline` returns share their events with the scan state
  (`parser.py:910`); the next scan, in another thread, changes their text, time and index in
  place (`parser.py:740`, `1077`, `1703`), so an answer that is being written out may mix
  versions of one event.  The stamp of a turn view has the flaw of the overview's
  (`control_views.py:508`); a failed read is cached under the current stamp
  (`parser.py:1041`); a journal that was replaced is not noticed when it has not
  become shorter (`parser.py:1011` speaks of "Truncation / rewrite").
* Live refresh: a reopened browser meets the light refresh of its old screen and stays
  blank; an F5 during a light refresh is reduced to a light one, or lost when the session is
  not live; a light refresh stores its stamp before its rows are there, so a failed request
  leaves rows out until the next change (`browser.py:1318`), and so does an overview that the
  owner kept under a newer stamp: the rows it does not count are not asked for, and
  later refreshes return early (`browser.py:1300`), though rows are to "appear without
  exiting the screen" (`browser.py:884`); a session that stops being
  live takes its deferred refresh along, and its last rows.
* Launches: the prune of a launch is to spare the containers of tracked runs
  (`run_manager.py:400`), and does not spare those of a launch that registers after it read
  the names.  When the event is cleared under it, `run_parallel_evaluations` may report an
  evaluation that the quit ended as "evaluation thread ended without status".

## 7. Not modelled, and why

The table of section 1 and the notes of `PROJECT.json` say it per component:
readers, renderers, exporters, configuration and drawing are pure or sequential;
the control protocol and the publication of `session/changed` are concurrent and not
modelled yet; the desktop HUD and the editors are their clients.

Within what is modelled:

* *Turn gate*: the sandbox set-up before the entrypoint's loop, the wording of prompts,
  clocks (ages are flags).
* *Catalog, home list*: the query of `session/list` (attached apps ask for everything),
  the publication of `session/changed`, several roots and several processes that write one
  snapshot, changes of a file within one tick of its mtime, reads that fail (their row is
  left out), processes that share a 31-bit instance number.
* *Ownership*: pids that are used again by another program, `serve status`, which only
  reads, the timeouts as numbers (a wait may end early or late).
* *Notes*: the load of the two files is one step, as is the write of a temporary file;
  mtimes of different writes differ; the schema, the TOML text and `notes/changed`.
* *Timeline*: what a line means, and which event a later line changes (the model has that some
  do), turn views and the search index, runtime markers, parents of forks,
  exceptions other than a failed read, the parts of the overview's stamp that are about
  notes and jobs.
* *Live refresh*: leaving and reopening the browser, a browser without an owner, the
  debounce of the watch, events that grow in place or move in time (coalescing), exceptions of
  the submission itself.  The first page of a load and its commit are one step; so are the
  stamp and the overview of a full load.
* *Launches*: a second batch, what evaluations and workers report, listeners, log streams,
  image builds, the gates (which are `TurnGate`'s), the end
  of the process after a quit.

The models cover the concurrent core, which is a small part of the code by lines: most
of the repository draws screens, renders events, merges configuration and writes
artefacts.  Those are functions of their input, and modelling them would repeat
them.

## 8. Plan

1. `ControlProtocol`: requests, notifications, timeouts, disconnects; an answer
   reaches the request it belongs to.
2. Watch publication (`session/changed`) and journal tails, composed with `Catalog` and
   `LiveRefresh`.
3. `EvalRuns` composed with `TurnGate`: the worker that finalizes gates as the worker that
   is joined and aborted.
4. Catalog queries as operators against a reference.

Proofs next: `WholeCatchesUp` of a home list against `Catalog` itself, by `RevisionsKept`;
and `StampsMeanHeld` of a browser against `TimelineCache` itself.
