------------------------------ MODULE EvalRuns ------------------------------
(***************************************************************************)
(* The launches of one terminal app (runs/run_manager.py) and what they do *)
(* to containers (docker/orchestrator.py): the threads of a batch with its *)
(* semaphore, a worker per launch, an evaluation thread per container, and *)
(* the abort event that quitting sets and the next launch clears.          *)
(* A step is what a thread does up to its next look at the event, at the   *)
(* tables of the manager or at docker.  The interactive gates that a       *)
(* worker finalizes are TurnGate's.                                        *)
(***************************************************************************)
EXTENDS Naturals, FiniteSets

CONSTANTS
  Run,         \* launches
  Batch,       \* of these, the items of a batch; the others are started by hand
  First,       \* the item of the batch with index 0
  Container,
  Of,          \* the launch of a container (one container per model)
  MaxParallel, \* max_parallel of start_batch, which takes at least one
  Flaky,       \* containers about which docker may fail to answer
  Quits        \* whether the operator may quit

ASSUME EvalAssumption ==
  /\ IsFiniteSet(Run) /\ Batch \subseteq Run
  /\ Of \in [Container -> Run]
  /\ Flaky \subseteq Container
  /\ MaxParallel \in Nat \ {0} /\ Quits \in BOOLEAN

VARIABLES
  item,      \* per launch: where the thread that starts it is
  names,     \* per launch: what its prune is to spare, then what it removes
  slots,     \* the semaphore of the batch
  batchOn,   \* the batch is in _active_batches
  active,    \* _active
  run,       \* eval_run.status; completed and failed are "finished"
  worker,    \* per launch: where _worker is
  eval,      \* per container: where run_evaluation is
  container, \* docker's view
  misread,   \* history: containers that somebody took for over and that were not
  abort,     \* the orchestrator's _abort
  detached   \* _ui_detached

starts == <<item, names, slots, batchOn>>
runs   == <<active, run, worker>>
app    == <<abort, detached>>
dock   == <<container, misread>>
vars   == <<starts, runs, eval, dock, app>>

InStart == {"listing", "pruning", "launching"}
Busy == InStart \cup {"holding"}

Containers(r) == {c \in Container : Of[c] = r}

EvalTypeOK ==
  /\ item \in [Run -> {"idle", "queued", "over"} \cup Busy]
  /\ names \in [Run -> SUBSET Container]
  /\ slots \in 0..MaxParallel
  /\ batchOn \in BOOLEAN
  /\ active \subseteq Run
  /\ run \in [Run -> {"none", "running", "finished"}]
  /\ worker \in [Run -> {"none", "joining", "saving", "leaving", "over"}]
  /\ eval \in [Container -> {"none", "begin", "building", "starting", "created",
                             "waiting", "returned", "cleaning", "over"}]
  /\ container \in [Container -> {"none", "created", "running", "exited"}]
  /\ misread \subseteq Container
  /\ abort \in BOOLEAN /\ detached \in BOOLEAN

EvalInit ==
  /\ item = [r \in Run |-> "idle"]
  /\ names = [r \in Run |-> {}]
  /\ slots = MaxParallel
  /\ batchOn = FALSE
  /\ active = {}
  /\ run = [r \in Run |-> "none"]
  /\ worker = [r \in Run |-> "none"]
  /\ eval = [c \in Container |-> "none"]
  /\ container = [c \in Container |-> "none"]
  /\ misread = {}
  /\ abort = FALSE /\ detached = FALSE

-----------------------------------------------------------------------------
(* The user interface's thread.  A launch by hand keeps it busy until      *)
(* start_run returns.                                                      *)

UiFree == ~detached /\ \A r \in Run \ Batch : item[r] \notin InStart

\* start_batch: one thread per item, all at once.
StartBatch ==
  /\ UiFree
  /\ Batch # {} /\ \A r \in Batch : item[r] = "idle"
  /\ batchOn' = TRUE
  /\ item' = [r \in Run |-> IF r \in Batch THEN "queued" ELSE item[r]]
  /\ UNCHANGED <<names, slots, runs, eval, dock, app>>

\* active_container_names
Tracked == {c \in Container : Of[c] \in active}

\* start_run from the runner or the list of saved runs.
Launch(r) ==
  /\ UiFree
  /\ r \notin Batch /\ item[r] = "idle"
  /\ item' = [item EXCEPT ![r] = "listing"]
  /\ names' = [names EXCEPT ![r] = Tracked]
  /\ UNCHANGED <<slots, batchOn, runs, eval, dock, app>>

\* detach_ui: waits return, workers and containers go on.
Quit ==
  /\ Quits /\ UiFree
  /\ detached' = TRUE /\ abort' = TRUE
  /\ UNCHANGED <<starts, runs, eval, dock>>

-----------------------------------------------------------------------------
(* The thread of an item of the batch, and start_run.                      *)

\* sem.acquire.  Only the first item prunes.
Acquire(r) ==
  /\ item[r] = "queued" /\ slots > 0
  /\ slots' = slots - 1
  /\ item' = [item EXCEPT ![r] = IF r = First THEN "listing" ELSE "launching"]
  /\ names' = [names EXCEPT ![r] = IF r = First THEN Tracked ELSE {}]
  /\ UNCHANGED <<batchOn, runs, eval, dock, app>>

\* prune_eval_containers lists what is there and reads its state: all but what runs
\* is to go, also what is only created and what has a state that cannot be read.
Look(r) ==
  /\ item[r] = "listing"
  /\ item' = [item EXCEPT ![r] = "pruning"]
  /\ \E unread \in SUBSET {c \in Flaky : container[c] = "running"} :
       LET over == {c \in Container : container[c] \in {"created", "exited"}} \cup unread
           gone == over \ names[r]
       IN /\ names' = [names EXCEPT ![r] = gone]
          /\ misread' = misread \cup {c \in gone : container[c] # "exited"}
  /\ UNCHANGED <<slots, batchOn, runs, eval, container, app>>

\* docker rm -f, whatever has become of it.
Prune(r) ==
  /\ item[r] = "pruning"
  /\ item' = [item EXCEPT ![r] = "launching"]
  /\ container' = [c \in Container |-> IF c \in names[r] THEN "none" ELSE container[c]]
  /\ names' = [names EXCEPT ![r] = {}]
  /\ UNCHANGED <<slots, batchOn, runs, eval, misread, app>>

\* Registration, clear_abort, and the threads of the worker and its evaluations.
Register(r) ==
  /\ item[r] = "launching"
  /\ item' = [item EXCEPT ![r] = IF r \in Batch THEN "holding" ELSE "over"]
  /\ active' = active \cup {r}
  /\ run' = [run EXCEPT ![r] = "running"]
  /\ abort' = FALSE
  /\ worker' = [worker EXCEPT ![r] = "joining"]
  /\ eval' = [c \in Container |-> IF Of[c] = r THEN "begin" ELSE eval[c]]
  /\ UNCHANGED <<names, slots, batchOn, dock, detached>>

\* Mutant: start_run gives a slot back, also of a launch that took none.
FreedAlways(r) == slots + 1

Freed(r) == IF r \in Batch THEN slots + 1 ELSE slots

\* Mutant: an item that cannot be started keeps its slot.
RefuseKeeping(r) ==
  /\ item[r] = "launching"
  /\ item' = [item EXCEPT ![r] = "over"]
  /\ UNCHANGED <<names, slots, batchOn, runs, eval, dock, app>>

\* start_run raises: no model, a bad path.  The slot is given back in finally.
Refuse(r) ==
  /\ item[r] = "launching"
  /\ item' = [item EXCEPT ![r] = "over"]
  /\ slots' = Freed(r)
  /\ UNCHANGED <<names, batchOn, runs, eval, dock, app>>

\* Mutant: the slot bounds how fast items are started, not how many run.
ReleaseEarly(r) ==
  /\ item[r] = "holding"
  /\ item' = [item EXCEPT ![r] = "over"]
  /\ slots' = Freed(r)
  /\ UNCHANGED <<names, batchOn, runs, eval, dock, app>>

\* while bg.is_running, then sem.release.
Release(r) ==
  /\ item[r] = "holding" /\ run[r] # "running"
  /\ item' = [item EXCEPT ![r] = "over"]
  /\ slots' = Freed(r)
  /\ UNCHANGED <<names, batchOn, runs, eval, dock, app>>

\* _run_batch has joined its threads.
BatchDone ==
  /\ batchOn
  /\ \A r \in Batch : item[r] = "over"
  /\ batchOn' = FALSE
  /\ UNCHANGED <<item, names, slots, runs, eval, dock, app>>

-----------------------------------------------------------------------------
(* The thread of a container: run_evaluation.                              *)

Moves(c, from, to) ==
  /\ eval[c] = from
  /\ eval' = [eval EXCEPT ![c] = to]
  /\ UNCHANGED <<starts, runs, app>>

\* if self._abort.is_set(): "aborted", and the container is left as it is.
LooksAtAbort(c, from, to) ==
  /\ Moves(c, from, IF abort THEN "over" ELSE to)
  /\ UNCHANGED dock

\* The name is new, so cleanup_container finds nothing.
Begin(c) == LooksAtAbort(c, "begin", "building")

\* build_image, the pause between siblings, and the look after it.
Build(c) == LooksAtAbort(c, "building", "starting")

\* start_container: docker run makes the container,
CreateContainer(c) ==
  /\ Moves(c, "starting", "created")
  /\ container' = [container EXCEPT ![c] = "created"]
  /\ UNCHANGED misread

\* and starts it, if it is still there.
StartContainer(c) ==
  /\ container[c] = "created"
  /\ Moves(c, "created", "waiting")
  /\ container' = [container EXCEPT ![c] = "running"]
  /\ UNCHANGED misread

\* build_image or docker run raises.
StartFails(c) ==
  /\ \E from \in {"building", "starting", "created"} : Moves(c, from, "cleaning")
  /\ UNCHANGED dock

\* wait_for_container_with_session_peek: the container is over or the app quits.
EndWait(c) ==
  /\ container[c] # "running" \/ abort
  /\ Moves(c, "waiting", "returned")
  /\ UNCHANGED dock

\* docker wait raises: wait_for_container says -1, as of a container that is over.
WaitFails(c) ==
  /\ c \in Flaky /\ container[c] = "running" /\ ~abort
  /\ Moves(c, "waiting", "returned")
  /\ misread' = misread \cup {c}
  /\ UNCHANGED container

\* Mutant: no second look.
AfterWaitBlind(c) ==
  /\ Moves(c, "returned", "cleaning")
  /\ UNCHANGED dock

\* The second look; then extract_traces, whatever it finds.
AfterWait(c) == LooksAtAbort(c, "returned", "cleaning")

\* cleanup_container: docker stop, docker rm -f.
Clean(c) ==
  /\ Moves(c, "cleaning", "over")
  /\ container' = [container EXCEPT ![c] = "none"]
  /\ UNCHANGED misread

\* Both raise, and cleanup_container ignores it.
CleanFails(c) ==
  /\ c \in Flaky
  /\ Moves(c, "cleaning", "over")
  /\ UNCHANGED dock

-----------------------------------------------------------------------------
(* The worker of a launch.                                                 *)

\* run_parallel_evaluations polls its threads and the event.
Join(r) ==
  /\ worker[r] = "joining"
  /\ abort \/ \A c \in Containers(r) : eval[c] = "over"
  /\ worker' = [worker EXCEPT ![r] = "saving"]
  /\ UNCHANGED <<active, run, starts, eval, dock, app>>

\* The manifest is written or not, then eval_run.status.
Save(r) ==
  /\ worker[r] = "saving"
  /\ worker' = [worker EXCEPT ![r] = "leaving"]
  /\ run' = [run EXCEPT ![r] = "finished"]
  /\ UNCHANGED <<active, starts, eval, dock, app>>

\* The finally block, under the lock.
Leave(r) ==
  /\ worker[r] = "leaving"
  /\ worker' = [worker EXCEPT ![r] = "over"]
  /\ active' = active \ {r}
  /\ UNCHANGED <<run, starts, eval, dock, app>>

\* The agent is done, or its Done stops it.
ContainerEnds(c) ==
  /\ container[c] = "running"
  /\ container' = [container EXCEPT ![c] = "exited"]
  /\ UNCHANGED <<starts, runs, eval, misread, app>>

-----------------------------------------------------------------------------

Starting(r) == Acquire(r) \/ Look(r) \/ Prune(r) \/ Register(r) \/ Refuse(r) \/ Release(r)

Working(r) == Join(r) \/ Save(r) \/ Leave(r)

Evaluating(c) ==
  \/ Begin(c) \/ Build(c) \/ CreateContainer(c) \/ StartContainer(c) \/ StartFails(c)
  \/ EndWait(c) \/ AfterWait(c) \/ Clean(c) \/ CleanFails(c)

EvalNext ==
  \/ StartBatch \/ Quit \/ BatchDone
  \/ \E r \in Run : Launch(r) \/ Starting(r) \/ Working(r)
  \/ \E c \in Container : Evaluating(c) \/ WaitFails(c) \/ ContainerEnds(c)

EvalSpec == EvalInit /\ [][EvalNext]_vars

\* Threads run on.  Nobody has to launch or to quit, and a container may run for
\* ever.  After a quit the process ends some time, and all its threads with it.
EvalFairness ==
  /\ WF_vars(BatchDone)
  /\ \A r \in Run : WF_vars(Starting(r)) /\ WF_vars(Working(r))
  /\ \A c \in Container : WF_vars(Evaluating(c))

EvalFairSpec == EvalSpec /\ EvalFairness

-----------------------------------------------------------------------------
(* Properties.                                                             *)

\* The semaphore of start_batch bounds the launches whose containers run, and not
\* only how fast they are started, until the operator quits.  A container that was
\* taken for over while it ran does not count: its removal may have failed too.
BatchBound ==
  ~detached =>
    Cardinality({r \in Batch : \E c \in Containers(r) \ misread : container[c] = "running"})
      <= MaxParallel

\* Containers keep running under dockerd: no thread of the app removes one that runs,
\* whoever prunes, fails or quits, unless it was taken for over: its docker wait failed,
\* or a prune read it before it was started or could not read it at all.  After a quit
\* that holds as long as no item of a batch has cleared the event under the threads
\* that look at it twice.
KeepsRunning ==
  [][\A c \in Container :
       container[c] = "running" /\ container'[c] = "none" =>
         c \in misread \/ (detached /\ ~abort)]_vars

\* Every launch leaves the table and the batch ends, unless some container runs for
\* ever and nobody quits: no slot is lost, and nobody waits for docker after a quit.
LaunchesEnd ==
  \/ <>[](active = {} /\ ~batchOn)
  \/ []<>(~abort /\ \E c \in Container : container[c] = "running")

=============================================================================
