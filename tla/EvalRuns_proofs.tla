--------------------------- MODULE EvalRuns_proofs ---------------------------
(***************************************************************************)
(* Proofs about EvalRuns, for any launches, batches, containers and bound. *)
(***************************************************************************)
EXTENDS EvalRuns, FiniteSetTheorems, TLAPS

-----------------------------------------------------------------------------
(* The inductive invariant.                                                *)

\* EvalTypeOK, but for the bound of the semaphore.
Shaped ==
  /\ item \in [Run -> {"idle", "queued", "over"} \cup Busy]
  /\ names \in [Run -> SUBSET Container]
  /\ slots \in Nat
  /\ batchOn \in BOOLEAN
  /\ active \subseteq Run
  /\ run \in [Run -> {"none", "running", "finished"}]
  /\ worker \in [Run -> {"none", "joining", "saving", "leaving", "over"}]
  /\ eval \in [Container -> {"none", "begin", "building", "starting", "created",
                             "waiting", "returned", "cleaning", "over"}]
  /\ container \in [Container -> {"none", "created", "running", "exited"}]
  /\ misread \subseteq Container
  /\ abort \in BOOLEAN /\ detached \in BOOLEAN

\* The items that hold a slot, and the account of the semaphore.
Holding == {r \in Batch : item[r] \in Busy}
Accounted == slots + Cardinality(Holding) = MaxParallel

\* Where a launch can be for what it has started.
Unstarted == {"idle", "queued", "listing", "pruning", "launching"}
InOrder ==
  \A r \in Run :
    /\ item[r] \in {"queued", "holding"} => r \in Batch
    /\ run[r] = "running" /\ r \in Batch => item[r] = "holding"
    /\ item[r] \in Unstarted => \A c \in Container : Of[c] = r => eval[c] = "none"

\* Only quitting sets the event.
AbortIsQuit == abort => detached

\* A container that runs is waited for, until the operator quits or it is taken for
\* over; after a quit its thread may be past the wait, and at the removal only when
\* somebody has cleared the event.
Watched ==
  \A c \in Container : container[c] = "running" =>
    /\ eval[c] \in {"waiting", "returned", "cleaning", "over"}
    /\ eval[c] \in {"returned", "over"} => detached \/ c \in misread
    /\ eval[c] = "cleaning" => (detached /\ ~abort) \/ c \in misread

\* A container is made once, and what a prune is about to remove is over or misread.
Unmade == {"none", "begin", "building", "starting"}
Fresh == \A c \in Container : eval[c] \in Unmade => container[c] = "none"
Doomed ==
  \A r \in Run : item[r] = "pruning" => \A c \in names[r] :
    /\ eval[c] \notin Unmade
    /\ container[c] \in {"created", "running"} => c \in misread

\* Until then a worker waits for every evaluation of its launch.
Joined ==
  \A c \in Container : ~detached /\ eval[c] \notin {"none", "over"} =>
    worker[Of[c]] = "joining" /\ run[Of[c]] = "running"

Inv == Shaped /\ Accounted /\ InOrder /\ AbortIsQuit /\ Watched /\ Fresh /\ Doomed /\ Joined

-----------------------------------------------------------------------------
(* Typing and the event.                                                   *)

LEMMA ShapedKept ==
  ASSUME Shaped, [EvalNext]_vars, InOrder
  PROVE  Shaped'
<1> USE EvalAssumption DEF Shaped, Busy, InStart, starts, runs, dock, app, vars
<1>1. CASE StartBatch BY <1>1 DEF StartBatch
<1>2. CASE Quit BY <1>2 DEF Quit
<1>3. CASE BatchDone BY <1>3 DEF BatchDone
<1>4. ASSUME NEW r \in Run, Launch(r) PROVE Shaped' BY <1>4 DEF Launch, Tracked
<1>5. ASSUME NEW r \in Run, Acquire(r) PROVE Shaped' BY <1>5 DEF Acquire, Tracked
<1>6. ASSUME NEW r \in Run, Look(r) \/ Prune(r) PROVE Shaped' BY <1>6 DEF Look, Prune
<1>7. ASSUME NEW r \in Run, Register(r) PROVE Shaped' BY <1>7 DEF Register
<1>8. ASSUME NEW r \in Run, Refuse(r) PROVE Shaped' BY <1>8 DEF Refuse, Freed
<1>9. ASSUME NEW r \in Run, Release(r) PROVE Shaped' BY <1>9 DEF Release, Freed
<1>10. ASSUME NEW r \in Run, Working(r) PROVE Shaped'
  BY <1>10 DEF Working, Join, Save, Leave
<1>11. ASSUME NEW c \in Container, Evaluating(c) PROVE Shaped'
  BY <1>11 DEF Evaluating, Begin, Build, CreateContainer, StartContainer, StartFails, EndWait,
     AfterWait, Clean, CleanFails, LooksAtAbort, Moves
<1>12. ASSUME NEW c \in Container, WaitFails(c) \/ ContainerEnds(c) PROVE Shaped'
  BY <1>12 DEF WaitFails, Moves, ContainerEnds
<1>13. CASE UNCHANGED vars BY <1>13
<1>14. QED
  BY <1>1, <1>2, <1>3, <1>4, <1>5, <1>6, <1>7, <1>8, <1>9, <1>10, <1>11, <1>12, <1>13
     DEF EvalNext, Starting

\* What a step of an evaluation leaves alone.
LEMMA EvaluationsMove ==
  ASSUME NEW c \in Container, Evaluating(c) \/ WaitFails(c), Shaped
  PROVE  /\ item' = item /\ names' = names /\ slots' = slots /\ batchOn' = batchOn
         /\ active' = active /\ run' = run /\ worker' = worker
         /\ detached' = detached /\ abort' = abort
         /\ misread \subseteq misread'
         /\ eval[c] \notin {"none", "over"} /\ eval'[c] # "none"
         /\ \A d \in Container : d # c =>
              eval'[d] = eval[d] /\ container'[d] = container[d]
BY DEF Evaluating, Begin, Build, CreateContainer, StartContainer, StartFails, EndWait,
   AfterWait, Clean, CleanFails, WaitFails, LooksAtAbort, Moves, Shaped, starts, runs, dock, app

\* Nothing but Quit touches the event, or clears it.
LEMMA EventMoves ==
  ASSUME Shaped, [EvalNext]_vars
  PROVE  \/ Quit
         \/ detached' = detached /\ (abort' = abort \/ ~abort')
<1> USE DEF app, dock, vars
<1>1. ASSUME NEW r \in Run, Starting(r) PROVE detached' = detached /\ (abort' = abort \/ ~abort')
  BY <1>1 DEF Starting, Acquire, Look, Prune, Register, Refuse, Release
<1>2. ASSUME NEW r \in Run, Launch(r) \/ Working(r) PROVE detached' = detached /\ abort' = abort
  BY <1>2 DEF Launch, Working, Join, Save, Leave
<1>3. ASSUME NEW c \in Container, Evaluating(c) \/ WaitFails(c) \/ ContainerEnds(c)
      PROVE  detached' = detached /\ abort' = abort
  BY <1>3, EvaluationsMove DEF ContainerEnds
<1>4. CASE StartBatch \/ BatchDone BY <1>4 DEF StartBatch, BatchDone
<1>5. QED BY <1>1, <1>2, <1>3, <1>4 DEF EvalNext

LEMMA AbortIsQuitKept ==
  ASSUME Shaped, AbortIsQuit, [EvalNext]_vars
  PROVE  AbortIsQuit'
BY EventMoves DEF AbortIsQuit, Quit, Shaped

-----------------------------------------------------------------------------
(* The semaphore.                                                          *)

LEMMA HoldingFinite ==
  IsFiniteSet(Holding) /\ Cardinality(Holding) \in Nat
<1>1. IsFiniteSet(Batch) BY EvalAssumption, FS_Subset
<1>2. IsFiniteSet(Holding) BY <1>1, FS_Subset DEF Holding
<1>3. QED BY <1>2, FS_CardinalityType

LEMMA SlotTaken ==
  ASSUME NEW r \in Batch, Shaped, Accounted, r \notin Holding,
         Holding' = Holding \cup {r}, slots > 0, slots' = slots - 1
  PROVE  Accounted'
<1>1. Cardinality(Holding') = Cardinality(Holding) + 1
  BY HoldingFinite, FS_AddElement
<1>2. QED BY <1>1, HoldingFinite, EvalAssumption DEF Accounted, Shaped

LEMMA SlotGiven ==
  ASSUME NEW r \in Batch, Shaped, Accounted, r \in Holding,
         Holding' = Holding \ {r}, slots' = slots + 1
  PROVE  Accounted'
<1>1. Cardinality(Holding') = Cardinality(Holding) - 1
  BY HoldingFinite, FS_RemoveElement
<1>2. QED BY <1>1, HoldingFinite, EvalAssumption DEF Accounted, Shaped

LEMMA AccountedKept ==
  ASSUME Shaped, Accounted, InOrder, [EvalNext]_vars
  PROVE  Accounted'
<1> USE EvalAssumption DEF starts, runs, dock, app, vars
<1>same. ASSUME Holding' = Holding, slots' = slots PROVE Accounted'
  BY <1>same DEF Accounted
<1>1. CASE StartBatch
  <2>1. Holding' = Holding
    BY <1>1 DEF StartBatch, Holding, Busy, InStart, Shaped
  <2>2. QED BY <1>same, <1>1, <2>1 DEF StartBatch
<1>2. CASE Quit \/ BatchDone
  <2>1. item' = item /\ slots' = slots BY <1>2 DEF Quit, BatchDone
  <2>2. QED BY <1>same, <2>1 DEF Holding
<1>3. ASSUME NEW r \in Run, Launch(r) PROVE Accounted'
  <2>1. Holding' = Holding
    BY <1>3 DEF Launch, Holding, Shaped
  <2>2. QED BY <1>same, <1>3, <2>1 DEF Launch
<1>4. ASSUME NEW r \in Run, Acquire(r) PROVE Accounted'
  <2>1. r \in Batch BY <1>4 DEF Acquire, InOrder
  <2>2. Holding' = Holding \cup {r} /\ r \notin Holding
    BY <1>4, <2>1 DEF Acquire, Holding, Busy, InStart, Shaped
  <2>3. QED BY <1>4, <2>1, <2>2, SlotTaken DEF Acquire
<1>5. ASSUME NEW r \in Run, Look(r) \/ Prune(r) PROVE Accounted'
  <2>1. Holding' = Holding
    BY <1>5 DEF Look, Prune, Holding, Busy, InStart, Shaped
  <2>2. QED BY <1>same, <1>5, <2>1 DEF Look, Prune
<1>6. ASSUME NEW r \in Run, Register(r) PROVE Accounted'
  <2>1. Holding' = Holding
    BY <1>6 DEF Register, Holding, Busy, InStart, Shaped
  <2>2. QED BY <1>same, <1>6, <2>1 DEF Register
<1>7. ASSUME NEW r \in Run, Refuse(r) \/ Release(r) PROVE Accounted'
  <2>1. item[r] \in Busy /\ item' = [item EXCEPT ![r] = "over"] /\ slots' = Freed(r)
    BY <1>7 DEF Refuse, Release, Busy, InStart
  <2>2. CASE r \in Batch
    <3>1. Holding' = Holding \ {r} /\ r \in Holding
      BY <2>1, <2>2 DEF Holding, Busy, InStart, Shaped
    <3>2. QED BY <2>1, <2>2, <3>1, SlotGiven DEF Freed
  <2>3. CASE r \notin Batch
    <3>1. Holding' = Holding
      BY <2>1, <2>3 DEF Holding, Shaped
    <3>2. QED BY <1>same, <2>1, <2>3, <3>1 DEF Freed
  <2>4. QED BY <2>2, <2>3
<1>8. ASSUME NEW r \in Run, Working(r) PROVE Accounted'
  <2>1. item' = item /\ slots' = slots BY <1>8 DEF Working, Join, Save, Leave
  <2>2. QED BY <1>same, <2>1 DEF Holding
<1>9. ASSUME NEW c \in Container, Evaluating(c) \/ WaitFails(c) \/ ContainerEnds(c)
      PROVE  Accounted'
  <2>1. item' = item /\ slots' = slots
    BY <1>9, EvaluationsMove DEF ContainerEnds
  <2>2. QED BY <1>same, <2>1 DEF Holding
<1>10. CASE UNCHANGED vars BY <1>same, <1>10 DEF Holding
<1>11. QED
  BY <1>1, <1>2, <1>3, <1>4, <1>5, <1>6, <1>7, <1>8, <1>9, <1>10 DEF EvalNext, Starting

-----------------------------------------------------------------------------
(* Launches, their threads and their containers.                           *)

LEMMA InOrderKept ==
  ASSUME Shaped, InOrder, [EvalNext]_vars
  PROVE  InOrder'
<1> USE EvalAssumption DEF starts, runs, dock, app, vars
<1>same. ASSUME item' = item, run' = run, eval' = eval PROVE InOrder'
  BY <1>same DEF InOrder
<1>1. CASE StartBatch
  BY <1>1 DEF StartBatch, InOrder, Unstarted, Shaped
<1>2. CASE Quit \/ BatchDone BY <1>same, <1>2 DEF Quit, BatchDone
<1>3. ASSUME NEW r \in Run, Launch(r) PROVE InOrder'
  BY <1>3 DEF Launch, InOrder, Unstarted, Shaped
<1>4. ASSUME NEW r \in Run, Acquire(r) PROVE InOrder'
  BY <1>4 DEF Acquire, InOrder, Unstarted, Shaped
<1>5. ASSUME NEW r \in Run, Look(r) \/ Prune(r) PROVE InOrder'
  BY <1>5 DEF Look, Prune, InOrder, Unstarted, Shaped
<1>6. ASSUME NEW r \in Run, Register(r) PROVE InOrder'
  BY <1>6 DEF Register, InOrder, Unstarted, Shaped
<1>7. ASSUME NEW r \in Run, Refuse(r) PROVE InOrder'
  BY <1>7 DEF Refuse, InOrder, Unstarted, Shaped
<1>8. ASSUME NEW r \in Run, Release(r) PROVE InOrder'
  BY <1>8 DEF Release, InOrder, Unstarted, Shaped
<1>9. ASSUME NEW r \in Run, Working(r) PROVE InOrder'
  BY <1>9 DEF Working, Join, Save, Leave, InOrder, Shaped
<1>10. ASSUME NEW c \in Container, Evaluating(c) \/ WaitFails(c) PROVE InOrder'
  BY <1>10, EvaluationsMove DEF InOrder
<1>11. ASSUME NEW c \in Container, ContainerEnds(c) PROVE InOrder'
  BY <1>same, <1>11 DEF ContainerEnds
<1>12. CASE UNCHANGED vars BY <1>same, <1>12
<1>13. QED
  BY <1>1, <1>2, <1>3, <1>4, <1>5, <1>6, <1>7, <1>8, <1>9, <1>10, <1>11, <1>12
     DEF EvalNext, Starting

LEMMA WatchedKept ==
  ASSUME Shaped, InOrder, AbortIsQuit, Watched, [EvalNext]_vars
  PROVE  Watched'
<1> USE EvalAssumption DEF starts, runs, dock, app, vars
<1>calm. ASSUME eval' = eval, detached' = detached, abort' = abort \/ ~abort',
                misread \subseteq misread',
                \A c \in Container : container'[c] = "running" => container[c] = "running"
         PROVE  Watched'
  BY <1>calm DEF Watched
<1>1. CASE StartBatch \/ BatchDone BY <1>calm, <1>1 DEF StartBatch, BatchDone
\* Nobody is at the removal of a running container when the operator quits.
<1>2. CASE Quit BY <1>2 DEF Quit, UiFree, Watched, Shaped
<1>3. ASSUME NEW r \in Run, Launch(r) \/ Acquire(r) \/ Refuse(r) \/ Release(r) PROVE Watched'
  BY <1>calm, <1>3 DEF Launch, Acquire, Refuse, Release
<1>4. ASSUME NEW r \in Run, Look(r) \/ Prune(r) PROVE Watched'
  <2>1. CASE Look(r)
    <3>1. misread \subseteq misread' BY <2>1 DEF Look
    <3>2. QED BY <1>calm, <2>1, <3>1 DEF Look
  <2>2. CASE Prune(r) BY <1>calm, <2>2 DEF Prune, Shaped
  <2>3. QED BY <1>4, <2>1, <2>2
\* A launch that begins has no container.
<1>5. ASSUME NEW r \in Run, Register(r) PROVE Watched'
  <2>1. \A c \in Container : Of[c] = r => container[c] # "running"
    BY <1>5 DEF Register, InOrder, Unstarted, Watched
  <2>2. QED BY <1>5, <2>1 DEF Register, Watched, Shaped
<1>6. ASSUME NEW r \in Run, Working(r) PROVE Watched'
  BY <1>calm, <1>6 DEF Working, Join, Save, Leave
<1>7. ASSUME NEW c \in Container, Evaluating(c) \/ WaitFails(c) PROVE Watched'
  <2> SUFFICES ASSUME NEW d \in Container, container'[d] = "running"
               PROVE  /\ eval'[d] \in {"waiting", "returned", "cleaning", "over"}
                      /\ eval'[d] \in {"returned", "over"} => detached' \/ d \in misread'
                      /\ eval'[d] = "cleaning" =>
                           (detached' /\ ~abort') \/ d \in misread'
    BY DEF Watched
  <2>1. CASE d # c BY <1>7, <2>1, EvaluationsMove DEF Watched
  <2>2. CASE d = c /\ WaitFails(c)
    BY <2>2 DEF WaitFails, Moves, Shaped
  <2>3. CASE d = c /\ StartContainer(c)
    BY <2>3 DEF StartContainer, Moves, Shaped
  <2>4. CASE d = c /\ Evaluating(c) /\ ~StartContainer(c)
    <3>1. container[c] = "running" /\ misread' = misread /\ detached' = detached
            /\ abort' = abort
      BY <2>4, EvaluationsMove DEF Evaluating, Begin, Build, CreateContainer, StartFails,
         EndWait, AfterWait, Clean, CleanFails, LooksAtAbort, Moves, Shaped
    <3>2. eval[c] \in {"waiting", "returned", "cleaning"}
      BY <2>4, <3>1, EvaluationsMove DEF Watched
    <3>3. EndWait(c) \/ AfterWait(c) \/ CleanFails(c)
      BY <2>4, <3>1, <3>2 DEF Evaluating, Begin, Build, CreateContainer, StartFails, Clean,
         LooksAtAbort, Moves, Shaped
    <3>4. QED
      BY <2>4, <3>1, <3>2, <3>3 DEF EndWait, AfterWait, CleanFails, LooksAtAbort, Moves,
         Watched, AbortIsQuit, Shaped
  <2>5. QED BY <1>7, <2>1, <2>2, <2>3, <2>4
<1>8. ASSUME NEW c \in Container, ContainerEnds(c) PROVE Watched'
  BY <1>calm, <1>8 DEF ContainerEnds, Shaped
<1>9. CASE UNCHANGED vars BY <1>calm, <1>9
<1>10. QED
  BY <1>1, <1>2, <1>3, <1>4, <1>5, <1>6, <1>7, <1>8, <1>9 DEF EvalNext, Starting

LEMMA FreshKept ==
  ASSUME Shaped, InOrder, Fresh, [EvalNext]_vars
  PROVE  Fresh'
<1> USE EvalAssumption DEF starts, runs, dock, app, vars
<1>calm. ASSUME eval' = eval,
                \A c \in Container : container[c] = "none" => container'[c] = "none"
         PROVE  Fresh'
  BY <1>calm DEF Fresh
<1>1. CASE StartBatch \/ BatchDone \/ Quit BY <1>calm, <1>1 DEF StartBatch, BatchDone, Quit
<1>2. ASSUME NEW r \in Run, Launch(r) \/ Acquire(r) \/ Look(r) \/ Refuse(r) \/ Release(r)
      PROVE  Fresh'
  BY <1>calm, <1>2 DEF Launch, Acquire, Look, Refuse, Release
<1>3. ASSUME NEW r \in Run, Prune(r) PROVE Fresh'
  BY <1>calm, <1>3 DEF Prune
<1>4. ASSUME NEW r \in Run, Register(r) PROVE Fresh'
  BY <1>4 DEF Register, InOrder, Unstarted, Unmade, Fresh
<1>5. ASSUME NEW r \in Run, Working(r) PROVE Fresh'
  BY <1>calm, <1>5 DEF Working, Join, Save, Leave
<1>6. ASSUME NEW c \in Container, Evaluating(c) \/ WaitFails(c) PROVE Fresh'
  <2>1. eval'[c] \in Unmade => eval[c] \in Unmade /\ container'[c] = container[c]
    BY <1>6 DEF Evaluating, Begin, Build, CreateContainer, StartContainer, StartFails, EndWait,
       AfterWait, Clean, CleanFails, WaitFails, LooksAtAbort, Moves, Shaped, Unmade
  <2>2. QED BY <1>6, <2>1, EvaluationsMove DEF Fresh
<1>7. ASSUME NEW c \in Container, ContainerEnds(c) PROVE Fresh'
  BY <1>calm, <1>7 DEF ContainerEnds, Shaped
<1>8. CASE UNCHANGED vars BY <1>calm, <1>8
<1>9. QED
  BY <1>1, <1>2, <1>3, <1>4, <1>5, <1>6, <1>7, <1>8 DEF EvalNext, Starting

LEMMA DoomedKept ==
  ASSUME Shaped, InOrder, Fresh, Doomed, [EvalNext]_vars
  PROVE  Doomed'
<1> USE EvalAssumption DEF starts, runs, dock, app, vars
\* No step but a look finds more to remove, and none makes what is over run again.
<1>calm. ASSUME \A r \in Run : item'[r] = "pruning" =>
                  item[r] = "pruning" /\ names'[r] = names[r],
                \A c \in Container : eval'[c] \in Unmade => eval[c] \in Unmade,
                \A c \in Container :
                  container'[c] \in {"created", "running"} =>
                    container[c] \in {"created", "running"} \/ eval[c] \in Unmade,
                misread \subseteq misread'
         PROVE  Doomed'
  BY <1>calm DEF Doomed, Shaped
<1>1. CASE StartBatch \/ BatchDone \/ Quit
  BY <1>calm, <1>1 DEF StartBatch, BatchDone, Quit, Shaped
<1>2. ASSUME NEW r \in Run, Launch(r) \/ Acquire(r) \/ Refuse(r) \/ Release(r)
      PROVE  Doomed'
  <2>1. \A q \in Run : item'[q] = "pruning" => item[q] = "pruning" /\ names'[q] = names[q]
    BY <1>2 DEF Launch, Acquire, Refuse, Release, Shaped
  <2>2. QED BY <1>calm, <1>2, <2>1 DEF Launch, Acquire, Refuse, Release
<1>3. ASSUME NEW r \in Run, Look(r) PROVE Doomed'
  <2>1. PICK unread \in SUBSET {c \in Flaky : container[c] = "running"} :
          LET over == {c \in Container : container[c] \in {"created", "exited"}} \cup unread
              gone == over \ names[r]
          IN  /\ names' = [names EXCEPT ![r] = gone]
              /\ misread' = misread \cup {c \in gone : container[c] # "exited"}
    BY <1>3 DEF Look
  <2> DEFINE gone == ({c \in Container : container[c] \in {"created", "exited"}} \cup unread)
                       \ names[r]
  <2>2. /\ \A q \in Run : names'[q] = IF q = r THEN gone ELSE names[q]
        /\ misread' = misread \cup {c \in gone : container[c] # "exited"}
        /\ \A q \in Run : item'[q] = IF q = r THEN "pruning" ELSE item[q]
        /\ eval' = eval /\ container' = container
    BY <1>3, <2>1 DEF Look, Shaped
  <2>3. \A c \in gone : c \in Container /\ container[c] # "none" BY DEF Shaped
  <2> HIDE DEF gone
  <2>4. QED BY <2>2, <2>3 DEF Doomed, Fresh
<1>4. ASSUME NEW r \in Run, Prune(r) PROVE Doomed'
  <2>1. \A q \in Run : item'[q] = "pruning" => item[q] = "pruning" /\ names'[q] = names[q]
    BY <1>4 DEF Prune, Shaped
  <2>2. \A c \in Container : container'[c] \in {container[c], "none"} BY <1>4 DEF Prune
  <2>3. QED BY <1>calm, <1>4, <2>1, <2>2 DEF Prune
<1>5. ASSUME NEW r \in Run, Register(r) PROVE Doomed'
  <2>1. \A q \in Run : item'[q] = "pruning" => item[q] = "pruning" /\ names'[q] = names[q]
    BY <1>5 DEF Register, Shaped
  <2>2. \A c \in Container : eval'[c] \in Unmade => eval[c] \in Unmade
    BY <1>5 DEF Register, InOrder, Unstarted, Unmade
  <2>3. QED BY <1>calm, <1>5, <2>1, <2>2 DEF Register
<1>6. ASSUME NEW r \in Run, Working(r) PROVE Doomed'
  BY <1>calm, <1>6 DEF Working, Join, Save, Leave
<1>7. ASSUME NEW c \in Container, Evaluating(c) \/ WaitFails(c) PROVE Doomed'
  <2>1. eval'[c] \in Unmade => eval[c] \in Unmade
    BY <1>7 DEF Evaluating, Begin, Build, CreateContainer, StartContainer, StartFails, EndWait,
       AfterWait, Clean, CleanFails, WaitFails, LooksAtAbort, Moves, Shaped, Unmade
  <2>2. container'[c] \in {"created", "running"} =>
          container[c] \in {"created", "running"} \/ eval[c] \in Unmade
    BY <1>7 DEF Evaluating, Begin, Build, CreateContainer, StartContainer, StartFails, EndWait,
       AfterWait, Clean, CleanFails, WaitFails, LooksAtAbort, Moves, Shaped, Unmade
  <2>3. QED BY <1>calm, <1>7, <2>1, <2>2, EvaluationsMove
<1>8. ASSUME NEW c \in Container, ContainerEnds(c) PROVE Doomed'
  BY <1>calm, <1>8 DEF ContainerEnds, Shaped
<1>9. CASE UNCHANGED vars BY <1>calm, <1>9
<1>10. QED
  BY <1>1, <1>2, <1>3, <1>4, <1>5, <1>6, <1>7, <1>8, <1>9 DEF EvalNext, Starting

LEMMA JoinedKept ==
  ASSUME Shaped, InOrder, AbortIsQuit, Joined, [EvalNext]_vars
  PROVE  Joined'
<1> USE EvalAssumption DEF starts, runs, dock, app, vars
<1>calm. ASSUME eval' = eval, run' = run, worker' = worker, detached' \/ detached' = detached
         PROVE  Joined'
  BY <1>calm DEF Joined
<1>1. CASE StartBatch \/ BatchDone \/ Quit BY <1>calm, <1>1 DEF StartBatch, BatchDone, Quit
<1>2. ASSUME NEW r \in Run, Launch(r) \/ Acquire(r) \/ Look(r) \/ Prune(r) \/ Refuse(r) \/ Release(r)
      PROVE  Joined'
  BY <1>calm, <1>2 DEF Launch, Acquire, Look, Prune, Refuse, Release
<1>3. ASSUME NEW r \in Run, Register(r) PROVE Joined'
  BY <1>3 DEF Register, Joined, Shaped
\* While nobody quits, the worker joins when its evaluations are over.
<1>4. ASSUME NEW r \in Run, Join(r) PROVE Joined'
  BY <1>4 DEF Join, Joined, Containers, AbortIsQuit, Shaped
<1>5. ASSUME NEW r \in Run, Save(r) \/ Leave(r) PROVE Joined'
  BY <1>5 DEF Save, Leave, Joined, Shaped
<1>6. ASSUME NEW c \in Container, Evaluating(c) \/ WaitFails(c) PROVE Joined'
  BY <1>6, EvaluationsMove DEF Joined
<1>7. ASSUME NEW c \in Container, ContainerEnds(c) PROVE Joined'
  BY <1>calm, <1>7 DEF ContainerEnds
<1>8. CASE UNCHANGED vars BY <1>calm, <1>8
<1>9. QED
  BY <1>1, <1>2, <1>3, <1>4, <1>5, <1>6, <1>7, <1>8 DEF EvalNext, Starting, Working

-----------------------------------------------------------------------------
(* The theorems.                                                           *)

LEMMA InvInit == EvalInit => Inv
<1> SUFFICES ASSUME EvalInit PROVE Inv OBVIOUS
<1> USE EvalAssumption DEF EvalInit
<1>1. Shaped BY DEF Shaped
<1>2. Holding = {} BY DEF Holding, Busy, InStart
<1>3. Accounted BY <1>2, FS_EmptySet DEF Accounted
<1>4. InOrder /\ AbortIsQuit /\ Watched /\ Fresh /\ Doomed /\ Joined
  BY DEF InOrder, AbortIsQuit, Watched, Fresh, Doomed, Joined
<1>5. QED BY <1>1, <1>3, <1>4 DEF Inv

LEMMA InvNext ==
  ASSUME Inv, [EvalNext]_vars
  PROVE  Inv'
BY ShapedKept, AccountedKept, InOrderKept, AbortIsQuitKept, WatchedKept, FreshKept, DoomedKept, JoinedKept
   DEF Inv

LEMMA InvKept == EvalSpec => []Inv
<1>1. Inv /\ [EvalNext]_vars => Inv' BY InvNext
<1>2. QED BY InvInit, <1>1, PTL DEF EvalSpec

\* Every place of start_batch, start_run, _worker and run_evaluation is one of those
\* named, and the semaphore is never released more often than it was acquired.
THEOREM EvalTypesKept == EvalSpec => []EvalTypeOK
<1>1. Inv => EvalTypeOK
  <2> SUFFICES ASSUME Inv PROVE EvalTypeOK OBVIOUS
  <2>1. slots \in 0..MaxParallel
    BY HoldingFinite, EvalAssumption DEF Inv, Shaped, Accounted
  <2>2. QED BY <2>1 DEF EvalTypeOK, Inv, Shaped
<1>2. QED BY InvKept, <1>1, PTL

\* The semaphore of start_batch bounds the launches whose containers run, until the
\* operator quits.
THEOREM BatchIsBounded == EvalSpec => []BatchBound
<1>1. Inv => BatchBound
  <2> SUFFICES ASSUME Inv, ~detached
               PROVE  Cardinality({r \in Batch : \E c \in Containers(r) \ misread :
                                                  container[c] = "running"}) <= MaxParallel
    BY DEF BatchBound
  <2> DEFINE Up == {r \in Batch : \E c \in Containers(r) \ misread : container[c] = "running"}
  <2>1. ASSUME NEW r \in Up PROVE r \in Holding
    <3>1. PICK c \in Container : Of[c] = r /\ container[c] = "running" /\ c \notin misread
      BY <2>1 DEF Containers
    <3>2. eval[c] = "waiting" BY <3>1 DEF Inv, Watched
    <3>3. run[r] = "running" BY <3>1, <3>2 DEF Inv, Joined
    <3>4. r \in Run /\ r \in Batch BY <2>1, EvalAssumption
    <3>5. item[r] = "holding" BY <3>3, <3>4 DEF Inv, InOrder
    <3>6. QED BY <3>4, <3>5 DEF Holding, Busy
  <2>2. Up \subseteq Holding BY <2>1
  <2>3. Cardinality(Up) <= Cardinality(Holding) BY <2>2, HoldingFinite, FS_Subset
  <2>4. Cardinality(Up) \in Nat BY <2>2, HoldingFinite, FS_Subset, FS_CardinalityType
  <2>5. Cardinality(Holding) <= MaxParallel
    BY HoldingFinite, EvalAssumption DEF Inv, Shaped, Accounted
  <2>6. QED BY <2>3, <2>4, <2>5, HoldingFinite, EvalAssumption
<1>2. QED BY InvKept, <1>1, PTL

\* No thread of the app removes a container that runs, but for one that was taken for
\* over and one whose thread has left its wait for a quit that was taken back under it.
THEOREM RunningContainersKept == EvalSpec => KeepsRunning
<1>1. ASSUME Inv, [EvalNext]_vars,
             NEW c \in Container, container[c] = "running", container'[c] = "none"
      PROVE  c \in misread \/ (detached /\ ~abort)
  <2>1. ASSUME NEW d \in Container, Evaluating(d) \/ WaitFails(d) PROVE eval[c] = "cleaning"
    <3>1. d = c BY <1>1, <2>1, EvaluationsMove DEF Inv
    <3>2. QED
      BY <1>1, <2>1, <3>1 DEF Evaluating, Begin, Build, CreateContainer, StartContainer,
         StartFails, EndWait, AfterWait, Clean, CleanFails, WaitFails, LooksAtAbort, Moves,
         dock, Inv, Shaped
  <2>2. ASSUME NEW r \in Run, Launch(r) \/ Acquire(r) \/ Look(r) \/ Register(r) \/ Refuse(r)
                              \/ Release(r) \/ Working(r)
        PROVE  FALSE
    BY <1>1, <2>2 DEF Launch, Acquire, Look, Register, Refuse, Release, Working, Join, Save,
       Leave, dock
  \* A prune removes what it took for over.
  <2>3. ASSUME NEW r \in Run, Prune(r) PROVE c \in misread
    <3>1. c \in names[r] BY <1>1, <2>3 DEF Prune
    <3>2. QED BY <1>1, <2>3, <3>1 DEF Prune, Inv, Doomed
  <2>4. CASE StartBatch \/ Quit \/ BatchDone
    BY <1>1, <2>4 DEF StartBatch, Quit, BatchDone, dock
  <2>5. ASSUME NEW d \in Container, ContainerEnds(d) PROVE FALSE
    BY <1>1, <2>5 DEF ContainerEnds, Inv, Shaped
  <2>6. CASE UNCHANGED vars BY <1>1, <2>6 DEF vars, dock
  <2>7. ASSUME eval[c] = "cleaning" PROVE c \in misread \/ (detached /\ ~abort)
    BY <1>1, <2>7 DEF Inv, Watched
  <2>8. QED
    BY <1>1, <2>1, <2>2, <2>3, <2>4, <2>5, <2>6, <2>7 DEF EvalNext, Starting
<1>2. Inv /\ [EvalNext]_vars =>
        [\A c \in Container :
           container[c] = "running" /\ container'[c] = "none" =>
             c \in misread \/ (detached /\ ~abort)]_vars
  BY <1>1
<1>3. QED BY InvKept, <1>2, PTL DEF EvalSpec, KeepsRunning

-----------------------------------------------------------------------------
(* Nobody waits for docker, a slot or a thread that is over: what          *)
(* LaunchesEnd needs of the steps, fairness left aside.                    *)

\* A launch in the table has a worker that will take it out, one that is shown as
\* running has a worker that will say otherwise, and a worker that waits has its
\* evaluations.
Attended ==
  /\ \A r \in active : worker[r] \in {"joining", "saving", "leaving"}
  /\ \A r \in Run :
       /\ run[r] = "running" => worker[r] \in {"joining", "saving"}
       /\ worker[r] = "joining" => \A c \in Containers(r) : eval[c] # "none"
  /\ batchOn => \A r \in Batch : item[r] # "idle"

\* The threads that can take a step of their own: of an item, a worker, a container.
StartsOn(r) ==
  \/ item[r] \in InStart
  \/ item[r] = "queued" /\ slots > 0
  \/ item[r] = "holding" /\ run[r] # "running"
WorksOn(r) ==
  \/ worker[r] = "joining" /\ (abort \/ \A c \in Containers(r) : eval[c] = "over")
  \/ worker[r] \in {"saving", "leaving"}
EvaluatesOn(c) ==
  \/ eval[c] \in {"begin", "building", "starting", "created", "returned", "cleaning"}
  \/ eval[c] = "waiting" /\ (container[c] # "running" \/ abort)

\* While a launch is in the table or the batch is on, a thread can go on, unless
\* everybody waits for a container that runs and nobody has quit.
SomebodyGoesOn ==
  active # {} \/ batchOn =>
    \/ \E r \in Run : StartsOn(r) \/ WorksOn(r)
    \/ \E c \in Container : EvaluatesOn(c)
    \/ batchOn /\ \A r \in Batch : item[r] = "over"
    \/ ~abort /\ \E c \in Container : container[c] = "running"

LEMMA AttendedKept ==
  ASSUME Shaped, Attended, [EvalNext]_vars
  PROVE  Attended'
<1> USE EvalAssumption DEF starts, runs, dock, app, vars
<1>calm. ASSUME active' = active, run' = run, worker' = worker, eval' = eval,
                batchOn' => \A r \in Batch : item'[r] # "idle"
         PROVE  Attended'
  BY <1>calm DEF Attended, Containers
<1>1. CASE StartBatch
  <2>1. \A r \in Batch : item'[r] # "idle" BY <1>1 DEF StartBatch
  <2>2. QED BY <1>calm, <1>1, <2>1 DEF StartBatch
<1>2. CASE Quit \/ BatchDone BY <1>calm, <1>2 DEF Quit, BatchDone, Attended
<1>3. ASSUME NEW r \in Run, Launch(r) \/ Acquire(r) \/ Look(r) \/ Prune(r) \/ Refuse(r) \/ Release(r)
      PROVE  Attended'
  <2>1. batchOn' = batchOn /\ \A q \in Run : item'[q] = "idle" => item[q] = "idle"
    BY <1>3 DEF Launch, Acquire, Look, Prune, Refuse, Release, Shaped
  <2>2. batchOn' => \A q \in Batch : item'[q] # "idle" BY <2>1 DEF Attended
  <2>3. QED BY <1>calm, <1>3, <2>2 DEF Launch, Acquire, Look, Prune, Refuse, Release
<1>4. ASSUME NEW r \in Run, Register(r) PROVE Attended'
  <2>1. /\ active' = active \cup {r}
        /\ \A q \in Run : worker'[q] = IF q = r THEN "joining" ELSE worker[q]
        /\ \A q \in Run : run'[q] = IF q = r THEN "running" ELSE run[q]
    BY <1>4 DEF Register, Shaped
  <2>2. \A c \in Container : eval'[c] = IF Of[c] = r THEN "begin" ELSE eval[c]
    BY <1>4 DEF Register
  <2>3. batchOn' => \A q \in Batch : item'[q] # "idle"
    BY <1>4 DEF Register, Attended, Shaped
  <2>4. \A q \in active' : worker'[q] \in {"joining", "saving", "leaving"}
    BY <1>4, <2>1 DEF Attended, Shaped
  <2>5. \A q \in Run : run'[q] = "running" => worker'[q] \in {"joining", "saving"}
    BY <2>1 DEF Attended
  <2>6. \A q \in Run : worker'[q] = "joining" => \A c \in Containers(q) : eval'[c] # "none"
    BY <2>1, <2>2 DEF Attended, Containers
  <2>7. QED BY <2>3, <2>4, <2>5, <2>6 DEF Attended, Containers
<1>5. ASSUME NEW r \in Run, Working(r) PROVE Attended'
  <2>1. /\ worker' \in [Run -> {"none", "joining", "saving", "leaving", "over"}]
        /\ \A q \in Run : q # r => worker'[q] = worker[q] /\ run'[q] = run[q]
        /\ eval' = eval /\ item' = item /\ batchOn' = batchOn
    BY <1>5 DEF Working, Join, Save, Leave, Shaped
  <2>2. /\ active' \subseteq active
        /\ r \in active' => worker'[r] \in {"joining", "saving", "leaving"}
        /\ run'[r] = "running" => worker'[r] \in {"joining", "saving"}
        /\ worker'[r] # "joining"
    BY <1>5 DEF Working, Join, Save, Leave, Shaped, Attended
  <2>3. \A q \in active' : worker'[q] \in {"joining", "saving", "leaving"}
    BY <2>1, <2>2 DEF Attended, Shaped
  <2>4. \A q \in Run : run'[q] = "running" => worker'[q] \in {"joining", "saving"}
    BY <2>1, <2>2 DEF Attended
  <2>5. \A q \in Run : worker'[q] = "joining" => \A c \in Containers(q) : eval[c] # "none"
    BY <2>1, <2>2 DEF Attended
  <2>6. batchOn' => \A q \in Batch : item'[q] # "idle" BY <2>1 DEF Attended
  <2>7. QED BY <2>1, <2>3, <2>4, <2>5, <2>6 DEF Attended, Containers
<1>6. ASSUME NEW c \in Container, Evaluating(c) \/ WaitFails(c) PROVE Attended'
  BY <1>6, EvaluationsMove DEF Attended, Containers
<1>7. ASSUME NEW c \in Container, ContainerEnds(c) PROVE Attended'
  BY <1>calm, <1>7 DEF ContainerEnds, Attended
<1>8. CASE UNCHANGED vars BY <1>calm, <1>8 DEF Attended
<1>9. QED
  BY <1>1, <1>2, <1>3, <1>4, <1>5, <1>6, <1>7, <1>8 DEF EvalNext, Starting

\* A worker that is not over goes on, or an evaluation of its launch does, or waits.
LEMMA WorkersGoOn ==
  ASSUME Shaped, Attended, NEW r \in Run, worker[r] \in {"joining", "saving", "leaving"}
  PROVE  \/ WorksOn(r)
         \/ \E c \in Container : EvaluatesOn(c)
         \/ ~abort /\ \E c \in Container : container[c] = "running"
<1>1. CASE worker[r] # "joining" BY <1>1 DEF WorksOn
<1>2. CASE worker[r] = "joining" /\ ~WorksOn(r)
  <2>1. ~abort BY <1>2 DEF WorksOn
  <2>2. PICK c \in Container : c \in Containers(r) /\ eval[c] # "over"
    BY <1>2 DEF WorksOn, Containers
  <2>3. eval[c] \in {"begin", "building", "starting", "created", "waiting", "returned",
                  "cleaning"}
    BY <1>2, <2>2 DEF Attended, Shaped
  <2>4. QED BY <2>1, <2>2, <2>3 DEF EvaluatesOn
<1>3. QED BY <1>1, <1>2

\* What LaunchesEnd leaves to fairness: whatever the launches, the containers and
\* the slots, the app never has a launch in its table, or its batch on, with every
\* thread waiting for another one, or for a slot that nobody will give back.
THEOREM LaunchesNeverStick == EvalSpec => []SomebodyGoesOn
<1>1. EvalInit => Attended BY EvalAssumption DEF EvalInit, Attended
<1>2. Inv /\ Attended /\ [EvalNext]_vars => Attended' BY AttendedKept DEF Inv
<1>3. Inv /\ Attended => SomebodyGoesOn
  <2> SUFFICES ASSUME Inv, Attended, active # {} \/ batchOn,
                      ~(batchOn /\ \A r \in Batch : item[r] = "over")
               PROVE  \/ \E r \in Run : StartsOn(r) \/ WorksOn(r)
                      \/ \E c \in Container : EvaluatesOn(c)
                      \/ ~abort /\ \E c \in Container : container[c] = "running"
    BY DEF SomebodyGoesOn
  <2> USE EvalAssumption
  <2>1. CASE active # {}
    <3>1. PICK r \in active : TRUE BY <2>1
    <3>2. r \in Run /\ worker[r] \in {"joining", "saving", "leaving"}
      BY <3>1 DEF Inv, Shaped, Attended
    <3>3. QED BY <3>2, WorkersGoOn DEF Inv
  \* An item that holds a slot is being started, is done, or has a worker.
  <2>2. ASSUME NEW r \in Holding PROVE StartsOn(r) \/ worker[r] \in {"joining", "saving"}
    <3>1. r \in Run /\ item[r] \in Busy BY <2>2 DEF Holding
    <3>2. QED BY <3>1 DEF StartsOn, Attended, Busy
  <2>3. ASSUME Holding # {} PROVE \E r \in Run :
          StartsOn(r) \/ worker[r] \in {"joining", "saving", "leaving"}
    BY <2>2, <2>3 DEF Holding
  <2>4. CASE active = {} /\ batchOn
    <3>1. PICK r \in Batch : item[r] # "over" BY <2>4
    <3>2. r \in Run /\ item[r] \in {"queued"} \cup Busy
      BY <2>4, <3>1 DEF Attended, Inv, Shaped
    <3>3. CASE Holding # {} BY <2>3, <3>3, WorkersGoOn DEF Inv
    \* Nobody holds a slot: all of them are there, for the item that waits.
    <3>4. CASE Holding = {}
      <4>1. Cardinality(Holding) = 0 BY <3>4, FS_EmptySet
      <4>2. slots = MaxParallel BY <4>1 DEF Inv, Shaped, Accounted
      <4>3. item[r] = "queued" BY <3>1, <3>2, <3>4 DEF Holding
      <4>4. QED BY <3>2, <4>2, <4>3 DEF StartsOn
    <3>5. QED BY <3>3, <3>4
  <2>5. QED BY <2>1, <2>4
<1>4. QED BY InvKept, <1>1, <1>2, <1>3, PTL DEF EvalSpec

=============================================================================
