--------------------------- MODULE Catalog_proofs ---------------------------
(***************************************************************************)
(* The cache of the catalog implements CatalogRevisions, for every set of  *)
(* sessions and statuses: whatever threads rebuild, read and patch, its    *)
(* clients see rows that move by a remembered patch, while no rebuild is   *)
(* under way, or by a rebuild that forgets the patches.                    *)
(***************************************************************************)
EXTENDS Catalog, TLAPS

Mark == [Session -> Nat]

Builds == [pc : {"off", "stamp", "scan", "committed"}, fp : Nat, todo : SUBSET Session,
           mark : Mark, seen : Rows]

\* What the steps rely on: rows, and whatever may become rows, have the shape
\* of rows, and a task reads only for a cache that is warm.
Sound ==
  /\ disk \in Rows /\ rows \in Rows
  /\ stamp \in Nat /\ fp \in Nat /\ seq \in Nat
  /\ fired \subseteq Session /\ pending \in [Session -> SUBSET Session]
  /\ mark \in Mark /\ held \in [Session -> SUBSET Shown]
  /\ build \in Builds /\ saved \in [mark : Mark, row : Rows]
  /\ task \in [Session -> [pc : TaskPC, dirs : SUBSET Session, seq : Nat, found : R!Patch]]
  /\ \A s \in Session : task[s].pc = "read" => warm

\* A patch that list_refresh_delta makes names sessions and changes their rows.
LEMMA ChangesArePatch ==
  ASSUME rows \in Rows, NEW found,
         found \in R!Patch
  PROVE  /\ Changes(found) \in R!Patch
         /\ \A s \in DOMAIN Changes(found) : Changes(found)[s] # rows[s]
<1> DEFINE new == [d \in DOMAIN found |-> Kept(rows[d], found[d])]
           moved == {d \in DOMAIN new : new[d] # rows[d]}
<1>1. Changes(found) = [d \in moved |-> new[d]]
  BY DEF Changes
<1>2. \A d \in moved : new[d] \in R!Shown
  BY DEF Kept, Rows, R!Rows, R!Patch
<1>3. moved \in SUBSET Session
  BY DEF R!Patch
<1>4. [d \in moved |-> new[d]] \in [moved -> R!Shown]
  BY <1>2
<1>5. [d \in moved |-> new[d]] \in R!Patch
  BY <1>3, <1>4 DEF R!Patch
<1> QED
  BY <1>1, <1>5

\* Patching keeps the shape of rows.
LEMMA PatchedAreRows ==
  ASSUME NEW r \in Rows, NEW p \in R!Patch
  PROVE  R!Patched(r, p) \in Rows
BY DEF R!Patched, R!Patch, Rows, R!Rows

\* The empty patch changes nothing.
LEMMA NothingPatched ==
  ASSUME NEW r \in Rows
  PROVE  R!Patched(r, << >>) = r
BY DEF R!Patched, Rows, R!Rows

\* A reading adds to a patch.
LEMMA ReadingIsPatch ==
  ASSUME NEW found \in R!Patch, NEW d \in Session, NEW row \in R!Shown
  PROVE  [e \in DOMAIN found \cup {d} |-> IF e = d THEN row ELSE found[e]] \in R!Patch
<1> DEFINE D == DOMAIN found \cup {d}
<1>1. D \in SUBSET Session
  BY DEF R!Patch
<1>2. [e \in D |-> IF e = d THEN row ELSE found[e]] \in [D -> R!Shown]
  BY DEF R!Patch
<1> QED
  BY <1>1, <1>2 DEF R!Patch

\* Nothing is a patch, and no rows at all are rows.
LEMMA EmptyShapes == << >> \in R!Patch /\ Nothing \in Rows
<1>1. << >> \in [{} -> R!Shown]
  OBVIOUS
<1>2. << >> \in R!Patch
  BY <1>1 DEF R!Patch
<1>3. Nothing \in Rows
  BY DEF Nothing, Rows, R!Nothing, R!Rows, R!Shown
<1> QED
  BY <1>2, <1>3

LEMMA NoTaskType == NoTask \in [pc : TaskPC, dirs : SUBSET Session, seq : Nat, found : R!Patch]
BY EmptyShapes DEF NoTask, TaskPC

LEMMA NoBuildType ==
  /\ NoBuild \in Builds
  /\ NoBuild.pc = "off" /\ NoBuild.fp = 0 /\ NoBuild.mark = NoMarks /\ NoBuild.todo = {}
  /\ [NoBuild EXCEPT !.pc = "committed"] \in Builds
  /\ NoMarks \in Mark
BY EmptyShapes DEF NoBuild, Builds, Mark, NoMarks

\* A session that comes next is one of them.
LEMMA FollowingIsOne ==
  ASSUME NEW S, S # {}
  PROVE  Following(S) \in S
BY DEF Following

\* What is read of a session is a row.
LEMMA FoundIsRow ==
  ASSUME disk \in Rows, NEW s \in Session
  PROVE  Found(s) \subseteq R!Shown
BY CatalogAssumption DEF Found, Rows, R!Rows, R!Shown, Absent

LEMMA SoundInit == CatalogInit => Sound
<1> SUFFICES ASSUME CatalogInit PROVE Sound
  OBVIOUS
<1>1. disk \in Rows
  BY DEF CatalogInit, Rows, Shown, R!Rows
<1>2. \A s \in Session : task[s].pc = "idle"
  BY DEF CatalogInit, OwnerInit, NoTask
<1>3. mark \in Mark /\ held \in [Session -> SUBSET Shown]
  BY DEF CatalogInit, Mark
<1>4. saved \in [mark : Mark, row : Rows]
  BY EmptyShapes, NoBuildType DEF CatalogInit
<1> QED
  BY <1>1, <1>2, <1>3, <1>4, EmptyShapes, NoTaskType, NoBuildType DEF CatalogInit, OwnerInit, Sound

\* _kick_rebuild leaves a rebuild thread of the right shape.
LEMMA KickType ==
  ASSUME Sound, NEW force, KickRebuild(force)
  PROVE  build' \in Builds
BY NoBuildType DEF Sound, KickRebuild, Builds

\* The scan of a session: its row is none, that of the snapshot, or what is found.
LEMMA ScanFacts ==
  ASSUME Sound, ScanSession
  PROVE  \E s \in build.todo, row \in R!Shown :
           /\ build' = [build EXCEPT !.todo = build.todo \ {s},
                                     !.seen = [build.seen EXCEPT ![s] = row]]
           /\ build' \in Builds
           /\ build.mark[s] # 0 =>
                \/ saved.mark[s] = build.mark[s] /\ row = saved.row[s]
                \/ row \in Found(s)
<1> DEFINE s == Following(build.todo)
<1>1. s \in build.todo /\ s \in Session
  BY FollowingIsOne DEF ScanSession, Sound, Builds
<1>2. PICK row \in Scanned(s) : build' = [build EXCEPT !.todo = @ \ {s}, !.seen[s] = row]
  BY DEF ScanSession
<1> HIDE DEF s
<1>3. /\ row \in R!Shown
      /\ build.mark[s] # 0 => \/ saved.mark[s] = build.mark[s] /\ row = saved.row[s]
                              \/ row \in Found(s)
  <2>1. row \in Scanned(s)
    BY <1>2
  <2>2. Found(s) \subseteq R!Shown /\ saved.row[s] \in R!Shown /\ Absent \in R!Shown
    BY <1>1, FoundIsRow DEF Sound, Rows, R!Rows, R!Shown, Absent
  <2> QED
    BY <2>1, <2>2 DEF Scanned, Reused
<1>4. [build.seen EXCEPT ![s] = row] \in Rows
  BY <1>1, <1>3 DEF Sound, Builds, Rows, R!Rows
<1>5. build' = [build EXCEPT !.todo = build.todo \ {s}, !.seen = [build.seen EXCEPT ![s] = row]]
  BY <1>2 DEF Sound, Builds
<1>6. build' \in Builds
  BY <1>4, <1>5 DEF Sound, Builds
<1> s \in build.todo /\ row \in R!Shown
  BY <1>1, <1>3
<1> WITNESS s \in build.todo, row \in R!Shown
<1> QED
  BY <1>3, <1>5, <1>6

LEMMA SoundNext == Sound /\ [CatalogNext]_catalog => Sound'
<1> SUFFICES ASSUME Sound, [CatalogNext]_catalog
             PROVE  Sound'
  OBVIOUS
<1> USE DEF files, cache, watch
<1>1. ASSUME NEW s \in Session, Write(s) PROVE Sound'
  <2>1. PICK new \in Shown : /\ Changed(s, new)
                              /\ mark' = [mark EXCEPT ![s] = @ + 1]
                              /\ held' = [held EXCEPT ![s] = {new}]
    BY <1>1 DEF Write
  <2>2. disk' \in Rows /\ fired' \subseteq Session
    BY <2>1 DEF Changed, Sound, Rows, Shown, R!Rows
  <2>3. mark' \in Mark /\ held' \in [Session -> SUBSET Shown]
    BY <2>1 DEF Sound, Mark
  <2>4. stamp' \in Nat /\ build' \in Builds
    BY <1>1, NoBuildType DEF Write, Sound
  <2> QED
    BY <2>1, <2>2, <2>3, <2>4 DEF Changed, Sound
<1>9. ASSUME NEW s \in Session, Drift(s) PROVE Sound'
  <2>1. PICK new \in Status \ {disk[s]} :
          Changed(s, new) /\ held' = [held EXCEPT ![s] = @ \cup {new}]
    BY <1>9 DEF Drift
  <2>2. disk' \in Rows /\ fired' \subseteq Session
    BY <2>1 DEF Changed, Sound, Rows, Shown, R!Rows, R!Shown
  <2>3. held' \in [Session -> SUBSET Shown]
    BY <2>1 DEF Sound, Shown, R!Shown
  <2> QED
    BY <1>9, <2>1, <2>2, <2>3 DEF Changed, Drift, Sound
<1>2. CASE Expire
  BY <1>2 DEF Expire, Sound
<1>3. CASE Restart
  <2>1. \A s \in Session : task'[s].pc = "idle"
    BY <1>3 DEF Restart, NoTask
  <2> QED
    BY <1>3, <2>1, EmptyShapes, NoTaskType, NoBuildType DEF Restart, Sound
<1>4. CASE Kick
  BY <1>4, KickType DEF Kick, Sound
<1>5. CASE Rebuild
  <2>0. CASE StampSessions
    <3> DEFINE marks == [s \in Session |-> IF disk[s] = Absent THEN 0 ELSE mark[s]]
    <3>1. marks \in Mark
      BY DEF Sound, Mark
    <3> HIDE DEF marks
    <3>2. build' = [build EXCEPT !.pc = "scan", !.todo = Session, !.mark = marks]
      BY <2>0 DEF StampSessions, marks
    <3>3. build' \in Builds
      BY <3>1, <3>2 DEF Sound, Builds
    <3> QED
      BY <2>0, <3>3 DEF StampSessions, Sound
  <2>1. CASE ScanSession
    <3>1. build' \in Builds
      BY <2>1, ScanFacts DEF Sound
    <3> QED
      BY <2>1, <3>1 DEF ScanSession, Sound
  <2>2. CASE RebuildCommit
    <3>1. build.mark \in Mark /\ build.seen \in Rows /\ build.fp \in Nat
      BY DEF Sound, Builds
    <3>2. saved' \in [mark : Mark, row : Rows] /\ build' \in Builds /\ rows' \in Rows
      BY <2>2, <3>1, NoBuildType DEF RebuildCommit, Rebuilt
    <3> QED
      BY <2>2, <3>1, <3>2 DEF RebuildCommit, Rebuilt, Sound
  <2>3. CASE RebuildEnd
    BY <2>3, NoBuildType DEF RebuildEnd, Sound
  <2> QED
    BY <1>5, <2>0, <2>1, <2>2, <2>3 DEF Rebuild
<1>6. CASE Accept
  <2>1. PICK batch \in SUBSET fired \ {{}} :
          /\ fired' = fired \ batch
          /\ pending' = [s \in Session |-> IF s \in batch THEN pending[s] \cup batch ELSE pending[s]]
          /\ task' = [s \in Session |-> IF s \in batch /\ task[s].pc = "idle"
                                        THEN [NoTask EXCEPT !.pc = "run"] ELSE task[s]]
          /\ UNCHANGED <<files, gen, cache, build, saved>>
    BY <1>6 DEF Accept
  <2>2. [NoTask EXCEPT !.pc = "run"] \in
          [pc : TaskPC, dirs : SUBSET Session, seq : Nat, found : R!Patch]
    BY NoTaskType DEF TaskPC
  <2>3. [NoTask EXCEPT !.pc = "run"].pc = "run"
    BY DEF NoTask
  <2> QED
    BY <2>1, <2>2, <2>3 DEF Sound
<1>7. ASSUME NEW s \in Session, TaskStep(s) PROVE Sound'
  <2> DEFINE Tasks == [pc : TaskPC, dirs : SUBSET Session, seq : Nat, found : R!Patch]
  \* It is enough that the task has its type, and reads only for a warm cache.
  <2>0. ASSUME NEW rec \in Tasks, task' = [task EXCEPT ![s] = rec], rec.pc = "read" => warm,
               rows' \in Rows, warm' = warm, fp' = fp, seq' \in Nat,
               UNCHANGED <<disk, mark, held, stamp, saved, fired>>,
               pending' \in [Session -> SUBSET Session],
               build' \in Builds
        PROVE  Sound'
    BY <2>0 DEF Sound
  <2>1. CASE TakePending(s)
    <3>1. CASE pending[s] = {}
      BY <2>1, <3>1, <2>0, NoTaskType DEF TakePending, Sound, NoTask
    <3>2. CASE pending[s] # {}
      <4> DEFINE rec == [NoTask EXCEPT !.pc = "snap", !.dirs = pending[s]]
      <4>1. rec \in Tasks /\ rec.pc = "snap"
        BY NoTaskType DEF NoTask, TaskPC, Sound
      <4>2. task' = [task EXCEPT ![s] = rec]
        BY <2>1, <3>2 DEF TakePending
      <4> HIDE DEF rec
      <4> QED
        BY <2>1, <4>1, <4>2, <2>0 DEF TakePending, Sound
    <3> QED
      BY <3>1, <3>2
  <2>2. CASE Snap(s)
    <3>1. PICK rec \in Tasks : task' = [task EXCEPT ![s] = rec] /\ (rec.pc = "read" => warm)
      <4>1. CASE Building \/ ~warm
        <5>1. [task[s] EXCEPT !.pc = "force"] \in Tasks
          BY DEF Sound, TaskPC
        <5> WITNESS [task[s] EXCEPT !.pc = "force"] \in Tasks
        <5> QED
          BY <2>2, <4>1 DEF Snap, Sound
      <4>2. CASE ~(Building \/ ~warm)
        <5>1. task[s] \in Tasks /\ seq \in Nat /\ "read" \in TaskPC
          BY DEF Sound, TaskPC
        <5>2. [task[s] EXCEPT !.pc = "read", !.seq = seq] \in Tasks
          BY <5>1
        <5> WITNESS [task[s] EXCEPT !.pc = "read", !.seq = seq] \in Tasks
        <5> QED
          BY <2>2, <4>2 DEF Snap, Sound
      <4> QED
        BY <4>1, <4>2
    <3> QED
      BY <2>2, <2>0, <3>1 DEF Snap, Sound
  <2>3. CASE ForceRebuild(s)
    <3> DEFINE rec == [task[s] EXCEPT !.pc = "join"]
    <3>1. rec \in Tasks /\ rec.pc = "join"
      BY DEF Sound, TaskPC
    <3>2. task' = [task EXCEPT ![s] = rec]
      BY <2>3 DEF ForceRebuild, Sound
    <3> HIDE DEF rec
    <3> QED
      BY <2>3, <2>0, <3>1, <3>2, KickType DEF ForceRebuild, Sound
  <2> DEFINE running == [NoTask EXCEPT !.pc = "run"]
  <2>r. running \in Tasks /\ running.pc = "run"
    BY NoTaskType DEF NoTask, TaskPC
  <2>4. CASE Join(s)
    BY <2>4, <2>0, <2>r DEF Join, Sound
  <2>5. CASE Commit(s)
    <3>1. rows' \in Rows /\ seq' \in Nat
      <4>1. CASE UNCHANGED cache
        BY <4>1 DEF Sound
      <4>2. CASE /\ rows' = R!Patched(rows, Changes(task[s].found))
                 /\ seq' = seq \/ seq' = seq + 1
        <5>1. Changes(task[s].found) \in R!Patch
          BY ChangesArePatch DEF Sound
        <5> QED
          BY <4>2, <5>1, PatchedAreRows DEF Sound
      <4> QED
        BY <2>5, <4>1, <4>2 DEF Commit
    <3> QED
      BY <2>5, <2>0, <2>r, <3>1 DEF Commit, Sound
  <2>6. CASE ReadSession(s)
    <3> DEFINE d == Following(task[s].dirs \ DOMAIN task[s].found)
    <3>1. d \in Session
      BY <2>6, FollowingIsOne DEF ReadSession, Sound
    <3>2. PICK row \in Found(d) :
            task' = [task EXCEPT ![s].found = [e \in DOMAIN @ \cup {d} |->
                                                 IF e = d THEN row ELSE @[e]]]
      BY <2>6 DEF ReadSession
    <3> HIDE DEF d
    <3> DEFINE found == [e \in DOMAIN task[s].found \cup {d} |->
                           IF e = d THEN row ELSE task[s].found[e]]
    <3>3. found \in R!Patch
      <4>1. task[s].found \in R!Patch /\ row \in R!Shown
        BY <3>1, <3>2, FoundIsRow DEF Sound
      <4> QED
        BY <3>1, <4>1, ReadingIsPatch
    <3> DEFINE rec == [task[s] EXCEPT !.found = found]
    <3>4. rec \in Tasks /\ rec.pc = task[s].pc
      BY <3>3 DEF Sound
    <3>5. task' = [task EXCEPT ![s] = rec]
      BY <3>2 DEF Sound
    <3> HIDE DEF rec
    <3> QED
      BY <2>6, <2>0, <3>4, <3>5 DEF ReadSession, Sound
  <2> QED
    BY <1>7, <2>1, <2>2, <2>3, <2>4, <2>5, <2>6 DEF TaskStep
<1>8. CASE UNCHANGED catalog
  BY <1>8 DEF catalog, Sound
<1> QED
  BY <1>1, <1>2, <1>3, <1>4, <1>5, <1>6, <1>7, <1>8, <1>9 DEF CatalogNext, Owner

LEMMA SoundAlways == CatalogSpec => []Sound
BY SoundInit, SoundNext, PTL DEF CatalogSpec

-----------------------------------------------------------------------------
(* The refinement.                                                         *)

LEMMA InitRefines == CatalogInit => R!RevisionsInit
BY DEF CatalogInit, OwnerInit, NoBuild, Nothing, R!RevisionsInit, R!ColdStart

\* What a step that is not about the cache leaves alone.
LEMMA OthersStutter ==
  UNCHANGED <<gen, cache, build>> => UNCHANGED R!revisions
BY DEF cache, R!revisions

\* _kick_rebuild starts a rebuild or does nothing.
LEMMA KickRefines ==
  ASSUME Sound, NEW force, KickRebuild(force), UNCHANGED <<gen, cache>>
  PROVE  R!StartRebuild \/ UNCHANGED R!revisions
BY NoBuildType DEF KickRebuild, Building, cache, Sound, Builds, R!StartRebuild, R!revisions

\* The last block of refresh_rows is a patch of what changed, or nothing.
LEMMA CommitRefines ==
  ASSUME Sound, NEW s \in Session, Commit(s)
  PROVE  (\E p \in R!Patch : R!ApplyPatch(p)) \/ UNCHANGED R!revisions
<1>1. UNCHANGED <<gen, build>>
  BY DEF Commit, files
<1>2. CASE UNCHANGED cache
  BY <1>1, <1>2 DEF cache, R!revisions
<1>3. CASE ~Building /\ ~UNCHANGED cache
  <2> DEFINE p == Changes(task[s].found)
  <2>1. p \in R!Patch /\ \A d \in DOMAIN p : p[d] # rows[d]
    BY ChangesArePatch DEF Sound
  <2> HIDE DEF p
  <2>2. /\ rows' = R!Patched(rows, p) /\ warm' = warm
        /\ IF p = << >> THEN UNCHANGED <<seq, deltas>>
           ELSE seq' = seq + 1 /\ deltas' = R!Remember(p)
    BY <1>3 DEF Commit, p
  <2>3. CASE p = << >>
    <3>1. rows' = rows
      BY <2>2, <2>3, NothingPatched DEF Sound
    <3> QED
      BY <1>1, <2>2, <2>3, <3>1 DEF R!revisions
  <2>4. CASE p # << >>
    <3>1. warm /\ build.pc = "off"
      BY <1>3 DEF Commit, Building, Sound
    <3>2. R!ApplyPatch(p)
      BY <1>1, <2>1, <2>2, <2>4, <3>1 DEF R!ApplyPatch
    <3> QED
      BY <2>1, <3>2
  <2> QED
    BY <2>3, <2>4
<1> QED
  BY <1>2, <1>3 DEF Commit

LEMMA NextRefines == Sound /\ [CatalogNext]_catalog => [R!RevisionsNext]_(R!revisions)
<1> SUFFICES ASSUME Sound, [CatalogNext]_catalog
             PROVE  R!RevisionsNext \/ UNCHANGED R!revisions
  OBVIOUS
<1>1. ASSUME NEW s \in Session, Write(s) PROVE R!RevisionsNext \/ UNCHANGED R!revisions
  <2>1. CASE build' = build
    BY <1>1, <2>1, OthersStutter DEF Write, Changed
  <2>2. CASE build' # build
    <3>1. build.pc \in {"stamp", "scan"} /\ build' = NoBuild /\ UNCHANGED <<gen, cache>>
      BY <1>1, <2>2 DEF Write, Changed
    <3>2. R!EndRebuild
      BY <3>1 DEF NoBuild, cache, R!EndRebuild
    <3> QED
      BY <3>2 DEF R!RevisionsNext
  <2> QED
    BY <2>1, <2>2
<1>9. ASSUME NEW s \in Session, Drift(s) PROVE UNCHANGED R!revisions
  BY <1>9, OthersStutter DEF Drift, Changed
<1>2. CASE Expire
  BY <1>2 DEF Expire, R!revisions
<1>3. CASE Restart
  <2>1. R!Restarted
    BY <1>3 DEF Restart, NoBuild, Nothing, R!Restarted
  <2> QED
    BY <2>1 DEF R!RevisionsNext
<1>4. CASE Kick
  BY <1>4, KickRefines DEF Kick, R!RevisionsNext
<1>5. CASE Rebuild
  <2>0. CASE StampSessions
    <3>1. build.pc = "stamp" /\ build'.pc = "scan"
      BY <2>0 DEF StampSessions, Sound, Builds
    <3> QED
      BY <2>0, <3>1 DEF StampSessions, cache, R!revisions
  <2>1. CASE ScanSession
    <3>1. build'.pc = build.pc
      BY <2>1, ScanFacts DEF Sound, Builds
    <3> QED
      BY <2>1, <3>1 DEF ScanSession, cache, R!revisions
  <2>2. CASE RebuildCommit
    <3>1. build.pc = "scan" /\ build'.pc = "committed" /\ build.seen \in R!Rows
      BY <2>2, NoBuildType DEF RebuildCommit, Rebuilt, NoBuild, Sound, Builds, Rows
    <3>2. R!Rebuilt
      BY <2>2, <3>1 DEF RebuildCommit, Rebuilt, R!Rebuilt
    <3> QED
      BY <3>2 DEF R!RevisionsNext
  <2>3. CASE RebuildEnd
    <3>1. R!EndRebuild
      BY <2>3 DEF RebuildEnd, NoBuild, cache, R!EndRebuild
    <3> QED
      BY <3>1 DEF R!RevisionsNext
  <2> QED
    BY <1>5, <2>0, <2>1, <2>2, <2>3 DEF Rebuild
<1>6. CASE Accept
  BY <1>6, OthersStutter DEF Accept
<1>7. ASSUME NEW s \in Session, TaskStep(s) PROVE R!RevisionsNext \/ UNCHANGED R!revisions
  <2>1. CASE TakePending(s) \/ Snap(s) \/ Join(s) \/ ReadSession(s)
    BY <2>1, OthersStutter DEF TakePending, Snap, Join, ReadSession
  <2>2. CASE ForceRebuild(s)
    BY <2>2, KickRefines DEF ForceRebuild, R!RevisionsNext
  <2>3. CASE Commit(s)
    BY <2>3, CommitRefines DEF R!RevisionsNext
  <2> QED
    BY <1>7, <2>1, <2>2, <2>3 DEF TaskStep
<1>8. CASE UNCHANGED catalog
  BY <1>8, OthersStutter DEF catalog
<1> QED
  BY <1>1, <1>2, <1>3, <1>4, <1>5, <1>6, <1>7, <1>8, <1>9 DEF CatalogNext, Owner

\* SessionCatalogCache keeps what list_for_rpc tells its clients: every move of
\* the rows is a patch that is remembered, or a rebuild that forgets them.
THEOREM RevisionsKept == CatalogSpec => KeepsRevisions
<1>1. CatalogInit => R!RevisionsInit
  BY InitRefines
<1>2. Sound /\ [CatalogNext]_catalog => [R!RevisionsNext]_(R!revisions)
  BY NextRefines
<1> QED
  BY <1>1, <1>2, SoundAlways, PTL DEF CatalogSpec, KeepsRevisions, R!RevisionsSpec

-----------------------------------------------------------------------------
(* The type invariant: counters stay within their bounds, and the patches  *)
(* that are remembered are of this revision's past.                        *)

Bounded(m) == \A s \in Session : m[s] \in 0 .. MaxWrites + 1

Counted ==
  /\ writes \in 0 .. MaxWrites /\ stamp \in 0 .. writes
  /\ \A s \in Session : mark[s] \in 1 .. writes + 1
  /\ Bounded(saved.mark) /\ Bounded(build.mark)
  /\ fp \in 0 .. MaxWrites /\ build.fp \in 0 .. MaxWrites
  /\ gen \in 1 .. MaxRestarts + 1
  /\ expiries \in 0 .. MaxExpiries
  /\ warm \in BOOLEAN /\ expired \in BOOLEAN

Entry == [seq : Nat, patch : R!Patch]

\* What the patches ds may be at revision n.
Remembered(ds, n) ==
  /\ ds \in Seq(Entry) /\ Len(ds) <= DeltaKeep
  /\ \A i \in 1 .. Len(ds) : ds[i].seq \in 1 .. n

\* Remembering a patch keeps the last DeltaKeep, and the new one is the youngest.
LEMMA RememberKeeps ==
  ASSUME Remembered(deltas, seq), seq \in Nat, NEW p \in R!Patch
  PROVE  Remembered(R!Remember(p), seq + 1)
<1> DEFINE e == [seq |-> seq + 1, patch |-> p]
           ds == Append(deltas, e)
<1>1. e \in Entry /\ e.seq = seq + 1
  BY DEF Entry
<1> HIDE DEF e
<1>2. ds \in Seq(Entry) /\ Len(ds) = Len(deltas) + 1
  BY <1>1 DEF Remembered
<1>3. \A i \in 1 .. Len(ds) : ds[i].seq \in 1 .. seq + 1
  BY <1>1, <1>2 DEF Remembered
<1>4. R!Remember(p) = IF Len(ds) > DeltaKeep THEN Tail(ds) ELSE ds
  BY DEF R!Remember, e
<1> HIDE DEF ds
<1>5. CASE Len(ds) > DeltaKeep
  <2>1. Len(ds) >= 1 /\ ds # << >> /\ Len(ds) \in Nat
    BY <1>2 DEF Remembered
  <2>2. Tail(ds) \in Seq(Entry) /\ Len(Tail(ds)) = Len(ds) - 1
    BY <1>2, <2>1
  <2>3. \A i \in 1 .. Len(Tail(ds)) : Tail(ds)[i] = ds[i + 1]
    BY <1>2, <2>1
  <2>4. \A i \in 1 .. Len(Tail(ds)) : Tail(ds)[i].seq \in 1 .. seq + 1
    BY <1>3, <2>1, <2>2, <2>3
  <2>5. Len(Tail(ds)) <= DeltaKeep
    BY <1>2, <2>1, <2>2, CatalogAssumption DEF Remembered
  <2> QED
    BY <1>4, <1>5, <2>2, <2>4, <2>5 DEF Remembered
<1>6. CASE ~(Len(ds) > DeltaKeep)
  <2>1. Len(ds) \in Nat /\ DeltaKeep \in Nat
    BY <1>2, CatalogAssumption
  <2> QED
    BY <1>2, <1>3, <1>4, <1>6, <2>1 DEF Remembered
<1> QED
  BY <1>5, <1>6

\* What a step does to the patches and the revision they belong to.
LEMMA PatchesMove ==
  ASSUME Sound, [CatalogNext]_catalog
  PROVE  \/ UNCHANGED <<deltas, seq>>
         \/ deltas' = << >> /\ seq' \in Nat
         \/ \E p \in R!Patch : deltas' = R!Remember(p) /\ seq' = seq + 1
<1> USE DEF cache, catalog
<1>1. ASSUME NEW s \in Session, Write(s) PROVE UNCHANGED <<deltas, seq>>
  BY <1>1 DEF Write, Changed
<1>7. ASSUME NEW s \in Session, Drift(s) PROVE UNCHANGED <<deltas, seq>>
  BY <1>7 DEF Drift, Changed
<1>2. CASE Expire \/ Kick \/ Accept
  BY <1>2 DEF Expire, Kick, Accept
<1>3. CASE Restart
  BY <1>3 DEF Restart
<1>4. CASE Rebuild
  <2>1. CASE StampSessions \/ ScanSession
    BY <2>1 DEF StampSessions, ScanSession
  <2>2. CASE RebuildCommit
    BY <2>2 DEF RebuildCommit, Rebuilt, Sound
  <2>3. CASE RebuildEnd
    BY <2>3 DEF RebuildEnd
  <2> QED
    BY <1>4, <2>1, <2>2, <2>3 DEF Rebuild
<1>5. ASSUME NEW s \in Session, Commit(s)
      PROVE  \/ UNCHANGED <<deltas, seq>>
             \/ \E p \in R!Patch : deltas' = R!Remember(p) /\ seq' = seq + 1
  <2>1. Changes(task[s].found) \in R!Patch
    BY ChangesArePatch DEF Sound
  <2> QED
    BY <1>5, <2>1 DEF Commit
<1>6. ASSUME NEW s \in Session, TaskStep(s), ~Commit(s) PROVE UNCHANGED <<deltas, seq>>
  BY <1>6 DEF TaskStep, TakePending, Snap, ForceRebuild, Join, ReadSession
<1> QED
  BY <1>1, <1>2, <1>3, <1>4, <1>5, <1>6, <1>7 DEF CatalogNext, Owner

LEMMA RememberedNext ==
  ASSUME Sound, Remembered(deltas, seq), [CatalogNext]_catalog
  PROVE  Remembered(deltas, seq)'
<1>1. CASE UNCHANGED <<deltas, seq>>
  BY <1>1 DEF Remembered
<1>2. CASE deltas' = << >> /\ seq' \in Nat
  BY <1>2, CatalogAssumption DEF Remembered
<1>3. ASSUME NEW p \in R!Patch, deltas' = R!Remember(p), seq' = seq + 1
      PROVE  Remembered(deltas, seq)'
  <2>1. Remembered(R!Remember(p), seq + 1)
    BY RememberKeeps DEF Sound
  <2> QED
    BY <1>3, <2>1 DEF Remembered
<1> QED
  BY PatchesMove, <1>1, <1>2, <1>3

LEMMA CountedNext ==
  ASSUME Sound, Counted, [CatalogNext]_catalog
  PROVE  Counted'
<1> USE CatalogAssumption DEF files, cache, watch, catalog, Counted
<1>none. NoBuild.fp \in 0 .. MaxWrites /\ Bounded(NoBuild.mark) /\ Bounded(NoMarks)
  BY NoBuildType DEF NoMarks, Bounded
<1>kick. ASSUME NEW force, KickRebuild(force)
         PROVE  build'.fp \in 0 .. MaxWrites /\ Bounded(build'.mark)
  <2>1. [NoBuild EXCEPT !.pc = "stamp", !.fp = stamp].fp = stamp
    BY NoBuildType DEF Builds
  <2>2. [NoBuild EXCEPT !.pc = "stamp", !.fp = stamp].mark = NoBuild.mark
    BY NoBuildType DEF Builds
  <2> QED
    BY <1>kick, <1>none, <2>1, <2>2 DEF KickRebuild
<1>more. ASSUME NEW s \in Session, NEW new, Changed(s, new)
         PROVE  writes' \in 0 .. MaxWrites /\ writes' = writes + 1 /\ UNCHANGED <<gen, cache, saved>>
  BY <1>more DEF Changed
<1>1. ASSUME NEW s \in Session, Write(s) PROVE Counted'
  <2>1. PICK new \in Shown : Changed(s, new) /\ mark' = [mark EXCEPT ![s] = @ + 1]
    BY <1>1 DEF Write
  <2>2. writes' \in 0 .. MaxWrites /\ writes' = writes + 1 /\ UNCHANGED <<gen, cache, saved>>
    BY <2>1, <1>more
  <2>3. \A r \in Session : mark'[r] \in 1 .. writes' + 1
    BY <2>1, <2>2 DEF Sound, Mark
  <2>4. build'.fp \in 0 .. MaxWrites /\ Bounded(build'.mark)
    BY <1>1, <1>none DEF Write
  <2>5. stamp' \in 0 .. writes'
    BY <1>1, <2>2 DEF Write
  <2> QED
    BY <2>2, <2>3, <2>4, <2>5 DEF Bounded
<1>9. ASSUME NEW s \in Session, Drift(s) PROVE Counted'
  <2>1. PICK new : Changed(s, new)
    BY <1>9 DEF Drift
  <2>2. writes' \in 0 .. MaxWrites /\ writes' = writes + 1 /\ UNCHANGED <<gen, cache, saved>>
    BY <2>1, <1>more
  <2>3. UNCHANGED <<mark, stamp, build>>
    BY <1>9 DEF Drift
  <2>4. \A r \in Session : mark'[r] \in 1 .. writes' + 1
    BY <2>2, <2>3
  <2> QED
    BY <2>2, <2>3, <2>4 DEF Bounded
<1>2. CASE Expire
  BY <1>2 DEF Expire, Bounded
<1>3. CASE Restart
  <2>1. build'.fp \in 0 .. MaxWrites /\ fp' \in 0 .. MaxWrites /\ Bounded(build'.mark)
    BY <1>3, <1>none DEF Restart
  <2>2. gen' \in 1 .. MaxRestarts + 1
    BY <1>3 DEF Restart
  <2> QED
    BY <1>3, <2>1, <2>2 DEF Restart, Bounded
<1>4. CASE Kick
  BY <1>4, <1>kick DEF Kick, Bounded
<1>5. CASE Rebuild
  <2>0. CASE StampSessions
    <3> DEFINE marks == [s \in Session |-> IF disk[s] = Absent THEN 0 ELSE mark[s]]
    <3>1. Bounded(marks)
      BY DEF Bounded
    <3> HIDE DEF marks
    <3>2. build'.fp = build.fp /\ build'.mark = marks
      BY <2>0 DEF StampSessions, Sound, Builds, marks
    <3> QED
      BY <2>0, <3>1, <3>2 DEF StampSessions, Bounded
  <2>1. CASE ScanSession
    <3>1. build'.fp = build.fp /\ build'.mark = build.mark
      BY <2>1, ScanFacts DEF Sound, Builds
    <3> QED
      BY <2>1, <3>1 DEF ScanSession, Bounded
  <2>2. CASE RebuildCommit
    <3>1. build' = [NoBuild EXCEPT !.pc = "committed"]
      BY <2>2 DEF RebuildCommit, Rebuilt
    <3>2. build'.fp = NoBuild.fp /\ build'.mark = NoBuild.mark
      BY <3>1, NoBuildType DEF Builds
    <3>3. saved'.mark = build.mark /\ fp' = build.fp
      BY <2>2 DEF RebuildCommit, Rebuilt
    <3> QED
      BY <2>2, <1>none, <3>2, <3>3 DEF RebuildCommit, Rebuilt, Bounded
  <2>3. CASE RebuildEnd
    BY <2>3, <1>none DEF RebuildEnd, Bounded
  <2> QED
    BY <1>5, <2>0, <2>1, <2>2, <2>3 DEF Rebuild
<1>6. CASE Accept
  BY <1>6 DEF Accept, Bounded
<1>7. ASSUME NEW s \in Session, TaskStep(s) PROVE Counted'
  <2>1. CASE ForceRebuild(s)
    BY <2>1, <1>kick DEF ForceRebuild, Bounded
  <2>2. CASE Commit(s)
    BY <2>2 DEF Commit, Bounded
  <2>3. CASE TakePending(s) \/ Snap(s) \/ Join(s) \/ ReadSession(s)
    BY <2>3 DEF TakePending, Snap, Join, ReadSession, Bounded
  <2> QED
    BY <1>7, <2>1, <2>2, <2>3 DEF TaskStep
<1>8. CASE UNCHANGED catalog
  BY <1>8 DEF Bounded
<1> QED
  BY <1>1, <1>2, <1>3, <1>4, <1>5, <1>6, <1>7, <1>8, <1>9 DEF CatalogNext, Owner

LEMMA CountedInit == CatalogInit => Counted /\ Remembered(deltas, seq)
<1> SUFFICES ASSUME CatalogInit PROVE Counted /\ Remembered(deltas, seq)
  OBVIOUS
<1>1. build.fp = 0 /\ Bounded(build.mark) /\ Bounded(saved.mark)
  BY CatalogAssumption, NoBuildType DEF CatalogInit, OwnerInit, Bounded, NoMarks
<1>2. Counted
  <2>1. /\ stamp = 0 /\ writes = 0 /\ expiries = 0 /\ gen = 1 /\ fp = 0
        /\ warm = FALSE /\ expired = FALSE
        /\ \A s \in Session : mark[s] = 1
    BY DEF CatalogInit, OwnerInit
  <2>2. warm \in BOOLEAN /\ expired \in BOOLEAN
    <3>1. warm = FALSE
      BY <2>1
    <3>2. expired = FALSE
      BY <2>1
    <3> QED
      BY <3>1, <3>2, Zenon
  <2> QED
    BY <1>1, <2>1, <2>2, CatalogAssumption DEF Counted
<1>3. deltas = << >>
  BY DEF CatalogInit, OwnerInit
<1> QED
  BY <1>2, <1>3, CatalogAssumption DEF Remembered

\* The cache, its scan and its tasks keep their types, a revision counts all patches
\* that it stands for, and at most _DELTA_KEEP of them are remembered.
THEOREM CatalogTypesKept == CatalogSpec => []CatalogTypeOK
<1> DEFINE All == Sound /\ Counted /\ Remembered(deltas, seq)
<1>1. CatalogInit => All
  BY SoundInit, CountedInit
<1>2. All /\ [CatalogNext]_catalog => All'
  BY SoundNext, CountedNext, RememberedNext
<1>3. All => CatalogTypeOK
  <2> SUFFICES ASSUME All PROVE CatalogTypeOK
    OBVIOUS
  <2>1. stamp \in 0 .. MaxWrites
    BY CatalogAssumption DEF Counted
  <2>2. \A i \in DOMAIN deltas : deltas[i].seq \in 1 .. seq /\ deltas[i].patch \in R!Patch
    <3>1. DOMAIN deltas = 1 .. Len(deltas) /\ \A i \in 1 .. Len(deltas) : deltas[i] \in Entry
      BY DEF Remembered
    <3>2. \A x \in Entry : x.patch \in R!Patch
      BY DEF Entry
    <3>3. \A i \in 1 .. Len(deltas) : deltas[i].seq \in 1 .. seq
      BY DEF Remembered
    <3> QED
      BY <3>1, <3>2, <3>3
  <2>3. /\ build \in [pc : {"off", "stamp", "scan", "committed"}, fp : 0 .. MaxWrites,
                      todo : SUBSET Session, mark : Marks, seen : Rows]
        /\ saved \in [mark : Marks, row : Rows]
    <3>1. build.mark \in Marks /\ saved.mark \in Marks
      BY DEF Sound, Builds, Counted, Bounded, Mark, Marks
    <3> QED
      BY <3>1 DEF Sound, Builds, Counted
  <2>6. mark \in [Session -> 1 .. MaxWrites + 1]
    BY CatalogAssumption DEF Sound, Mark, Counted
  <2>4. \A s \in Session : /\ task[s].pc \in TaskPC
                           /\ task[s].dirs \subseteq Session
                           /\ task[s].found \in R!Patch
    BY DEF Sound
  <2>5. {warm, expired} \subseteq BOOLEAN
    BY DEF Counted
  <2> QED
    BY <2>1, <2>2, <2>3, <2>4, <2>5, <2>6 DEF Sound, Counted, Remembered, CatalogTypeOK
<1> HIDE DEF All
<1> QED
  BY <1>1, <1>2, <1>3, PTL DEF CatalogSpec

-----------------------------------------------------------------------------
(* The snapshot.                                                           *)

\* A row that the scan has brought under a stamp that is still that of the session
\* is one that the files came to since; a stamp never is of the future, and no
\* session that has been listed is gone without a new one.
Honest ==
  /\ SnapshotHonest
  /\ \A s \in Session :
       /\ disk[s] \in held[s]
       /\ mark[s] # 0 /\ saved.mark[s] <= mark[s] /\ build.mark[s] <= mark[s]
       /\ build.mark[s] = mark[s] => disk[s] # Absent
       /\ build.pc = "scan" /\ build.mark[s] = mark[s] /\ s \notin build.todo
            => build.seen[s] \in held[s]

LEMMA HonestInit == CatalogInit => Honest
<1> SUFFICES ASSUME CatalogInit PROVE Honest
  OBVIOUS
<1>1. \A s \in Session : /\ mark[s] = 1 /\ saved.mark[s] = 0 /\ held[s] = {disk[s]}
                         /\ build.mark[s] = 0
  BY NoBuildType DEF CatalogInit, OwnerInit, NoMarks
<1> QED
  BY <1>1 DEF Honest, SnapshotHonest

\* No stamp stands for a session whose files have just changed.
LEMMA WriteHonest ==
  ASSUME Sound, Honest, NEW w \in Session, Write(w)
  PROVE  Honest'
<1>1. PICK new \in Shown : /\ Changed(w, new) /\ mark' = [mark EXCEPT ![w] = @ + 1]
                           /\ held' = [held EXCEPT ![w] = {new}]
  BY DEF Write
<1>2. disk' = [disk EXCEPT ![w] = new] /\ UNCHANGED saved
  BY <1>1 DEF Changed
<1>3. build' = build \/ build' = NoBuild
  BY DEF Write
<1>4. ASSUME NEW s \in Session
      PROVE  /\ disk'[s] \in held'[s] /\ mark'[s] # 0
             /\ saved.mark[s] <= mark'[s] /\ build'.mark[s] <= mark'[s]
             /\ saved.mark[s] = mark'[s] => s # w
             /\ build'.mark[s] = mark'[s] => s # w /\ build' = build
             /\ s # w => /\ disk'[s] = disk[s] /\ held'[s] = held[s] /\ mark'[s] = mark[s]
  <2>1. mark[s] \in Nat /\ saved.mark[s] \in Nat /\ build.mark[s] \in Nat
    BY DEF Sound, Mark, Builds
  <2>2. mark[s] # 0 /\ saved.mark[s] <= mark[s] /\ build.mark[s] <= mark[s] /\ disk[s] \in held[s]
    BY DEF Honest
  <2>3. mark'[s] = IF s = w THEN mark[s] + 1 ELSE mark[s]
    BY <1>1 DEF Sound, Mark
  <2>4. build'.mark[s] = build.mark[s] \/ build'.mark[s] = 0
    BY <1>3, NoBuildType DEF NoMarks
  <2>5. build'.mark[s] = mark'[s] => build' = build
    BY <1>3, <2>1, <2>2, <2>3, NoBuildType DEF NoMarks
  <2>6. /\ disk'[s] = IF s = w THEN new ELSE disk[s]
        /\ held'[s] = IF s = w THEN {new} ELSE held[s]
    BY <1>1, <1>2 DEF Sound, Rows, R!Rows
  <2> QED
    BY <2>1, <2>2, <2>3, <2>4, <2>5, <2>6
<1> QED
  BY <1>2, <1>4 DEF Honest, SnapshotHonest

\* What a row drifts to is remembered.
LEMMA DriftHonest ==
  ASSUME Sound, Honest, NEW w \in Session, Drift(w)
  PROVE  Honest'
<1>1. PICK new \in Status : Changed(w, new) /\ held' = [held EXCEPT ![w] = @ \cup {new}]
  BY DEF Drift
<1>2. disk' = [disk EXCEPT ![w] = new] /\ UNCHANGED <<saved, mark, build>>
  BY <1>1 DEF Changed, Drift
<1>3. new # Absent /\ disk[w] # Absent
  BY CatalogAssumption DEF Drift, Absent, R!Absent
<1>4. ASSUME NEW s \in Session
      PROVE  /\ disk'[s] \in held'[s] /\ held[s] \subseteq held'[s]
             /\ disk[s] # Absent => disk'[s] # Absent
  BY <1>1, <1>2, <1>3 DEF Sound, Honest, Rows, R!Rows
<1> QED
  BY <1>2, <1>4 DEF Honest, SnapshotHonest

LEMMA StampHonest ==
  ASSUME Sound, Honest, StampSessions
  PROVE  Honest'
<1> DEFINE marks == [s \in Session |-> IF disk[s] = Absent THEN 0 ELSE mark[s]]
<1>1. UNCHANGED <<files, saved>>
  BY DEF StampSessions
<1>2. build'.mark = marks /\ build'.todo = Session /\ build'.pc = "scan"
  BY DEF StampSessions, Sound, Builds
<1>3. \A s \in Session : /\ marks[s] <= mark[s]
                         /\ marks[s] = mark[s] => disk[s] # Absent
  BY DEF Honest, Sound, Mark
<1> HIDE DEF marks
<1> QED
  BY <1>1, <1>2, <1>3 DEF files, Honest, SnapshotHonest

\* What is read of a session that is there, or reused under its stamp, is one of
\* the rows since that stamp.
LEMMA ScanHonest ==
  ASSUME Sound, Honest, ScanSession
  PROVE  Honest'
<1>1. PICK w \in build.todo, row \in R!Shown :
        /\ build' = [build EXCEPT !.todo = build.todo \ {w},
                                  !.seen = [build.seen EXCEPT ![w] = row]]
        /\ build' \in Builds
        /\ build.mark[w] # 0 =>
             \/ saved.mark[w] = build.mark[w] /\ row = saved.row[w]
             \/ row \in Found(w)
  BY ScanFacts
<1>2. UNCHANGED <<files, saved>>
  BY DEF ScanSession
<1>3. /\ build'.mark = build.mark /\ build'.pc = build.pc /\ build'.todo = build.todo \ {w}
      /\ build'.seen = [build.seen EXCEPT ![w] = row]
  BY <1>1 DEF Sound, Builds
<1>4. w \in Session /\ build.seen \in Rows
  BY DEF Sound, Builds
<1>5. ASSUME build.mark[w] = mark[w]
      PROVE  row \in held[w]
  <2>1. build.mark[w] # 0 /\ disk[w] # Absent /\ disk[w] \in held[w]
    BY <1>4, <1>5 DEF Honest
  <2>2. CASE saved.mark[w] = build.mark[w] /\ row = saved.row[w]
    BY <1>4, <1>5, <2>2 DEF Honest, SnapshotHonest
  <2>3. CASE row \in Found(w)
    BY <2>1, <2>3 DEF Found
  <2> QED
    BY <1>1, <2>1, <2>2, <2>3
<1>6. ASSUME NEW s \in Session, build.pc = "scan", build.mark[s] = mark[s], s \notin build'.todo
      PROVE  build'.seen[s] \in held[s]
  <2>1. CASE s = w
    BY <1>3, <1>4, <1>5, <1>6, <2>1 DEF Rows, R!Rows
  <2>2. CASE s # w
    BY <1>3, <1>4, <1>6, <2>2 DEF Honest, Rows, R!Rows
  <2> QED
    BY <2>1, <2>2
<1> QED
  BY <1>2, <1>3, <1>6 DEF files, Honest, SnapshotHonest

LEMMA CommitHonest ==
  ASSUME Sound, Honest, RebuildCommit
  PROVE  Honest'
<1>1. /\ build.pc = "scan" /\ build.todo = {} /\ UNCHANGED files
      /\ saved' = [mark |-> build.mark, row |-> build.seen]
      /\ build' = [NoBuild EXCEPT !.pc = "committed"]
  BY DEF RebuildCommit, Rebuilt
<1>2. build'.pc = "committed" /\ build'.mark = NoMarks
  BY <1>1, NoBuildType DEF Builds
<1>3. \A s \in Session : NoMarks[s] = 0 /\ mark[s] \in Nat
  BY DEF NoMarks, Sound, Mark
<1> QED
  BY <1>1, <1>2, <1>3 DEF files, Honest, SnapshotHonest

LEMMA HonestNext == Sound /\ Honest /\ [CatalogNext]_catalog => Honest'
<1> SUFFICES ASSUME Sound, Honest, [CatalogNext]_catalog
             PROVE  Honest'
  OBVIOUS
\* Elsewhere the files and the snapshot stay, and the rebuild begins or ends.
<1>0. ASSUME UNCHANGED <<files, saved>>,
             \/ build' = build \/ build' = NoBuild
             \/ build'.pc = "stamp" /\ build'.mark = NoMarks
      PROVE  Honest'
  <2>1. \/ build' = build
        \/ build'.pc # "scan" /\ build'.mark = NoMarks
    BY <1>0, NoBuildType
  <2>2. \A s \in Session : NoMarks[s] = 0 /\ mark[s] \in Nat
    BY DEF NoMarks, Sound, Mark
  <2> QED
    BY <1>0, <2>1, <2>2 DEF files, Honest, SnapshotHonest
<1>kick. ASSUME NEW force, KickRebuild(force), UNCHANGED <<files, saved>> PROVE Honest'
  <2>1. /\ [NoBuild EXCEPT !.pc = "stamp", !.fp = stamp].pc = "stamp"
        /\ [NoBuild EXCEPT !.pc = "stamp", !.fp = stamp].mark = NoMarks
    BY NoBuildType DEF Builds
  <2> QED
    BY <1>0, <1>kick, <2>1 DEF KickRebuild
<1>1. ASSUME NEW s \in Session, Write(s) \/ Drift(s) PROVE Honest'
  BY <1>1, WriteHonest, DriftHonest
<1>2. CASE Expire \/ Restart \/ Accept
  BY <1>0, <1>2 DEF Expire, Restart, Accept
<1>3. CASE Kick
  BY <1>3, <1>kick DEF Kick
<1>4. CASE Rebuild
  <2>1. CASE RebuildEnd
    BY <1>0, <2>1 DEF RebuildEnd
  <2> QED
    BY <1>4, <2>1, StampHonest, ScanHonest, CommitHonest DEF Rebuild
<1>5. ASSUME NEW s \in Session, TaskStep(s) PROVE Honest'
  <2>1. CASE ForceRebuild(s)
    BY <2>1, <1>kick DEF ForceRebuild
  <2>2. CASE TakePending(s) \/ Snap(s) \/ Join(s) \/ ReadSession(s) \/ Commit(s)
    BY <1>0, <2>2 DEF TakePending, Snap, Join, ReadSession, Commit
  <2> QED
    BY <1>5, <2>1, <2>2 DEF TaskStep
<1>6. CASE UNCHANGED catalog
  BY <1>0, <1>6 DEF catalog
<1> QED
  BY <1>1, <1>2, <1>3, <1>4, <1>5, <1>6 DEF CatalogNext, Owner

\* A row that a scan takes from the snapshot is one that the files of its session came
\* to since summary, signals or journal last changed.
THEOREM SnapshotsHonest == CatalogSpec => []SnapshotHonest
<1>1. CatalogInit => Sound /\ Honest
  BY SoundInit, HonestInit
<1>2. Sound /\ Honest /\ [CatalogNext]_catalog => (Sound /\ Honest)'
  BY SoundNext, HonestNext
<1>3. Honest => SnapshotHonest
  BY DEF Honest
<1> QED
  BY <1>1, <1>2, <1>3, PTL DEF CatalogSpec
=============================================================================
