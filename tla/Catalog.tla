------------------------------ MODULE Catalog -------------------------------
(***************************************************************************)
(* The session catalog of the control owner: SessionCatalogCache           *)
(* (session/catalog.py), whose rows are rebuilt by a scan in a thread of   *)
(* its own or patched one session at a time, and CatalogWatchApply         *)
(* (integrations/daemon.py), which turns filesystem events into patches.   *)
(* The cache's lock covers single blocks; scanning and reading are done    *)
(* outside it, so every block under the lock is one step and every read of *)
(* a session's files is one step.  A scan reuses the rows of its last      *)
(* snapshot, a file (session/mtime_export.py), where the three files that  *)
(* it looks at have not changed; a row depends on others too, and on time. *)
(***************************************************************************)
EXTENDS Naturals, Sequences, FiniteSets

CONSTANTS
  Session,     \* session directories under the catalog roots
  Nested,      \* those in a bucket directory: a root's mtime says nothing of them
  Status,      \* list statuses that a session's files may come to
  DeltaKeep,   \* _DELTA_KEEP: patches remembered for sinceRevision clients
  MaxWrites,   \* bound on the changes of files under the roots
  MaxExpiries, \* bound on the needless expiries of the cache's TTL
  MaxRestarts, \* bound on the restarts of the owner process
  ScanFails    \* list_session_catalog may raise

ASSUME CatalogAssumption ==
  /\ IsFiniteSet(Session) /\ Nested \subseteq Session
  /\ Status \subseteq {"running", "complete", "none"} /\ "none" \in Status
  /\ DeltaKeep \in Nat \ {0}
  /\ MaxWrites \in Nat /\ MaxExpiries \in Nat /\ MaxRestarts \in Nat
  /\ ScanFails \in BOOLEAN

VARIABLES
  disk,     \* per session: the row its files come to now
  mark,     \* per session: mtimes of summary.json, signals.json, updates.jsonl
  held,     \* history, per session: what its files came to since these moved
  stamp,    \* fingerprint of the roots: it moves when sessions come and go
  writes,   \* changes so far
  gen,      \* owner instance, the high bits of a revision
  warm,     \* _rows is not None
  rows,     \* _rows
  seq,      \* _seq, the low bits of the revision
  deltas,   \* _deltas: patches since the last rebuild
  fp,       \* _fingerprint
  expired,  \* the TTL has run out
  expiries, \* expiries so far
  build,    \* the rebuild thread; _building is build.pc # "off"
  saved,    \* the snapshot on disk that scans reuse: marks and rows
  fired,    \* sessions with events that the serve loop has not accepted
  pending,  \* CatalogWatchApply._pending
  task      \* CatalogWatchApply._tasks, one per session id

files == <<disk, mark, held, stamp, writes>>
cache == <<warm, rows, seq, deltas, fp, expired, expiries>>
watch == <<fired, pending, task>>
catalog == <<files, gen, cache, build, saved, watch>>

Building == build.pc # "off"

\* What the clients of session/list see of it.
R == INSTANCE CatalogRevisions WITH
  building <- IF build.pc = "stamp" THEN "scan" ELSE build.pc

Absent  == R!Absent    \* also for a subagent's directory
Shown   == R!Shown
Rows    == R!Rows
Nothing == R!Nothing

TaskPC == {"idle", "run", "snap", "read", "force", "join"}

\* 0: no session was found there.
Marks == [Session -> 0 .. MaxWrites + 1]
NoMarks == [s \in Session |-> 0]

CatalogTypeOK ==
  /\ disk \in Rows /\ rows \in Rows /\ held \in [Session -> SUBSET Shown]
  /\ mark \in [Session -> 1 .. MaxWrites + 1] /\ saved \in [mark : Marks, row : Rows]
  /\ stamp \in 0 .. MaxWrites /\ writes \in 0 .. MaxWrites /\ fp \in 0 .. MaxWrites
  /\ gen \in 1 .. MaxRestarts + 1 /\ seq \in Nat
  /\ {warm, expired} \subseteq BOOLEAN
  /\ expiries \in 0 .. MaxExpiries
  /\ \A i \in DOMAIN deltas : deltas[i].seq \in 1 .. seq /\ deltas[i].patch \in R!Patch
  /\ Len(deltas) <= DeltaKeep
  /\ build \in [pc : {"off", "stamp", "scan", "committed"}, fp : 0 .. MaxWrites,
                todo : SUBSET Session, mark : Marks, seen : Rows]
  /\ fired \subseteq Session
  /\ pending \in [Session -> SUBSET Session]
  /\ \A s \in Session : /\ task[s].pc \in TaskPC
                        /\ task[s].dirs \subseteq Session
                        /\ task[s].found \in R!Patch

NoBuild == [pc |-> "off", fp |-> 0, todo |-> {}, mark |-> NoMarks, seen |-> Nothing]
NoTask  == [pc |-> "idle", dirs |-> {}, seq |-> 0, found |-> << >>]

OwnerInit ==
  /\ warm = FALSE /\ rows = Nothing /\ seq = 0 /\ deltas = << >>
  /\ fp = 0 /\ expired = FALSE /\ build = NoBuild
  /\ fired = {} /\ pending = [s \in Session |-> {}] /\ task = [s \in Session |-> NoTask]

CatalogInit ==
  /\ disk \in [Session -> Shown] /\ mark = [s \in Session |-> 1]
  /\ held = [s \in Session |-> {disk[s]}]
  /\ saved = [mark |-> NoMarks, row |-> Nothing]
  /\ stamp = 0 /\ writes = 0 /\ expiries = 0 /\ gen = 1
  /\ OwnerInit

\* The status of a finished session is kept when its files say nothing.
Kept(old, new) == IF new = "none" /\ old = "complete" THEN old ELSE new

\* The row is one that the files came to since the three last changed, or is
\* kept instead of it.
Agrees(s) == \E row \in held[s] : rows[s] = Kept(rows[s], row)

-----------------------------------------------------------------------------
(* The files under the roots, and time.                                    *)

Changed(s, row) ==
  /\ writes < MaxWrites /\ writes' = writes + 1
  /\ disk' = [disk EXCEPT ![s] = row]
  /\ fired' \in {fired, fired \cup {s}}
  /\ UNCHANGED <<gen, cache, saved, pending, task>>

\* Its summary, signals or journal change, or the session comes or goes.  The
\* watch notes it, unless it is about to arm anew.  A scan may trip over the
\* change: it raises, and its finally clause ends the rebuild.
Write(s) ==
  /\ \E new \in Shown :
       /\ Absent \notin {new} \cap {disk[s]}
       /\ Changed(s, new)
       /\ mark' = [mark EXCEPT ![s] = @ + 1] /\ held' = [held EXCEPT ![s] = {new}]
       /\ stamp' = IF Absent \in {new, disk[s]} /\ s \notin Nested THEN stamp + 1 ELSE stamp
  /\ build' \in {build} \cup IF ScanFails /\ build.pc \in {"stamp", "scan"} THEN {NoBuild} ELSE {}

\* Its row changes with the events, notes, gate or jobs of the session, or as it
\* grows old.  Only notes reach the watch.
Drift(s) ==
  /\ disk[s] # Absent
  /\ \E new \in Status \ {disk[s]} :
       Changed(s, new) /\ held' = [held EXCEPT ![s] = @ \cup {new}]
  /\ UNCHANGED <<mark, stamp, build>>

\* An expiry that nothing needs is counted.
Expire ==
  /\ warm /\ ~expired
  /\ expired' = TRUE
  /\ \/ expiries < MaxExpiries /\ expiries' = expiries + 1
     \/ (\E s \in Session : ~Agrees(s)) /\ UNCHANGED expiries
  /\ UNCHANGED <<files, gen, warm, rows, seq, deltas, fp, build, saved, watch>>

\* groket serve is stopped and started again.
Restart ==
  /\ gen <= MaxRestarts
  /\ gen' = gen + 1
  /\ warm' = FALSE /\ rows' = Nothing /\ seq' = 0 /\ deltas' = << >>
  /\ fp' = 0 /\ expired' = FALSE /\ build' = NoBuild
  /\ fired' = {} /\ pending' = [s \in Session |-> {}] /\ task' = [s \in Session |-> NoTask]
  /\ UNCHANGED <<files, expiries, saved>>

-----------------------------------------------------------------------------
(* SessionCatalogCache: rebuilding.                                        *)

\* Mutant: rows that are there are fresh.
FreshOnceWarm == warm

Fresh == warm /\ fp = stamp /\ ~expired

\* _kick_rebuild: at most one scan runs, and it remembers the fingerprint
\* that was taken before it.
KickRebuild(force) ==
  build' = IF (~force /\ Fresh) \/ Building THEN build
           ELSE [NoBuild EXCEPT !.pc = "stamp", !.fp = stamp]

\* get() at the start of the owner, and list_for_rpc before it looks at rows.
Kick ==
  /\ \E force \in BOOLEAN : (force => ~warm) /\ KickRebuild(force)
  /\ UNCHANGED <<files, gen, cache, saved, watch>>

\* load_or_rebuild_catalog lists the sessions with their mtimes: one step, since
\* of these its own decide about a row.
StampSessions ==
  /\ build.pc = "stamp"
  /\ build' = [build EXCEPT !.pc = "scan", !.todo = Session,
                 !.mark = [s \in Session |-> IF disk[s] = Absent THEN 0 ELSE mark[s]]]
  /\ UNCHANGED <<files, gen, cache, saved, watch>>

\* The next of them, in the order of their listing.
Following(S) == CHOOSE s \in S : TRUE

\* The row of a directory that is gone may be an empty one.
Found(s) == IF disk[s] = Absent THEN {Absent, "none"} ELSE {disk[s]}

Reused(s) == saved.mark[s] = build.mark[s] /\ saved.row[s] # Absent

\* The rows that a scan may give to it: that of the snapshot, or one that is built.
Scanned(s) ==
  IF build.mark[s] = 0 THEN {Absent} ELSE IF Reused(s) THEN {saved.row[s]} ELSE Found(s)

ScanSession ==
  LET s == Following(build.todo) IN
  /\ build.pc = "scan" /\ build.todo # {}
  /\ \E row \in Scanned(s) : build' = [build EXCEPT !.todo = @ \ {s}, !.seen[s] = row]
  /\ UNCHANGED <<files, gen, cache, saved, watch>>

Rebuilt(marks) ==
  /\ build.pc = "scan" /\ build.todo = {}
  /\ saved' = [mark |-> marks, row |-> build.seen]
  /\ warm' = TRUE /\ rows' = build.seen /\ expired' = FALSE /\ fp' = build.fp
  /\ seq' = seq + 1 /\ deltas' = << >>
  /\ build' = [NoBuild EXCEPT !.pc = "committed"]
  /\ UNCHANGED <<files, gen, expiries, watch>>

\* Mutant: the mtimes are those at the end of the scan.
CommitLate == Rebuilt(mark)

\* The snapshot is written, and then the rows are those of the scan.
RebuildCommit == Rebuilt(build.mark)

\* The finally clause, after a commit.
RebuildEnd ==
  /\ build.pc = "committed"
  /\ build' = NoBuild
  /\ UNCHANGED <<files, gen, cache, saved, watch>>

-----------------------------------------------------------------------------
(* CatalogWatchApply, and refresh_rows in the threads of its tasks.        *)

\* _accept: every session of a batch gets the batch's paths, and a task.
Accept ==
  \E batch \in SUBSET fired \ {{}} :
    /\ fired' = fired \ batch
    /\ pending' = [s \in Session |-> IF s \in batch THEN pending[s] \cup batch ELSE pending[s]]
    /\ task' = [s \in Session |-> IF s \in batch /\ task[s].pc = "idle"
                                  THEN [NoTask EXCEPT !.pc = "run"] ELSE task[s]]
    /\ UNCHANGED <<files, gen, cache, build, saved>>

\* _run: take all that is pending, or end.
TakePending(s) ==
  /\ task[s].pc = "run"
  /\ task' = [task EXCEPT ![s] = IF pending[s] = {} THEN NoTask
                                 ELSE [NoTask EXCEPT !.pc = "snap", !.dirs = pending[s]]]
  /\ pending' = [pending EXCEPT ![s] = {}]
  /\ UNCHANGED <<files, gen, cache, build, saved, fired>>

\* refresh_rows, first block under the lock.
Snap(s) ==
  /\ task[s].pc = "snap"
  /\ task' = IF Building \/ ~warm THEN [task EXCEPT ![s].pc = "force"]
             ELSE [task EXCEPT ![s].pc = "read", ![s].seq = seq]
  /\ UNCHANGED <<files, gen, cache, build, saved, fired, pending>>

\* get(force=True) starts a rebuild or joins the one that runs.
ForceRebuild(s) ==
  /\ task[s].pc = "force"
  /\ KickRebuild(TRUE)
  /\ task' = [task EXCEPT ![s].pc = "join"]
  /\ UNCHANGED <<files, gen, cache, saved, fired, pending>>

Join(s) ==
  /\ task[s].pc = "join" /\ ~Building
  /\ task' = [task EXCEPT ![s] = [NoTask EXCEPT !.pc = "run"]]
  /\ UNCHANGED <<files, gen, cache, build, saved, fired, pending>>

ReadSession(s) ==
  LET left == task[s].dirs \ DOMAIN task[s].found  d == Following(left) IN
  /\ task[s].pc = "read" /\ left # {}
  /\ \E row \in Found(d) :
       task' = [task EXCEPT ![s].found = [e \in DOMAIN @ \cup {d} |-> IF e = d THEN row ELSE @[e]]]
  /\ UNCHANGED <<files, gen, cache, build, saved, fired, pending>>

\* list_refresh_delta: the rows that look different from those of the snapshot.
Changes(found) ==
  LET new == [d \in DOMAIN found |-> Kept(rows[d], found[d])]
      moved == {d \in DOMAIN new : new[d] # rows[d]}
  IN [d \in moved |-> new[d]]

\* Mutant: the revision is not looked at.
CommitBlindly(s) ==
  /\ task[s].pc = "read" /\ DOMAIN task[s].found = task[s].dirs
  /\ task' = [task EXCEPT ![s] = [NoTask EXCEPT !.pc = "run"]]
  /\ LET p == Changes(task[s].found) IN
       /\ rows' = R!Patched(rows, p) /\ expired' = FALSE
       /\ IF p = << >> THEN UNCHANGED <<seq, deltas>>
          ELSE seq' = seq + 1 /\ deltas' = R!Remember(p)
  /\ UNCHANGED <<files, gen, build, saved, warm, fp, expiries, fired, pending>>

\* refresh_rows, last block: what was read is discarded when a rebuild runs
\* or the revision has moved; the rows are then those of the snapshot.
Commit(s) ==
  /\ task[s].pc = "read" /\ DOMAIN task[s].found = task[s].dirs
  /\ task' = [task EXCEPT ![s] = [NoTask EXCEPT !.pc = "run"]]
  /\ \/ /\ Building \/ seq # task[s].seq
        /\ UNCHANGED cache
     \/ /\ ~Building /\ seq = task[s].seq
        /\ LET p == Changes(task[s].found) IN
             /\ rows' = R!Patched(rows, p) /\ expired' = FALSE
             /\ IF p = << >> THEN UNCHANGED <<seq, deltas>>
                ELSE seq' = seq + 1 /\ deltas' = R!Remember(p)
        /\ UNCHANGED <<warm, fp, expiries>>
  /\ UNCHANGED <<files, gen, build, saved, fired, pending>>

Rebuild == StampSessions \/ ScanSession \/ RebuildCommit \/ RebuildEnd

TaskStep(s) ==
  \/ TakePending(s) \/ Snap(s) \/ ForceRebuild(s) \/ Join(s) \/ ReadSession(s) \/ Commit(s)

Owner == Rebuild \/ Accept \/ \E s \in Session : TaskStep(s)

CatalogNext ==
  \/ \E s \in Session : Write(s) \/ Drift(s)
  \/ Expire \/ Restart \/ Kick \/ Owner

CatalogSpec == CatalogInit /\ [][CatalogNext]_catalog

(* The watch delivers, the loop and the threads run, the TTL of a cache    *)
(* that nobody touches runs out, and some client lists every now and then. *)
CatalogFairness ==
  /\ WF_catalog(Accept) /\ WF_catalog(Expire) /\ WF_catalog(Kick) /\ WF_catalog(Rebuild)
  /\ \A s \in Session : WF_catalog(TaskStep(s))

FairCatalog == CatalogSpec /\ CatalogFairness

-----------------------------------------------------------------------------
\* A scan that is out of date when it commits, a patch that is discarded, an
\* event that arrives during a rebuild or not at all, a row that a snapshot
\* brings back: whatever is lost, every row is in the end one that the session's
\* files came to since its summary, signals or journal last changed.
CatalogSettles == <>[](\A s \in Session : Agrees(s))

\* "Reuse a cached row when that session's stamp is unchanged" (mtime_export.py):
\* the row that the next scan will take from the snapshot is one that the files
\* came to since the three last changed, however scans and changes fall together.
SnapshotHonest == \A s \in Session : saved.mark[s] = mark[s] => saved.row[s] \in held[s]

\* Rows move by remembered patches or by a rebuild, never otherwise: what
\* list_for_rpc tells its clients about revisions.
KeepsRevisions == R!RevisionsSpec
=============================================================================
